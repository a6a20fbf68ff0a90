---- MODULE ClientRegistry ----
(***************************************************************************)
(* The client registry of lab33's server                                   *)
(* (src/lab33/usual_server_management.c): a sparse set.  The pollfd        *)
(* entries of the live clients are kept dense, so that poll can be given a *)
(* prefix of the array; idTable maps a client's id to its index there and  *)
(* indexToId maps back.  Removing a client moves the last entry into the   *)
(* hole.                                                                   *)
(*                                                                         *)
(* Index 0 of the array belongs to the listener, which never moves: slot s *)
(* below is the array's index s + POLL_CLIENT_OFFSET.  The `events` fields *)
(* of all client entries are equal and never change, so swapping them is   *)
(* not modelled.  `open` is the kernel's side: which client descriptors    *)
(* are open.                                                               *)
(***************************************************************************)
EXTENDS ServerTypes, FiniteSets

CONSTANTS
    Fds,        \* descriptors accept may return
    Events      \* readiness bits poll may report for a client

ASSUME FdsAssumption == REMOVED_CLIENT \notin Fds

VARIABLES
    idTable,        \* id -> slot, or REMOVED_CLIENT
    indexToId,      \* slot -> id, or NO_ID
    clientCount,
    clients,        \* slot -> [fd, revents]
    open,           \* client descriptors open in the kernel
    up              \* FALSE once safe_cleanup has run

registryVars == <<idTable, indexToId, clientCount, clients, open, up>>

Slots == Ids        \* slots are numbered like ids, but mean something else

UsedSlots == 0 .. clientCount - 1

RegistryTypeOK ==
    /\ idTable \in [Ids -> Slots \cup {REMOVED_CLIENT}]
    /\ indexToId \in [Slots -> Ids \cup {NO_ID}]
    /\ clientCount \in 0 .. MaxClients
    /\ clients \in [Slots -> [fd : Fds \cup {REMOVED_CLIENT},
                              revents : SUBSET Events]]
    /\ open \in SUBSET Fds
    /\ up \in BOOLEAN

RegistryInit ==
    /\ idTable = [id \in Ids |-> REMOVED_CLIENT]
    /\ indexToId = [s \in Slots |-> NO_ID]
    /\ clientCount = 0
    /\ clients = [s \in Slots |-> [fd |-> REMOVED_CLIENT, revents |-> {}]]
    /\ open = {}
    /\ up = TRUE

-----------------------------------------------------------------------------
(* Lookups. *)

IsValidId(id) == id \in Ids /\ idTable[id] # REMOVED_CLIENT

Live == {id \in Ids : IsValidId(id)}

GetClient(id) == clients[idTable[id]]

IsFull == clientCount = MaxClients

(* next_id: the lowest free id, NO_ID when there is none. *)
FreeIds == {id \in Ids : idTable[id] = REMOVED_CLIENT}

NextId ==
    IF FreeIds = {} THEN NO_ID
    ELSE CHOOSE id \in FreeIds : \A other \in FreeIds : id <= other

-----------------------------------------------------------------------------
(* Operations. *)

(* add_client, for a descriptor accept has just opened.  The entry's       *)
(* revents field is left as it was.                                        *)
AddClient(fd) ==
    /\ NextId # NO_ID
    /\ idTable' = [idTable EXCEPT ![NextId] = clientCount]
    /\ indexToId' = [indexToId EXCEPT ![clientCount] = NextId]
    /\ clients' = [clients EXCEPT ![clientCount].fd = fd]
    /\ clientCount' = clientCount + 1
    /\ open' = open \cup {fd}
    /\ UNCHANGED up

(* The entries after disconnect_client(id), and after swap_poll. *)
Disconnected(id) == [clients EXCEPT ![idTable[id]].fd = REMOVED_CLIENT]

(* Two wrong swap_polls: none at all, and lab31's, which moves the fields  *)
(* it thinks of.                                                           *)
SwapPollForgotten(entries, a, b) == entries

SwapPollFdOnly(entries, a, b) ==
    [entries EXCEPT ![a].fd = entries[b].fd, ![b].fd = entries[a].fd]

SwapPoll(entries, a, b) ==
    [entries EXCEPT ![a] = entries[b], ![b] = entries[a]]

(* disconnect_client: an id that is not valid, or already disconnected, is *)
(* an early return (a stuttering step).                                    *)
DisconnectClient(id) ==
    /\ IsValidId(id)
    /\ GetClient(id).fd # REMOVED_CLIENT
    /\ clients' = Disconnected(id)
    /\ open' = open \ {GetClient(id).fd}
    /\ UNCHANGED <<idTable, indexToId, clientCount, up>>

(* A wrong update that leaves the removed id in the table. *)
MovedIdsUnmarked(id, lastId) == [idTable EXCEPT ![lastId] = idTable[id]]

(* The tables once the last slot's client has moved into slot idTable[id]. *)
MovedIds(id, lastId) ==
    [idTable EXCEPT ![lastId] = idTable[id], ![id] = REMOVED_CLIENT]

MovedIndices(id, lastId) ==
    [indexToId EXCEPT ![idTable[id]] = lastId, ![clientCount - 1] = NO_ID]

(* remove_client *)
RemoveClient(id) ==
    /\ IsValidId(id)
    /\ clientCount' = clientCount - 1
    /\ open' = open \ {GetClient(id).fd}
    /\ IF clientCount # 1
         THEN LET lastId == indexToId[clientCount - 1] IN
              /\ clients' = SwapPoll(Disconnected(id),
                                     idTable[id], idTable[lastId])
              /\ idTable' = MovedIds(id, lastId)
              /\ indexToId' = MovedIndices(id, lastId)
         ELSE /\ clients' = Disconnected(id)
              /\ idTable' = [idTable EXCEPT ![id] = REMOVED_CLIENT]
              /\ indexToId' = [indexToId EXCEPT ![clientCount - 1] = NO_ID]
    /\ UNCHANGED up

(* poll over the used prefix of the array; a negative descriptor is        *)
(* ignored and reported as not ready.                                      *)
PollClients(ready) ==
    /\ clients' = [s \in Slots |->
         IF s \in UsedSlots
           THEN [clients[s] EXCEPT !.revents =
                   IF clients[s].fd = REMOVED_CLIENT THEN {}
                   ELSE ready[clients[s].fd]]
           ELSE clients[s]]
    /\ UNCHANGED <<idTable, indexToId, clientCount, open, up>>

(* safe_cleanup, from the SIGINT handler or after poll failed: closes what *)
(* the used slots hold; the process exits right after.                     *)
SafeCleanup ==
    /\ open' = open \ {GetClient(indexToId[s]).fd : s \in UsedSlots}
    /\ up' = FALSE
    /\ UNCHANGED <<idTable, indexToId, clientCount, clients>>

-----------------------------------------------------------------------------
(* The registry on its own, driven by any sequence of legal calls.         *)

RegistryNext ==
    \/ /\ up
       /\ \/ \E fd \in Fds \ open : AddClient(fd)
          \/ \E id \in Ids : DisconnectClient(id)
          \/ \E id \in Ids : RemoveClient(id)
          \/ \E ready \in [Fds -> SUBSET Events] : PollClients(ready)
          \/ SafeCleanup
    \/ ~up /\ UNCHANGED registryVars       \* the process has exited

RegistrySpec == RegistryInit /\ [][RegistryNext]_registryVars

-----------------------------------------------------------------------------
(* Properties. *)

(* The two tables are inverse to each other: the live ids occupy exactly   *)
(* the used slots, and no slot beyond them carries an id or a descriptor.  *)
IdsOfSlots ==
    /\ \A id \in Live : idTable[id] \in UsedSlots /\ indexToId[idTable[id]] = id
    /\ \A s \in UsedSlots : indexToId[s] \in Live /\ idTable[indexToId[s]] = s

UnusedSlotsEmpty ==
    \A s \in Slots \ UsedSlots :
        indexToId[s] = NO_ID /\ clients[s].fd = REMOVED_CLIENT

(* No descriptor is held by two clients. *)
FdsDistinct ==
    \A s, t \in UsedSlots :
        clients[s].fd = clients[t].fd => s = t \/ clients[s].fd = REMOVED_CLIENT

(* Every client descriptor the process has open is in the polled prefix    *)
(* (none leaks out of poll's sight), every descriptor there is open (none  *)
(* is closed twice), and shutting down leaves none open.                   *)
OpenFdsPolled ==
    IF up THEN open = {clients[s].fd : s \in UsedSlots} \ {REMOVED_CLIENT}
          ELSE open = {}

RegistryInv ==
    /\ RegistryTypeOK
    /\ IdsOfSlots
    /\ UnusedSlotsEmpty
    /\ FdsDistinct
    /\ OpenFdsPolled

(* add_client's search for a free id fails exactly when is_full says so:   *)
(* removals never make the two disagree about the capacity left.           *)
RefusedOnlyWhenFull == NextId = NO_ID <=> IsFull

(* The registry implements the map: in particular no removal changes the   *)
(* descriptor or the readiness of another id, although it moves its entry. *)
Map == INSTANCE ClientMap WITH
    Handles <- Ids,
    Conns <- Fds,
    NoConn <- REMOVED_CLIENT,
    conn <- [id \in Live |-> GetClient(id).fd],
    ready <- [id \in Live |-> GetClient(id).revents],
    serving <- up

ImplementsMap == Map!Spec
====
