---- MODULE ProxyRegistry ----
(***************************************************************************)
(* The proxy's registry (src/lab33/server_management.c): ClientRegistry's  *)
(* sparse set with a second descriptor, the connection to the destination, *)
(* and two buffers for every client.  Slot s holds the two pollfd entries  *)
(* CLIENT_INDEX(s) and SERVER_INDEX(s).                                    *)
(*                                                                         *)
(* remove_client moves the last client's entry into the hole as there, but *)
(* not the last client's server entry: a session that is moved loses its   *)
(* destination, whose descriptor stays behind the polled prefix and is     *)
(* overwritten by the next add_client.                                     *)
(*                                                                         *)
(* Of a buffer only the number of bytes is kept.  `open` of the client     *)
(* registry holds the client descriptors, `openServers` the others; both   *)
(* come from the same table of descriptors.  `destination` is a history    *)
(* variable: the connection that was made for a client.                    *)
(***************************************************************************)
EXTENDS ClientRegistry

CONSTANT BufferSize         \* BUFFER_SIZE, 1024 in the source

ASSUME BufferAssumption == BufferSize \in Nat \ {0}

VARIABLES
    servers,                \* slot -> [fd, revents] of the destination
    ctos, stoc,             \* id -> bytes in its buffers, or NO_BUFFER
    openServers,            \* server descriptors open in the kernel
    destination

sessionVars == <<servers, ctos, stoc, openServers, destination>>
proxyRegistryVars == <<registryVars, sessionVars>>

NO_BUFFER == -1

SessionTypeOK ==
    /\ servers \in [Slots -> [fd : Fds \cup {REMOVED_CLIENT},
                              revents : SUBSET Events]]
    /\ ctos \in [Ids -> 0 .. BufferSize \cup {NO_BUFFER}]
    /\ stoc \in [Ids -> 0 .. BufferSize \cup {NO_BUFFER}]
    /\ openServers \in SUBSET Fds
    /\ destination \in [Fds -> Fds \cup {REMOVED_CLIENT}]

SessionInit ==
    /\ servers = [s \in Slots |-> [fd |-> REMOVED_CLIENT, revents |-> {}]]
    /\ ctos = [id \in Ids |-> NO_BUFFER]
    /\ stoc = [id \in Ids |-> NO_BUFFER]
    /\ openServers = {}
    /\ destination = [fd \in Fds |-> REMOVED_CLIENT]

GetServer(id) == servers[idTable[id]]

Unused == Fds \ (open \cup openServers)

-----------------------------------------------------------------------------
(* add_client *)
AddSession(clientFd, serverFd) ==
    /\ AddClient(clientFd)
    /\ servers' = [servers EXCEPT ![clientCount].fd = serverFd]
    /\ ctos' = [ctos EXCEPT ![NextId] = 0]
    /\ stoc' = [stoc EXCEPT ![NextId] = 0]
    /\ openServers' = openServers \cup {serverFd}
    /\ destination' = [destination EXCEPT ![clientFd] = serverFd]

Forget(id) ==
    destination' = [destination EXCEPT ![GetClient(id).fd] = REMOVED_CLIENT]

(* Two wrong disconnect_clients: one leaves the closed descriptor in its   *)
(* entry, one looks the entry up when the last client has moved there.     *)
CloseServerKept(id) ==
    /\ openServers' = openServers \ {GetServer(id).fd}
    /\ Forget(id)
    /\ UNCHANGED servers

CloseServerLate(id) ==
    /\ servers' = [servers EXCEPT ![clientCount - 1].fd = REMOVED_CLIENT]
    /\ openServers' = openServers \ {servers[clientCount - 1].fd}
    /\ Forget(id)

(* The server half of disconnect_client. *)
CloseServer(id) ==
    /\ servers' = [servers EXCEPT ![idTable[id]].fd = REMOVED_CLIENT]
    /\ openServers' = openServers \ {GetServer(id).fd}
    /\ Forget(id)

DisconnectSession(id) ==
    /\ DisconnectClient(id)
    /\ CloseServer(id)
    /\ UNCHANGED <<ctos, stoc>>

(* remove_client; the server half of one that was disconnected before is   *)
(* left alone.                                                             *)
RemoveSession(id) ==
    /\ RemoveClient(id)
    /\ IF GetClient(id).fd # REMOVED_CLIENT
         THEN CloseServer(id)
         ELSE UNCHANGED <<servers, openServers, destination>>
    /\ ctos' = [ctos EXCEPT ![id] = NO_BUFFER]
    /\ stoc' = [stoc EXCEPT ![id] = NO_BUFFER]

PollSessions(ready) ==
    /\ PollClients(ready)
    /\ servers' = [s \in Slots |->
         IF s \in UsedSlots
           THEN [servers[s] EXCEPT !.revents =
                   IF servers[s].fd = REMOVED_CLIENT THEN {}
                   ELSE ready[servers[s].fd]]
           ELSE servers[s]]
    /\ UNCHANGED <<ctos, stoc, openServers, destination>>

CleanupSessions ==
    /\ SafeCleanup
    /\ openServers' = openServers \ {GetServer(indexToId[s]).fd : s \in UsedSlots}
    /\ UNCHANGED <<servers, ctos, stoc, destination>>

-----------------------------------------------------------------------------
(* The registry on its own.                                                *)

ProxyRegistryInit == RegistryInit /\ SessionInit

ProxyRegistryNext ==
    \/ /\ up
       /\ \/ \E clientFd, serverFd \in Unused :
                clientFd # serverFd /\ AddSession(clientFd, serverFd)
          \/ \E id \in Ids : DisconnectSession(id) \/ RemoveSession(id)
          \/ \E ready \in [Fds -> SUBSET Events] : PollSessions(ready)
          \/ CleanupSessions
    \/ ~up /\ UNCHANGED proxyRegistryVars

ProxyRegistrySpec == ProxyRegistryInit /\ [][ProxyRegistryNext]_proxyRegistryVars

-----------------------------------------------------------------------------
(* Properties. *)

(* Although removals tear sessions apart, no client is ever connected to   *)
(* another client's destination: its server entry is its own or none.      *)
NoCrosstalk ==
    up => \A s \in UsedSlots :
        servers[s].fd # REMOVED_CLIENT =>
            /\ clients[s].fd \in open
            /\ servers[s].fd = destination[clients[s].fd]
            /\ servers[s].fd \in openServers

(* Every buffer in use belongs to a live session and every live session    *)
(* has its two buffers: none is freed twice and none leaks.                *)
BuffersAllocated ==
    \A id \in Ids :
        /\ ctos[id] = NO_BUFFER <=> id \notin Live
        /\ stoc[id] = NO_BUFFER <=> id \notin Live

(* A client's destination stays open as long as the client does, whether   *)
(* or not the client still has it, and belongs to no other client.         *)
DestinationsDistinct ==
    /\ open \cap openServers = {}
    /\ \A fd, other \in open : destination[fd] = destination[other] => fd = other
    /\ \A fd \in open : destination[fd] \in openServers

ProxyRegistryInv ==
    /\ RegistryInv
    /\ SessionTypeOK
    /\ NoCrosstalk
    /\ BuffersAllocated
    /\ DestinationsDistinct

(* A running proxy closes a connection to a destination only together with *)
(* the client it was made for.                                             *)
ServerClosedWithClient ==
    [][\A fd \in openServers : fd \notin openServers' /\ up' =>
          \E client \in open \ open' : destination[client] = fd]_proxyRegistryVars
====
