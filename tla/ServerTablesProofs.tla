---- MODULE ServerTablesProofs ----
(***************************************************************************)
(* Proofs about the two tables the loops of lab33 are built on, for every  *)
(* capacity and every set of descriptors: the registry of the clients, and *)
(* the loop's list of their ids with its compaction.                       *)
(***************************************************************************)
EXTENDS ClientRegistry, IdList, FiniteSetTheorems, FunctionTheorems,
        WellFoundedInduction, TLAPS

-----------------------------------------------------------------------------
(* The registry. *)

(* next_id returns a free id whenever there is one (it exists because the  *)
(* order on Nat is well founded).                                          *)
LEMMA NextIdFree ==
  ASSUME FreeIds # {}
  PROVE  NextId \in FreeIds
<1>1. FreeIds \subseteq Nat
  BY MaxClientsAssumption DEF FreeIds, Ids
<1>2. PICK id \in FreeIds : \A other \in FreeIds : ~(<<other, id>> \in OpToRel(<, Nat))
  BY <1>1, WFMin, NatLessThanWellFounded
<1>3. \A other \in FreeIds : id <= other
  <2> SUFFICES ASSUME NEW other \in FreeIds, other < id
               PROVE  FALSE
    BY <1>1
  <2>1. <<other, id>> \in {p \in Nat \X Nat : p[1] < p[2]}
    BY <1>1
  <2> QED
    BY <1>2, <2>1 DEF OpToRel
<1> QED
  BY <1>3 DEF NextId

(* next_id is NO_ID only when every id is taken. *)
LEMMA NextIdNone == NextId = NO_ID <=> FreeIds = {}
<1>1. FreeIds # {} => NextId # NO_ID
  BY NextIdFree, MaxClientsAssumption DEF FreeIds, Ids, NO_ID
<1> QED
  BY <1>1 DEF NextId

(* clientCount counts the live ids. *)
LEMMA CountLive ==
  ASSUME RegistryTypeOK, IdsOfSlots
  PROVE  IsFiniteSet(Live) /\ Cardinality(Live) = clientCount
<1> DEFINE f == [s \in UsedSlots |-> indexToId[s]]
<1>1. clientCount \in Nat
  BY MaxClientsAssumption DEF RegistryTypeOK
<1>2. IsFiniteSet(UsedSlots) /\ Cardinality(UsedSlots) = clientCount
  <2>1. 0 \in Int /\ clientCount - 1 \in Int
    BY <1>1
  <2> QED
    BY <1>1, <2>1, FS_Interval DEF UsedSlots
<1>3. f \in [UsedSlots -> Live]
  BY DEF IdsOfSlots
<1>4. \A s, t \in UsedSlots : f[s] = f[t] => s = t
  BY DEF IdsOfSlots
<1>5. \A id \in Live : \E s \in UsedSlots : f[s] = id
  BY DEF IdsOfSlots
<1>6. f \in Bijection(UsedSlots, Live)
  BY <1>3, <1>4, <1>5, Fun_IsBij
<1>7. ExistsBijection(UsedSlots, Live)
  BY <1>6 DEF ExistsBijection
<1> QED
  BY <1>2, <1>7, FS_Bijection

(* No removal loses capacity: an id is free exactly when the table is not  *)
(* full.                                                                   *)
LEMMA RefusalLemma ==
  ASSUME RegistryTypeOK, IdsOfSlots
  PROVE  RefusedOnlyWhenFull
<1>1. IsFiniteSet(Ids) /\ Cardinality(Ids) = MaxClients
  <2>1. 0 \in Int /\ MaxClients - 1 \in Int
    BY MaxClientsAssumption
  <2> QED
    BY <2>1, FS_Interval, MaxClientsAssumption DEF Ids
<1>2. Live \in SUBSET Ids
  BY DEF Live
<1>3. FreeIds = Ids \ Live
  BY DEF FreeIds, Live, IsValidId
<1>4. clientCount = MaxClients <=> Live = Ids
  BY <1>1, <1>2, CountLive, FS_Subset
<1> QED
  BY <1>2, <1>3, <1>4, NextIdNone DEF RefusedOnlyWhenFull, IsFull
-----------------------------------------------------------------------------
(* Every operation preserves the registry's invariant. *)

LEMMA InitRegistryInv == RegistryInit => RegistryInv
BY MaxClientsAssumption
   DEF RegistryInit, RegistryInv, RegistryTypeOK, IdsOfSlots, UnusedSlotsEmpty,
       FdsDistinct, OpenFdsPolled, Live, IsValidId, UsedSlots, Slots, Ids,
       REMOVED_CLIENT, NO_ID

LEMMA AddClientInv ==
  ASSUME RegistryInv, up, NEW fd \in Fds \ open, AddClient(fd)
  PROVE  RegistryInv'
<1> USE MaxClientsAssumption, FdsAssumption
<1> DEFINE id == NextId
<1>1. id \in Ids /\ idTable[id] = REMOVED_CLIENT
  BY NextIdFree, NextIdNone DEF AddClient, FreeIds
<1>2. clientCount \in Slots /\ clientCount \in 0 .. MaxClients
  BY RefusalLemma DEF RegistryInv, RefusedOnlyWhenFull, IsFull, AddClient,
                      RegistryTypeOK, Slots, Ids
<1>3. /\ idTable' = [idTable EXCEPT ![id] = clientCount]
      /\ indexToId' = [indexToId EXCEPT ![clientCount] = id]
      /\ clients' = [clients EXCEPT ![clientCount].fd = fd]
      /\ clientCount' = clientCount + 1
      /\ open' = open \cup {fd}
      /\ up' = up
  BY DEF AddClient
<1> HIDE DEF id
<1>4. RegistryTypeOK'
  <2>1. clients' \in [Slots -> [fd : Fds \cup {REMOVED_CLIENT}, revents : SUBSET Events]]
    BY <1>2, <1>3 DEF RegistryInv, RegistryTypeOK
  <2>2. idTable' \in [Ids -> Slots \cup {REMOVED_CLIENT}]
    BY <1>1, <1>2, <1>3 DEF RegistryInv, RegistryTypeOK
  <2>3. indexToId' \in [Slots -> Ids \cup {NO_ID}]
    BY <1>1, <1>2, <1>3 DEF RegistryInv, RegistryTypeOK
  <2>4. clientCount' \in 0 .. MaxClients
    BY <1>2, <1>3 DEF Slots, Ids
  <2> QED
    BY <1>3, <2>1, <2>2, <2>3, <2>4 DEF RegistryInv, RegistryTypeOK
<1>5. IdsOfSlots'
  BY <1>1, <1>2, <1>3
     DEF RegistryInv, RegistryTypeOK, IdsOfSlots, Live, IsValidId, UsedSlots,
         Slots, Ids, REMOVED_CLIENT, NO_ID
<1>6. UnusedSlotsEmpty'
  BY <1>2, <1>3
     DEF RegistryInv, RegistryTypeOK, UnusedSlotsEmpty, UsedSlots, Slots, Ids
<1>a. /\ UsedSlots' = UsedSlots \cup {clientCount}
      /\ clientCount \notin UsedSlots /\ UsedSlots \subseteq Slots
  BY <1>2, <1>3 DEF UsedSlots, Slots, Ids
<1>b. /\ clients'[clientCount].fd = fd
      /\ \A s \in UsedSlots : clients'[s] = clients[s]
  BY <1>2, <1>3, <1>a DEF RegistryInv, RegistryTypeOK
<1>7. FdsDistinct'
  <2>1. \A s \in UsedSlots : clients[s].fd # fd
    BY FdsAssumption DEF RegistryInv, OpenFdsPolled
  <2> QED
    BY <1>a, <1>b, <2>1 DEF RegistryInv, FdsDistinct
<1>8. OpenFdsPolled'
  <2>1. fd # REMOVED_CLIENT
    BY FdsAssumption
  <2> QED
    BY <1>3, <1>a, <1>b, <2>1 DEF RegistryInv, OpenFdsPolled
<1> QED
  BY <1>4, <1>5, <1>6, <1>7, <1>8 DEF RegistryInv

LEMMA DisconnectClientInv ==
  ASSUME RegistryInv, up, NEW id \in Ids, DisconnectClient(id)
  PROVE  RegistryInv'
<1> USE MaxClientsAssumption, FdsAssumption
<1> DEFINE s0 == idTable[id]
<1>1. s0 \in UsedSlots /\ s0 \in Slots
  BY DEF RegistryInv, RegistryTypeOK, IdsOfSlots, DisconnectClient, Live,
         IsValidId, UsedSlots, Slots, Ids
<1>2. /\ clients' = [clients EXCEPT ![s0].fd = REMOVED_CLIENT]
      /\ open' = open \ {clients[s0].fd}
      /\ UNCHANGED <<idTable, indexToId, clientCount, up>>
  BY DEF DisconnectClient, Disconnected, GetClient
<1> HIDE DEF s0
<1>3. RegistryTypeOK'
  BY <1>1, <1>2 DEF RegistryInv, RegistryTypeOK
<1>4. IdsOfSlots'
  BY <1>2 DEF RegistryInv, IdsOfSlots, Live, IsValidId, UsedSlots
<1>5. UnusedSlotsEmpty'
  BY <1>1, <1>2 DEF RegistryInv, RegistryTypeOK, UnusedSlotsEmpty, UsedSlots
<1>6. FdsDistinct'
  BY <1>1, <1>2 DEF RegistryInv, RegistryTypeOK, FdsDistinct, UsedSlots, Slots, Ids
<1>7. OpenFdsPolled'
  BY <1>1, <1>2 DEF RegistryInv, RegistryTypeOK, OpenFdsPolled, FdsDistinct,
                    UsedSlots, Slots, Ids
<1> QED
  BY <1>3, <1>4, <1>5, <1>6, <1>7 DEF RegistryInv

(* What remove_client does, without the case distinction: the last entry   *)
(* moves into the removed client's slot s0, also when it is the same one.  *)
LEMMA RemoveClientEffect ==
  ASSUME RegistryInv, NEW id \in Ids, RemoveClient(id),
         NEW s0, s0 = idTable[id],
         NEW last, last = clientCount - 1,
         NEW lastId, lastId = indexToId[last]
  PROVE  /\ s0 \in UsedSlots /\ last \in UsedSlots
         /\ id \in Live /\ lastId \in Live /\ idTable[lastId] = last
         /\ indexToId[s0] = id
         /\ clientCount' = last
         /\ open' = open \ {clients[s0].fd}
         /\ idTable' = [x \in Ids |-> IF x = id THEN REMOVED_CLIENT
                                       ELSE IF x = lastId THEN s0 ELSE idTable[x]]
         /\ indexToId' = [s \in Slots |-> IF s = last THEN NO_ID
                                           ELSE IF s = s0 THEN lastId ELSE indexToId[s]]
         /\ clients' = [s \in Slots |->
               IF s = last
                 THEN [clients[s0] EXCEPT !.fd = REMOVED_CLIENT]
                 ELSE IF s = s0 THEN clients[last] ELSE clients[s]]
         /\ up' = up
<1> USE MaxClientsAssumption, FdsAssumption
<1>1. /\ id \in Live /\ s0 \in UsedSlots /\ indexToId[s0] = id
  BY DEF RegistryInv, IdsOfSlots, RemoveClient, Live
<1>2. clientCount \in Nat /\ clientCount \in 1 .. MaxClients
  BY <1>1 DEF RegistryInv, RegistryTypeOK, UsedSlots
<1>3. last \in UsedSlots /\ last \in Slots /\ s0 \in Slots
  BY <1>1, <1>2 DEF UsedSlots, Slots, Ids
<1>4. lastId \in Live /\ idTable[lastId] = last /\ lastId \in Ids
  BY <1>3 DEF RegistryInv, IdsOfSlots, Live
<1>5. /\ idTable \in [Ids -> Slots \cup {REMOVED_CLIENT}]
      /\ indexToId \in [Slots -> Ids \cup {NO_ID}]
      /\ clients \in [Slots -> [fd : Fds \cup {REMOVED_CLIENT}, revents : SUBSET Events]]
  BY DEF RegistryInv, RegistryTypeOK
<1>6. /\ clientCount' = last
      /\ open' = open \ {clients[s0].fd}
      /\ up' = up
  BY DEF RemoveClient, GetClient
<1>7. CASE clientCount # 1
  <2>1. /\ clients' = SwapPoll(Disconnected(id), s0, last)
        /\ idTable' = MovedIds(id, lastId)
        /\ indexToId' = MovedIndices(id, lastId)
    BY <1>4, <1>7 DEF RemoveClient
  <2>2. idTable' = [x \in Ids |-> IF x = id THEN REMOVED_CLIENT
                                  ELSE IF x = lastId THEN s0 ELSE idTable[x]]
    BY <2>1, <1>4, <1>5 DEF MovedIds
  <2>3. indexToId' = [s \in Slots |-> IF s = last THEN NO_ID
                                      ELSE IF s = s0 THEN lastId ELSE indexToId[s]]
    BY <2>1, <1>3, <1>5 DEF MovedIndices
  <2>4. clients' = [s \in Slots |->
               IF s = last
                 THEN [clients[s0] EXCEPT !.fd = REMOVED_CLIENT]
                 ELSE IF s = s0 THEN clients[last] ELSE clients[s]]
    <3> DEFINE empty == [clients[s0] EXCEPT !.fd = REMOVED_CLIENT]
    <3>1. Disconnected(id) = [s \in Slots |-> IF s = s0 THEN empty ELSE clients[s]]
      BY <1>3, <1>5 DEF Disconnected
    <3> HIDE DEF empty
    <3>2. clients' = [s \in Slots |-> IF s = last THEN empty
                                      ELSE IF s = s0 THEN clients[last] ELSE clients[s]]
      BY <2>1, <3>1, <1>3 DEF SwapPoll
    <3> QED
      BY <3>2 DEF empty
  <2> QED
    BY <1>1, <1>3, <1>4, <1>6, <2>2, <2>3, <2>4
<1>8. CASE clientCount = 1
  <2>1. last = 0 /\ s0 = last /\ lastId = id
    BY <1>1, <1>8 DEF UsedSlots
  <2>2. /\ clients' = [clients EXCEPT ![s0].fd = REMOVED_CLIENT]
        /\ idTable' = [idTable EXCEPT ![id] = REMOVED_CLIENT]
        /\ indexToId' = [indexToId EXCEPT ![last] = NO_ID]
    BY <1>8 DEF RemoveClient, Disconnected
  <2>3. idTable' = [x \in Ids |-> IF x = id THEN REMOVED_CLIENT
                                  ELSE IF x = lastId THEN s0 ELSE idTable[x]]
    BY <1>5, <2>1, <2>2
  <2>4. indexToId' = [s \in Slots |-> IF s = last THEN NO_ID
                                      ELSE IF s = s0 THEN lastId ELSE indexToId[s]]
    BY <1>5, <2>1, <2>2
  <2>5. clients' = [s \in Slots |->
               IF s = last
                 THEN [clients[s0] EXCEPT !.fd = REMOVED_CLIENT]
                 ELSE IF s = s0 THEN clients[last] ELSE clients[s]]
    BY <1>3, <1>5, <2>1, <2>2
  <2> QED
    BY <1>1, <1>3, <1>4, <1>6, <2>3, <2>4, <2>5
<1> QED
  BY <1>7, <1>8
LEMMA RemoveClientInv ==
  ASSUME RegistryInv, up, NEW id \in Ids, RemoveClient(id)
  PROVE  RegistryInv'
<1> USE MaxClientsAssumption, FdsAssumption
<1> DEFINE s0 == idTable[id]
           last == clientCount - 1
           lastId == indexToId[last]
<1>1. /\ s0 \in UsedSlots /\ last \in UsedSlots
      /\ id \in Live /\ lastId \in Live /\ idTable[lastId] = last
      /\ indexToId[s0] = id
      /\ clientCount' = last
      /\ open' = open \ {clients[s0].fd}
      /\ idTable' = [x \in Ids |-> IF x = id THEN REMOVED_CLIENT
                                    ELSE IF x = lastId THEN s0 ELSE idTable[x]]
      /\ indexToId' = [s \in Slots |-> IF s = last THEN NO_ID
                                        ELSE IF s = s0 THEN lastId ELSE indexToId[s]]
      /\ clients' = [s \in Slots |->
            IF s = last
              THEN [clients[s0] EXCEPT !.fd = REMOVED_CLIENT]
              ELSE IF s = s0 THEN clients[last] ELSE clients[s]]
      /\ up' = up
  BY RemoveClientEffect
<1> HIDE DEF s0, lastId
<1>2. /\ UsedSlots' = UsedSlots \ {last}
      /\ UsedSlots \subseteq Slots
      /\ last \in 0 .. MaxClients - 1
      /\ lastId \in Ids /\ id \in Ids
  BY <1>1 DEF UsedSlots, Slots, Ids, RegistryInv, RegistryTypeOK, Live
<1> HIDE DEF last
<1>3. RegistryTypeOK'
  BY <1>1, <1>2 DEF RegistryInv, RegistryTypeOK, Slots
<1>4. IdsOfSlots'
  <2>1. REMOVED_CLIENT \notin Slots /\ NO_ID \notin Ids
    BY DEF REMOVED_CLIENT, NO_ID, Slots, Ids
  <2>2. Live' = Live \ {id}
    BY <1>1, <1>2, <2>1 DEF Live, IsValidId
  <2>3. \A x \in Live' : idTable'[x] \in UsedSlots' /\ indexToId'[idTable'[x]] = x
    BY <1>1, <1>2, <2>2 DEF RegistryInv, IdsOfSlots, Live
  <2>4. \A s \in UsedSlots' : indexToId'[s] \in Live' /\ idTable'[indexToId'[s]] = s
    BY <1>1, <1>2, <2>2 DEF RegistryInv, IdsOfSlots, Live
  <2> QED
    BY <2>3, <2>4 DEF IdsOfSlots
<1>5. UnusedSlotsEmpty'
  BY <1>1, <1>2 DEF RegistryInv, UnusedSlotsEmpty
<1>6. FdsDistinct'
  BY <1>1, <1>2 DEF RegistryInv, FdsDistinct
<1>7. OpenFdsPolled'
  BY <1>1, <1>2 DEF RegistryInv, OpenFdsPolled, FdsDistinct
<1> QED
  BY <1>3, <1>4, <1>5, <1>6, <1>7 DEF RegistryInv

LEMMA PollClientsInv ==
  ASSUME RegistryInv, up, NEW ready \in [Fds -> SUBSET Events], PollClients(ready)
  PROVE  RegistryInv'
<1> USE MaxClientsAssumption, FdsAssumption
<1>1. UNCHANGED <<idTable, indexToId, clientCount, open, up>>
  BY DEF PollClients
<1>2. /\ clients' \in [Slots -> [fd : Fds \cup {REMOVED_CLIENT}, revents : SUBSET Events]]
      /\ \A s \in Slots : clients'[s].fd = clients[s].fd
  BY DEF PollClients, RegistryInv, RegistryTypeOK
<1>3. UsedSlots' = UsedSlots /\ UsedSlots \subseteq Slots
  BY <1>1 DEF UsedSlots, Slots, Ids, RegistryInv, RegistryTypeOK
<1>4. RegistryTypeOK'
  BY <1>1, <1>2 DEF RegistryInv, RegistryTypeOK
<1>5. IdsOfSlots' /\ UnusedSlotsEmpty'
  BY <1>1, <1>2, <1>3 DEF RegistryInv, IdsOfSlots, Live, IsValidId, UnusedSlotsEmpty
<1>6. FdsDistinct' /\ OpenFdsPolled'
  BY <1>1, <1>2, <1>3 DEF RegistryInv, FdsDistinct, OpenFdsPolled
<1> QED
  BY <1>4, <1>5, <1>6 DEF RegistryInv

(* add_client adds one handle and leaves the entries of the others alone.  *)
LEMMA AddClientEffect ==
  ASSUME RegistryInv, NEW fd \in Fds \ open, up, AddClient(fd),
         NEW id, id = NextId
  PROVE  /\ id \in Ids /\ id \notin Live /\ Live' = Live \cup {id}
         /\ \A x \in Live : GetClient(x)' = GetClient(x)
         /\ GetClient(id)'.fd = fd /\ GetClient(id)'.revents \in SUBSET Events
         /\ clientCount' = clientCount + 1
         /\ open' = open \cup {fd} /\ up' = up
<1> USE MaxClientsAssumption
<1>1. id \in Ids /\ idTable[id] = REMOVED_CLIENT
  BY NextIdFree, NextIdNone DEF AddClient, FreeIds
<1>2. clientCount \in Slots
  BY RefusalLemma DEF RegistryInv, RefusedOnlyWhenFull, IsFull, AddClient,
                      RegistryTypeOK, Slots, Ids
<1>3. /\ idTable' = [idTable EXCEPT ![id] = clientCount]
      /\ clients' = [clients EXCEPT ![clientCount].fd = fd]
      /\ clientCount' = clientCount + 1
      /\ open' = open \cup {fd} /\ up' = up
  BY DEF AddClient
<1>4. Live' = Live \cup {id} /\ id \notin Live
  BY <1>1, <1>2, <1>3
     DEF RegistryInv, RegistryTypeOK, Live, IsValidId, Slots, Ids, REMOVED_CLIENT
<1>5. \A x \in Live : GetClient(x)' = GetClient(x)
  <2> TAKE x \in Live
  <2>1. x \in Ids /\ x # id /\ idTable[x] \in Slots /\ idTable[x] # clientCount
    BY <1>4 DEF RegistryInv, RegistryTypeOK, IdsOfSlots, Live, UsedSlots, Slots, Ids
  <2> QED
    BY <1>3, <2>1 DEF GetClient, RegistryInv, RegistryTypeOK
<1>6. GetClient(id)'.fd = fd /\ GetClient(id)'.revents \in SUBSET Events
  BY <1>1, <1>2, <1>3 DEF GetClient, RegistryInv, RegistryTypeOK
<1> QED
  BY <1>1, <1>3, <1>4, <1>5, <1>6

(* remove_client takes one handle away and leaves the descriptor and the   *)
(* readiness of the others alone, although an entry moves.                 *)
LEMMA RemoveClientOthers ==
  ASSUME RegistryInv, NEW id \in Ids, RemoveClient(id)
  PROVE  /\ id \in Live /\ Live' = Live \ {id}
         /\ \A x \in Live \ {id} : GetClient(x)' = GetClient(x)
         /\ clientCount' = clientCount - 1
         /\ open' = open \ {GetClient(id).fd} /\ up' = up
<1> USE MaxClientsAssumption
<1> DEFINE s0 == idTable[id]
           last == clientCount - 1
           lastId == indexToId[last]
<1>1. /\ s0 \in UsedSlots /\ last \in UsedSlots
      /\ id \in Live /\ lastId \in Live /\ idTable[lastId] = last
      /\ indexToId[s0] = id
      /\ clientCount' = last
      /\ open' = open \ {clients[s0].fd}
      /\ idTable' = [x \in Ids |-> IF x = id THEN REMOVED_CLIENT
                                    ELSE IF x = lastId THEN s0 ELSE idTable[x]]
      /\ indexToId' = [s \in Slots |-> IF s = last THEN NO_ID
                                        ELSE IF s = s0 THEN lastId ELSE indexToId[s]]
      /\ clients' = [s \in Slots |->
            IF s = last
              THEN [clients[s0] EXCEPT !.fd = REMOVED_CLIENT]
              ELSE IF s = s0 THEN clients[last] ELSE clients[s]]
      /\ up' = up
  BY RemoveClientEffect
<1>2. UsedSlots \subseteq Slots /\ REMOVED_CLIENT \notin Slots
  BY DEF UsedSlots, Slots, Ids, RegistryInv, RegistryTypeOK, REMOVED_CLIENT
<1> HIDE DEF s0, last, lastId
<1>3. Live' = Live \ {id}
  BY <1>1, <1>2 DEF Live, IsValidId
<1>4. \A x \in Live \ {id} : GetClient(x)' = GetClient(x)
  <2> TAKE x \in Live \ {id}
  <2>1. x \in Ids /\ idTable[x] \in UsedSlots /\ indexToId[idTable[x]] = x
    BY DEF RegistryInv, IdsOfSlots, Live
  <2>2. CASE x = lastId
    BY <1>1, <1>2, <2>1, <2>2 DEF GetClient
  <2>3. CASE x # lastId
    BY <1>1, <1>2, <2>1, <2>3 DEF GetClient, lastId
  <2> QED
    BY <2>2, <2>3
<1> QED
  BY <1>1, <1>3, <1>4 DEF GetClient, s0, last

(* poll only changes what the entries report.                              *)
LEMMA PollClientsEffect ==
  ASSUME RegistryInv, NEW ready \in [Fds -> SUBSET Events], PollClients(ready)
  PROVE  /\ Live' = Live
         /\ \A x \in Live :
              /\ GetClient(x).fd \in Fds \cup {REMOVED_CLIENT}
              /\ GetClient(x)'.fd = GetClient(x).fd
              /\ GetClient(x)'.revents = IF GetClient(x).fd = REMOVED_CLIENT THEN {}
                                         ELSE ready[GetClient(x).fd]
<1>1. UNCHANGED <<idTable, indexToId, clientCount, open, up>>
  BY DEF PollClients
<1>2. Live' = Live
  BY <1>1 DEF Live, IsValidId
<1>3. \A x \in Live : /\ idTable[x] \in UsedSlots
                      /\ idTable[x] \in Slots
                      /\ GetClient(x).fd \in Fds \cup {REMOVED_CLIENT}
  BY MaxClientsAssumption
     DEF RegistryInv, RegistryTypeOK, IdsOfSlots, GetClient, UsedSlots, Slots, Ids, Live
<1>4. \A x \in Live : /\ GetClient(x)'.fd = GetClient(x).fd
                      /\ GetClient(x)'.revents =
                           IF GetClient(x).fd = REMOVED_CLIENT THEN {}
                           ELSE ready[GetClient(x).fd]
  BY <1>1, <1>3 DEF PollClients, GetClient, RegistryInv, RegistryTypeOK
<1> QED
  BY <1>2, <1>3, <1>4

LEMMA SafeCleanupInv ==
  ASSUME RegistryInv, up, SafeCleanup
  PROVE  RegistryInv' /\ open' = {}
<1>1. \A s \in UsedSlots : GetClient(indexToId[s]).fd = clients[s].fd
  BY DEF RegistryInv, IdsOfSlots, GetClient
<1>2. open' = {} /\ ~up'
  BY <1>1 DEF SafeCleanup, RegistryInv, OpenFdsPolled
<1> QED
  BY <1>2 DEF SafeCleanup, RegistryInv, RegistryTypeOK, IdsOfSlots, Live, IsValidId,
              UnusedSlotsEmpty, FdsDistinct, OpenFdsPolled, UsedSlots

(* What a live client's entry holds. *)
LEMMA EntryOfLive ==
  ASSUME RegistryInv, NEW id \in Live
  PROVE  /\ id \in Ids /\ idTable[id] \in UsedSlots /\ idTable[id] \in Slots
         /\ GetClient(id).fd \in Fds \cup {REMOVED_CLIENT}
         /\ GetClient(id).revents \in SUBSET Events
BY MaxClientsAssumption
   DEF RegistryInv, RegistryTypeOK, IdsOfSlots, GetClient, UsedSlots, Slots, Ids, Live

(* In the running server every live client has an open descriptor of its   *)
(* own.                                                                    *)
LEMMA FdOfLive ==
  ASSUME RegistryInv, up, \A s \in UsedSlots : clients[s].fd # REMOVED_CLIENT,
         NEW id \in Live
  PROVE  /\ GetClient(id).fd \in open /\ GetClient(id).fd \in Fds
         /\ \A other \in Live : GetClient(other).fd = GetClient(id).fd => other = id
<1>1. \A x \in Live : idTable[x] \in UsedSlots /\ indexToId[idTable[x]] = x
  BY DEF RegistryInv, IdsOfSlots
<1>2. GetClient(id).fd \in open
  BY <1>1 DEF RegistryInv, OpenFdsPolled, GetClient
<1>3. \A other \in Live : GetClient(other).fd = GetClient(id).fd => other = id
  BY <1>1 DEF RegistryInv, FdsDistinct, GetClient
<1> QED
  BY <1>2, <1>3 DEF RegistryInv, RegistryTypeOK

(* Steps that are none of the registry's business. *)
LEMMA RegistryUnchanged ==
  ASSUME RegistryInv, UNCHANGED registryVars
  PROVE  /\ RegistryInv' /\ Live' = Live /\ UsedSlots' = UsedSlots
         /\ \A id : GetClient(id)' = GetClient(id)
         /\ UNCHANGED <<idTable, indexToId, clientCount, clients, open, up>>
BY DEF registryVars, RegistryInv, RegistryTypeOK, IdsOfSlots, Live, IsValidId,
       UnusedSlotsEmpty, FdsDistinct, OpenFdsPolled, UsedSlots, GetClient

-----------------------------------------------------------------------------
(* For every capacity and every set of descriptors, whatever calls are     *)
(* made: the two tables stay inverse to each other, no descriptor is held  *)
(* twice, leaks out of poll's sight or stays open after the cleanup.       *)
THEOREM RegistryIsConsistent == RegistrySpec => []RegistryInv
<1>1. RegistryInit => RegistryInv
  BY InitRegistryInv
<1>2. RegistryInv /\ [RegistryNext]_registryVars => RegistryInv'
  <2> SUFFICES ASSUME RegistryInv, [RegistryNext]_registryVars
               PROVE  RegistryInv'
    OBVIOUS
  <2>1. CASE UNCHANGED registryVars
    BY <2>1 DEF registryVars, RegistryInv, RegistryTypeOK, IdsOfSlots, Live, IsValidId,
                UnusedSlotsEmpty, FdsDistinct, OpenFdsPolled, UsedSlots
  <2>2. ASSUME up, NEW fd \in Fds \ open, AddClient(fd) PROVE RegistryInv'
    BY <2>2, AddClientInv
  <2>3. ASSUME up, NEW id \in Ids, DisconnectClient(id) PROVE RegistryInv'
    BY <2>3, DisconnectClientInv
  <2>4. ASSUME up, NEW id \in Ids, RemoveClient(id) PROVE RegistryInv'
    BY <2>4, RemoveClientInv
  <2>5. ASSUME up, NEW ready \in [Fds -> SUBSET Events], PollClients(ready)
        PROVE RegistryInv'
    BY <2>5, PollClientsInv
  <2>6. ASSUME up, SafeCleanup PROVE RegistryInv'
    BY <2>6, SafeCleanupInv
  <2> QED
    BY <2>1, <2>2, <2>3, <2>4, <2>5, <2>6 DEF RegistryNext
<1> QED
  BY <1>1, <1>2, PTL DEF RegistrySpec

(* add_client refuses a client only when the table really is full, however *)
(* clients came and went before: removals never lose capacity.             *)
THEOREM NoCapacityIsLost == RegistrySpec => []RefusedOnlyWhenFull
<1>1. RegistryInv => RefusedOnlyWhenFull
  BY RefusalLemma DEF RegistryInv
<1> QED
  BY <1>1, RegistryIsConsistent, PTL
-----------------------------------------------------------------------------
(* The registry implements the map: each operation is the map's operation  *)
(* of the same name on the entries the ids currently have.                 *)

LEMMA InitMaps == RegistryInit => Map!Init
<1> SUFFICES ASSUME RegistryInit PROVE Map!Init
  OBVIOUS
<1>1. Live = {}
  BY DEF RegistryInit, Live, IsValidId
<1> QED
  BY <1>1 DEF RegistryInit, Map!Init

LEMMA AddClientMaps ==
  ASSUME RegistryInv, NEW fd \in Fds \ open, up, AddClient(fd),
         NEW id, id = NextId
  PROVE  Map!Add(id, fd) /\ id \in Ids
<1>1. /\ id \in Ids /\ id \notin Live /\ Live' = Live \cup {id}
      /\ \A x \in Live : GetClient(x)' = GetClient(x)
      /\ GetClient(id)'.fd = fd /\ GetClient(id)'.revents \in SUBSET Events
      /\ clientCount' = clientCount + 1
      /\ open' = open \cup {fd} /\ up' = up
  BY AddClientEffect
<1>2. [x \in Live' |-> GetClient(x)'.fd]
        = [x \in Live \cup {id} |->
             IF x = id THEN fd ELSE [y \in Live |-> GetClient(y).fd][x]]
  BY <1>1
<1>3. [x \in Live' |-> GetClient(x)'.revents]
        = [x \in Live \cup {id} |->
             IF x = id THEN GetClient(id)'.revents
             ELSE [y \in Live |-> GetClient(y).revents][x]]
  BY <1>1
<1>4. Map!Live = Live
  BY DEF Map!Live
<1> QED
  BY <1>1, <1>2, <1>3, <1>4 DEF Map!Add

LEMMA DisconnectClientMaps ==
  ASSUME RegistryInv, up, NEW id \in Ids, DisconnectClient(id)
  PROVE  Map!Disconnect(id)
<1> DEFINE s0 == idTable[id]
<1>1. id \in Live /\ s0 \in Slots /\ indexToId[s0] = id
  BY DEF RegistryInv, RegistryTypeOK, IdsOfSlots, DisconnectClient, Live,
         IsValidId, UsedSlots, Slots, Ids
<1>2. /\ clients' = [clients EXCEPT ![s0].fd = REMOVED_CLIENT]
      /\ open' = open \ {clients[s0].fd}
      /\ idTable' = idTable /\ up' = up
  BY DEF DisconnectClient, Disconnected, GetClient
<1>3. Live' = Live
  BY <1>2 DEF Live, IsValidId
<1>4. \A x \in Live : /\ x # id => GetClient(x)' = GetClient(x)
                      /\ GetClient(x)'.revents = GetClient(x).revents
  BY <1>1, <1>2 DEF GetClient, RegistryInv, RegistryTypeOK, IdsOfSlots, Live, UsedSlots
<1>5. GetClient(id)'.fd = REMOVED_CLIENT
  BY <1>1, <1>2 DEF GetClient, RegistryInv, RegistryTypeOK
<1>6. [x \in Live' |-> GetClient(x)'.fd]
        = [[x \in Live |-> GetClient(x).fd] EXCEPT ![id] = REMOVED_CLIENT]
  BY <1>1, <1>3, <1>4, <1>5
<1>7. [x \in Live' |-> GetClient(x)'.revents] = [x \in Live |-> GetClient(x).revents]
  BY <1>3, <1>4
<1>8. Map!Live = Live
  BY DEF Map!Live
<1> QED
  BY <1>1, <1>2, <1>6, <1>7, <1>8 DEF Map!Disconnect, GetClient

LEMMA RemoveClientMaps ==
  ASSUME RegistryInv, up, NEW id \in Ids, RemoveClient(id)
  PROVE  Map!Remove(id)
<1>1. /\ id \in Live /\ Live' = Live \ {id}
      /\ \A x \in Live \ {id} : GetClient(x)' = GetClient(x)
      /\ open' = open \ {GetClient(id).fd} /\ up' = up
  BY RemoveClientOthers
<1>2. [x \in Live' |-> GetClient(x)'.fd]
        = [x \in Live \ {id} |-> [y \in Live |-> GetClient(y).fd][x]]
  BY <1>1
<1>3. [x \in Live' |-> GetClient(x)'.revents]
        = [x \in Live \ {id} |-> [y \in Live |-> GetClient(y).revents][x]]
  BY <1>1
<1>4. Map!Live = Live
  BY DEF Map!Live
<1> QED
  BY <1>1, <1>2, <1>3, <1>4 DEF Map!Remove

LEMMA PollClientsMaps ==
  ASSUME RegistryInv, up, NEW ready \in [Fds -> SUBSET Events], PollClients(ready)
  PROVE  Map!Poll
<1>1. open' = open /\ up' = up
  BY DEF PollClients
<1> DEFINE r == [x \in Live |-> IF GetClient(x).fd = REMOVED_CLIENT THEN {}
                                ELSE ready[GetClient(x).fd]]
<1>2. Live' = Live
  BY PollClientsEffect
<1>3. \A x \in Live : GetClient(x).fd \in Fds \cup {REMOVED_CLIENT}
  BY PollClientsEffect
<1>4. \A x \in Live : /\ GetClient(x)'.fd = GetClient(x).fd
                      /\ GetClient(x)'.revents = r[x]
  BY PollClientsEffect
<1>5. r \in [Live -> SUBSET Events]
  BY <1>3
<1>6. [x \in Live' |-> GetClient(x)'.fd] = [x \in Live |-> GetClient(x).fd]
  BY <1>2, <1>4
<1>7. [x \in Live' |-> GetClient(x)'.revents]
        = [x \in Live |-> IF [y \in Live |-> GetClient(y).fd][x] = REMOVED_CLIENT
                             THEN {} ELSE r[x]]
  BY <1>2, <1>4
<1>8. Map!Live = Live
  BY DEF Map!Live
<1> HIDE DEF r
<1> QED
  BY <1>1, <1>5, <1>6, <1>7, <1>8 DEF Map!Poll

LEMMA SafeCleanupMaps ==
  ASSUME RegistryInv, up, SafeCleanup
  PROVE  Map!Shutdown
<1>1. open' = {}
  BY SafeCleanupInv
<1>2. Live' = Live /\ \A x \in Live : GetClient(x)' = GetClient(x)
  BY DEF SafeCleanup, Live, IsValidId, GetClient
<1>3. /\ [x \in Live' |-> GetClient(x)'.fd] = [x \in Live |-> GetClient(x).fd]
      /\ [x \in Live' |-> GetClient(x)'.revents] = [x \in Live |-> GetClient(x).revents]
  BY <1>2
<1> QED
  BY <1>1, <1>3 DEF SafeCleanup, Map!Shutdown

(* The registry is a correct map from ids to connections, for every        *)
(* capacity: no operation on one id changes the descriptor or the          *)
(* readiness of another, although entries move.                            *)
THEOREM RegistryImplementsMap == RegistrySpec => ImplementsMap
<1>1. RegistryInit => Map!Init
  BY InitMaps
<1>2. RegistryInv /\ RegistryInv' /\ [RegistryNext]_registryVars => [Map!Next]_(Map!mapVars)
  <2> SUFFICES ASSUME RegistryInv, RegistryInv', [RegistryNext]_registryVars
               PROVE  Map!Next \/ UNCHANGED Map!mapVars
    OBVIOUS
  <2>1. CASE UNCHANGED registryVars
    <3>1. Live' = Live /\ \A x \in Live : GetClient(x)' = GetClient(x)
      BY <2>1 DEF registryVars, Live, IsValidId, GetClient
    <3>2. /\ [x \in Live' |-> GetClient(x)'.fd] = [x \in Live |-> GetClient(x).fd]
          /\ [x \in Live' |-> GetClient(x)'.revents]
               = [x \in Live |-> GetClient(x).revents]
      BY <3>1
    <3> QED
      BY <2>1, <3>2 DEF registryVars, Map!mapVars
  <2>2. ASSUME up, NEW fd \in Fds \ open, AddClient(fd) PROVE Map!Next
    BY <2>2, AddClientMaps DEF Map!Next
  <2>3. ASSUME up, NEW id \in Ids, DisconnectClient(id) PROVE Map!Next
    BY <2>3, DisconnectClientMaps DEF Map!Next
  <2>4. ASSUME up, NEW id \in Ids, RemoveClient(id) PROVE Map!Next
    BY <2>4, RemoveClientMaps DEF Map!Next
  <2>5. ASSUME up, NEW ready \in [Fds -> SUBSET Events], PollClients(ready)
        PROVE  Map!Next
    BY <2>5, PollClientsMaps DEF Map!Next
  <2>6. ASSUME up, SafeCleanup PROVE Map!Next
    BY <2>6, SafeCleanupMaps DEF Map!Next
  <2> QED
    BY <2>1, <2>2, <2>3, <2>4, <2>5, <2>6 DEF RegistryNext
<1> QED
  BY <1>1, <1>2, RegistryIsConsistent, PTL DEF RegistrySpec, ImplementsMap, Map!Spec

-----------------------------------------------------------------------------
(* The list. *)

LEMMA UsedPositionsFinite ==
  ASSUME ListTypeOK
  PROVE  /\ IsFiniteSet(UsedPositions)
         /\ Cardinality(UsedPositions) = listCount
         /\ UsedPositions \subseteq Positions
         /\ IsFiniteSet(MarkedPositions)
         /\ MarkedPositions \subseteq UsedPositions
<1>1. listCount \in Nat /\ listCount <= MaxClients /\ 0 \in Int /\ listCount - 1 \in Int
  BY MaxClientsAssumption DEF ListTypeOK
<1>2. IsFiniteSet(UsedPositions) /\ Cardinality(UsedPositions) = listCount
  BY <1>1, FS_Interval DEF UsedPositions
<1>3. MarkedPositions \in SUBSET UsedPositions
  BY DEF MarkedPositions
<1>4. IsFiniteSet(MarkedPositions)
  BY <1>2, <1>3, FS_Subset
<1> QED
  BY <1>1, <1>2, <1>3, <1>4, MaxClientsAssumption DEF UsedPositions, Positions

(* While compacting, the entries behind j are marked and `removed` is      *)
(* their number.                                                           *)
LEMMA BehindCounted ==
  ASSUME ListInv, committing
  PROVE  /\ Behind(cj) \subseteq MarkedPositions
         /\ IsFiniteSet(Behind(cj))
         /\ Cardinality(Behind(cj)) = removed
         /\ removed <= removedCount
         /\ removed = removedCount => MarkedPositions = Behind(cj)
<1>1. Behind(cj) \subseteq UsedPositions
  BY MaxClientsAssumption, SizeMaxAssumption
     DEF ListInv, ListTypeOK, CommitProgress, Behind, UsedPositions
<1>2. Behind(cj) \in SUBSET MarkedPositions
  BY <1>1 DEF ListInv, CommitProgress, MarkedPositions
<1>3. IsFiniteSet(Behind(cj))
  BY <1>2, UsedPositionsFinite, FS_Subset DEF ListInv
<1>4. Cardinality(Behind(cj)) = removed
  <2>1. CASE cj = SizeMax
    BY <2>1, UsedPositionsFinite DEF ListInv, CommitProgress, Behind
  <2>2. CASE cj # SizeMax
    <3>1. cj \in Nat /\ cj < listCount /\ listCount \in Nat
      BY <2>2, MaxClientsAssumption DEF ListInv, ListTypeOK, CommitProgress
    <3>2. cj + 1 \in Int /\ listCount - 1 \in Int
      BY <3>1
    <3>3. Cardinality(cj + 1 .. listCount - 1) = listCount - 1 - cj
      BY <3>1, <3>2, FS_Interval
    <3> QED
      BY <2>2, <3>3 DEF ListInv, CommitProgress, Behind
  <2> QED
    BY <2>1, <2>2
<1> QED
  BY <1>2, <1>3, <1>4, UsedPositionsFinite, FS_Subset DEF ListInv, MarksCounted

(* The loop guard of commit_remove keeps both indices inside the list.     *)
LEMMA CommitInBoundsLemma == ListInv => CommitInBounds
<1> SUFFICES ASSUME ListInv, committing, CommitLoopGuard
             PROVE  {ci, cj} \subseteq UsedPositions
  BY DEF CommitInBounds
<1>1. cj # SizeMax
  <2> SUFFICES ASSUME cj = SizeMax PROVE FALSE
    OBVIOUS
  <2>1. removedCount <= listCount
    BY UsedPositionsFinite, FS_Subset DEF ListInv, MarksCounted
  <2> QED
    BY <2>1, MaxClientsAssumption
       DEF ListInv, ListTypeOK, CommitProgress, CommitLoopGuard
<1> QED
  BY <1>1, MaxClientsAssumption
     DEF ListInv, ListTypeOK, CommitProgress, CommitLoopGuard, UsedPositions

(* The moment the loop ends, the marked entries are exactly the last       *)
(* removedCount ones, so that cutting them off keeps the others.           *)
LEMMA CutIsExact ==
  ASSUME ListInv, committing, ~CommitLoopGuard
  PROVE  UsedPositions \ MarkedPositions = 0 .. listCount - removedCount - 1
<1> USE MaxClientsAssumption, SizeMaxAssumption
<1>1. /\ listCount \in Nat /\ removedCount \in Nat /\ removed \in Nat /\ ci \in Nat
      /\ cj \in Nat
  BY DEF ListInv, ListTypeOK
<1>2. CASE removed = removedCount
  <2>1. MarkedPositions = Behind(cj)
    BY <1>2, BehindCounted
  <2> QED
    BY <1>1, <1>2, <2>1 DEF ListInv, CommitProgress, Behind, UsedPositions
<1>3. CASE removed # removedCount
  <2>1. removed < removedCount /\ ci >= cj
    BY <1>1, <1>3, BehindCounted DEF CommitLoopGuard
  <2>2. cj # SizeMax /\ cj < listCount
    <3>1. removedCount <= listCount
      BY UsedPositionsFinite, FS_Subset DEF ListInv, MarksCounted
    <3> QED
      BY <1>1, <2>1, <3>1 DEF ListInv, CommitProgress
  <2>3. MarkedPositions \subseteq Behind(cj) \cup {cj}
    BY <1>1, <2>1, <2>2
       DEF ListInv, CommitProgress, MarkedPositions, Behind, UsedPositions
  <2>4. cj \notin Behind(cj)
    BY <1>1, <2>2 DEF Behind
  <2>5. Cardinality(Behind(cj) \cup {cj}) = removed + 1 /\ IsFiniteSet(Behind(cj) \cup {cj})
    BY <2>4, BehindCounted, FS_AddElement
  <2>6. removedCount <= removed + 1
    BY <2>3, <2>5, FS_Subset DEF ListInv, MarksCounted
  <2>7. removedCount = removed + 1
    BY <1>1, <2>1, <2>6
  <2>8. MarkedPositions = Behind(cj) \cup {cj}
    BY <2>3, <2>5, <2>7, FS_Subset DEF ListInv, MarksCounted
  <2> QED
    BY <1>1, <2>2, <2>7, <2>8 DEF ListInv, CommitProgress, Behind, UsedPositions
<1> QED
  BY <1>2, <1>3
-----------------------------------------------------------------------------
(* Every operation preserves the list's invariant. *)

LEMMA InitListInv == ListInit => ListInv
<1> SUFFICES ASSUME ListInit PROVE ListInv
  OBVIOUS
<1>1. UsedPositions = {} /\ MarkedPositions = {}
  BY DEF ListInit, UsedPositions, MarkedPositions
<1>2. ListTypeOK
  <2>1. list \in [Positions -> Ids \cup {REMOVED_CLIENT}]
    BY DEF ListInit
  <2>2. committing \in BOOLEAN
    BY DEF ListInit
  <2>3. 0 \in 0 .. MaxClients
    BY MaxClientsAssumption
  <2> QED
    BY <2>1, <2>2, <2>3 DEF ListInit, ListTypeOK
<1>3. NoDuplicates /\ CommitProgress
  BY <1>1 DEF ListInit, NoDuplicates, CommitProgress
<1>4. MarksCounted
  BY <1>1, FS_EmptySet DEF ListInit, MarksCounted
<1> QED
  BY <1>2, <1>3, <1>4 DEF ListInv

LEMMA CompactedLemma == ListInv => Compacted
BY UsedPositionsFinite, FS_EmptySet DEF ListInv, MarksCounted, Compacted

LEMMA AppendInv ==
  ASSUME ListInv, ~committing, removedCount = 0, listCount < MaxClients,
         NEW id \in Ids \ Members, AppendId(id)
  PROVE  /\ ListInv'
         /\ Members' = Members \cup {id}
         /\ MarkedPositions' = {}
<1> USE MaxClientsAssumption
<1>1. /\ listCount \in Positions /\ listCount \in Nat
      /\ listCount' = listCount + 1 /\ listCount' \in 0 .. MaxClients
      /\ UsedPositions' = UsedPositions \cup {listCount}
      /\ listCount \notin UsedPositions /\ UsedPositions \subseteq Positions
  BY DEF ListInv, ListTypeOK, Positions, UsedPositions, AppendId
<1>2. /\ list' = [list EXCEPT ![listCount] = id]
      /\ UNCHANGED <<removedCount, committing, ci, cj, removed>>
      /\ list'[listCount] = id
      /\ \A p \in UsedPositions : list'[p] = list[p]
  BY <1>1 DEF AppendId, ListInv, ListTypeOK
<1>3. id # REMOVED_CLIENT
  BY DEF Ids, REMOVED_CLIENT
<1>4. MarkedPositions = {} /\ MarkedPositions' = {}
  BY <1>1, <1>2, <1>3, CompactedLemma DEF Compacted, MarkedPositions, IsRemoved
<1>5. ListTypeOK'
  BY <1>1, <1>2 DEF ListInv, ListTypeOK
<1>6. NoDuplicates'
  <2>1. \A p \in UsedPositions : list[p] # id
    BY <1>3 DEF Members
  <2>2. \A p, q \in UsedPositions : list[p] = list[q] => p = q \/ list[p] = REMOVED_CLIENT
    BY DEF ListInv, NoDuplicates, IsRemoved
  <2> QED
    BY <1>1, <1>2, <2>1, <2>2 DEF NoDuplicates, IsRemoved
<1>7. MarksCounted' /\ CommitProgress'
  BY <1>2, <1>4 DEF ListInv, MarksCounted, CommitProgress
<1>8. Members' = Members \cup {id}
  BY <1>1, <1>2, <1>3 DEF Members
<1> QED
  BY <1>4, <1>5, <1>6, <1>7, <1>8 DEF ListInv

LEMMA MarkRemovedInv ==
  ASSUME ListInv, ~committing, NEW p \in UsedPositions, MarkRemoved(p)
  PROVE  /\ ListInv'
         /\ Members' = Members \ {list[p]}
         /\ MarkedPositions' = MarkedPositions \cup {p}
<1> USE MaxClientsAssumption
<1>1. /\ list[p] # REMOVED_CLIENT /\ p \in Positions
      /\ list' = [list EXCEPT ![p] = REMOVED_CLIENT]
      /\ removedCount' = removedCount + 1
      /\ UNCHANGED <<listCount, committing, ci, cj, removed>>
  BY UsedPositionsFinite DEF MarkRemoved, IsRemoved, ListInv
<1>2. /\ UsedPositions' = UsedPositions
      /\ list'[p] = REMOVED_CLIENT
      /\ \A q \in UsedPositions \ {p} : list'[q] = list[q]
  BY <1>1, UsedPositionsFinite DEF UsedPositions, ListInv, ListTypeOK
<1>3. MarkedPositions' = MarkedPositions \cup {p} /\ p \notin MarkedPositions
  BY <1>1, <1>2 DEF MarkedPositions, IsRemoved
<1>4. MarksCounted'
  BY <1>1, <1>3, UsedPositionsFinite, FS_AddElement DEF ListInv, MarksCounted
<1>5. removedCount' \in 0 .. MaxClients
  <2>1. MarkedPositions' \in SUBSET UsedPositions
    BY <1>2, <1>3, UsedPositionsFinite DEF ListInv
  <2>2. Cardinality(MarkedPositions') <= listCount
    BY <2>1, UsedPositionsFinite, FS_Subset DEF ListInv
  <2> QED
    BY <1>1, <1>4, <2>2 DEF MarksCounted, ListInv, ListTypeOK
<1>6. ListTypeOK'
  BY <1>1, <1>5 DEF ListInv, ListTypeOK
<1>7. NoDuplicates'
  BY <1>1, <1>2 DEF ListInv, NoDuplicates, IsRemoved
<1>8. CommitProgress'
  BY <1>1 DEF CommitProgress
<1>9. Members' = Members \ {list[p]}
  BY <1>1, <1>2 DEF Members, ListInv, NoDuplicates, IsRemoved
<1> QED
  BY <1>3, <1>4, <1>6, <1>7, <1>8, <1>9 DEF ListInv

LEMMA CommitBeginInv ==
  ASSUME ListInv, CommitBegin
  PROVE  ListInv' /\ Members' = Members
<1> USE MaxClientsAssumption, SizeMaxAssumption
<1>1. /\ committing' /\ ci' = 0 /\ removed' = 0
      /\ cj' = IF listCount = 0 THEN SizeMax ELSE listCount - 1
      /\ UNCHANGED <<list, listCount, removedCount>>
  BY DEF CommitBegin, Decrement
<1>2. UsedPositions' = UsedPositions /\ MarkedPositions' = MarkedPositions
  BY <1>1 DEF UsedPositions, MarkedPositions, IsRemoved
<1>3. committing' \in BOOLEAN
  BY DEF CommitBegin
<1>4. ListTypeOK'
  BY <1>1, <1>3 DEF ListInv, ListTypeOK
<1>5. NoDuplicates' /\ MarksCounted'
  BY <1>1, <1>2 DEF ListInv, NoDuplicates, MarksCounted, IsRemoved
<1>6. CommitProgress'
  <2>1. Behind(cj)' = {}
    BY <1>1 DEF Behind, UsedPositions, ListInv, ListTypeOK
  <2> QED
    BY <1>1, <2>1 DEF CommitProgress, ListInv, ListTypeOK, UsedPositions
<1> QED
  BY <1>1, <1>2, <1>4, <1>5, <1>6 DEF ListInv, Members

LEMMA CommitStepInv ==
  ASSUME ListInv, CommitStep
  PROVE  ListInv' /\ Members' = Members
<1> USE MaxClientsAssumption, SizeMaxAssumption
<1>1. /\ committing /\ CommitLoopGuard
      /\ ci \in UsedPositions /\ cj \in UsedPositions /\ ci < cj
      /\ UsedPositions \subseteq Positions
  BY CommitInBoundsLemma, UsedPositionsFinite
     DEF CommitStep, CommitInBounds, CommitLoopGuard, ListInv
<1>2. /\ listCount \in Nat /\ listCount <= MaxClients
      /\ ci \in Nat /\ cj \in Nat /\ cj < listCount /\ cj # SizeMax
      /\ removed = listCount - 1 - cj
      /\ \A p \in UsedPositions : p > cj => IsRemoved(p)
      /\ \A p \in UsedPositions : p < ci => ~IsRemoved(p)
  BY <1>1 DEF ListInv, ListTypeOK, CommitProgress, UsedPositions, Behind
<1>3. /\ ci' = ci + 1
      /\ UNCHANGED <<listCount, removedCount, committing>>
      /\ UsedPositions' = UsedPositions
  BY DEF CommitStep, UsedPositions
<1>4. CASE ~IsRemoved(ci)
  <2>1. UNCHANGED <<list, cj, removed>>
    BY <1>4 DEF CommitStep
  <2>2. MarkedPositions' = MarkedPositions
    BY <1>3, <2>1 DEF MarkedPositions, IsRemoved
  <2>3. ListTypeOK' /\ NoDuplicates' /\ MarksCounted'
    BY <1>1, <1>2, <1>3, <2>1, <2>2
       DEF ListInv, ListTypeOK, NoDuplicates, MarksCounted, IsRemoved
  <2>4. CommitProgress'
    BY <1>1, <1>2, <1>3, <1>4, <2>1 DEF CommitProgress, Behind, IsRemoved, UsedPositions
  <2> QED
    BY <1>3, <2>1, <2>3, <2>4 DEF ListInv, Members
<1>5. CASE IsRemoved(ci)
  <2>1. PICK k \in ci .. cj :
          /\ WhileStopsAt(k)
          /\ list' = Swap(ci, k)
          /\ cj' = Decrement(k)
          /\ removed' = removed + (cj - k) + 1
    BY <1>5 DEF CommitStep
  <2>2. k \in UsedPositions /\ k \in Positions /\ k \in Nat /\ ci <= k /\ k <= cj
    BY <1>1, <1>2 DEF UsedPositions
  <2>3. /\ list' \in [Positions -> Ids \cup {REMOVED_CLIENT}]
        /\ list'[ci] = list[k] /\ list'[k] = REMOVED_CLIENT
        /\ \A p \in UsedPositions \ {ci, k} : list'[p] = list[p]
    BY <1>1, <1>5, <2>1, <2>2 DEF Swap, IsRemoved, ListInv, ListTypeOK
  <2>4. /\ k = ci \/ list[k] # REMOVED_CLIENT
        /\ list[ci] = REMOVED_CLIENT
        /\ \A p \in UsedPositions : p > k => list[p] = REMOVED_CLIENT
    BY <1>2, <1>5, <2>1, <2>2 DEF WhileStopsAt, IsRemoved, UsedPositions
  <2>5. /\ removed' = listCount - k
        /\ cj' = IF k = 0 THEN SizeMax ELSE k - 1
    BY <1>2, <2>1, <2>2 DEF Decrement
  <2>6. ListTypeOK'
    BY <1>1, <1>2, <1>3, <2>2, <2>3, <2>5 DEF ListInv, ListTypeOK
  <2>7. NoDuplicates'
    BY <1>1, <1>3, <2>2, <2>3, <2>4 DEF ListInv, NoDuplicates, IsRemoved
  <2>8. MarksCounted'
    <3>1. MarkedPositions' = (MarkedPositions \ {ci}) \cup {k}
      BY <1>1, <1>3, <2>2, <2>3, <2>4 DEF MarkedPositions, IsRemoved
    <3>2. ci \in MarkedPositions
      BY <1>1, <1>5 DEF MarkedPositions
    <3>3. k \notin MarkedPositions \ {ci}
      BY <2>4 DEF MarkedPositions, IsRemoved
    <3>4. /\ IsFiniteSet(MarkedPositions \ {ci})
          /\ Cardinality(MarkedPositions \ {ci}) = Cardinality(MarkedPositions) - 1
      BY <3>2, UsedPositionsFinite, FS_RemoveElement DEF ListInv
    <3>5. Cardinality(MarkedPositions') = Cardinality(MarkedPositions \ {ci}) + 1
      BY <3>1, <3>3, <3>4, FS_AddElement
    <3>6. Cardinality(MarkedPositions) \in Nat
      BY UsedPositionsFinite, FS_CardinalityType DEF ListInv
    <3> QED
      BY <1>3, <3>4, <3>5, <3>6 DEF ListInv, MarksCounted
  <2>9. CommitProgress'
    <3>1. Behind(cj)' = {p \in UsedPositions : p >= k}
      BY <1>2, <1>3, <2>2, <2>5 DEF Behind, UsedPositions
    <3>2. \A p \in UsedPositions : p >= k => list'[p] = REMOVED_CLIENT
      BY <1>1, <1>2, <2>2, <2>3, <2>4 DEF UsedPositions
    <3>3. \A p \in UsedPositions : p < k /\ p < ci + 1 => list'[p] # REMOVED_CLIENT
      BY <1>1, <1>2, <2>2, <2>3, <2>4 DEF UsedPositions, IsRemoved
    <3> QED
      BY <1>2, <1>3, <2>2, <2>5, <3>1, <3>2, <3>3
         DEF CommitProgress, IsRemoved, UsedPositions
  <2>10. Members' = Members
    BY <1>1, <1>3, <2>2, <2>3, <2>4 DEF Members
  <2> QED
    BY <2>6, <2>7, <2>8, <2>9, <2>10 DEF ListInv
<1> QED
  BY <1>4, <1>5

LEMMA CommitEndInv ==
  ASSUME ListInv, CommitEnd
  PROVE  /\ ListInv'
         /\ Members' = Members
         /\ removedCount' = 0
<1> USE MaxClientsAssumption
<1>1. /\ listCount' = listCount - removedCount
      /\ removedCount' = 0 /\ ~committing' /\ committing' \in BOOLEAN
      /\ ci' = 0 /\ cj' = 0 /\ removed' = 0
      /\ list' = list
  BY DEF CommitEnd
<1>2. UsedPositions' = UsedPositions \ MarkedPositions
  BY <1>1, CutIsExact DEF CommitEnd, UsedPositions
<1>3. MarkedPositions' = {}
  BY <1>1, <1>2 DEF MarkedPositions, IsRemoved
<1>4. listCount' \in 0 .. MaxClients
  <2>1. removedCount <= listCount
    BY UsedPositionsFinite, FS_Subset DEF ListInv, MarksCounted
  <2> QED
    BY <1>1, <2>1 DEF ListInv, ListTypeOK
<1>5. ListTypeOK'
  BY <1>1, <1>4 DEF ListInv, ListTypeOK
<1>6. NoDuplicates'
  BY <1>1, <1>2 DEF ListInv, NoDuplicates, IsRemoved
<1>7. MarksCounted' /\ CommitProgress'
  BY <1>1, <1>3, FS_EmptySet DEF MarksCounted, CommitProgress
<1>8. Members' = Members
  BY <1>1, <1>2 DEF Members, MarkedPositions, IsRemoved
<1> QED
  BY <1>1, <1>5, <1>6, <1>7, <1>8 DEF ListInv

LEMMA ListUnchanged ==
  ASSUME ListInv, UNCHANGED listVars
  PROVE  /\ ListInv' /\ Members' = Members /\ UsedPositions' = UsedPositions
         /\ MarkedPositions' = MarkedPositions
         /\ UNCHANGED <<list, listCount, removedCount, committing>>
BY DEF listVars, ListInv, ListTypeOK, NoDuplicates, MarksCounted, CommitProgress,
       Behind, UsedPositions, MarkedPositions, IsRemoved, Members

(* Without marks the list holds as many ids as it has entries. *)
LEMMA MembersCounted ==
  ASSUME ListInv, removedCount = 0, ~committing
  PROVE  /\ MarkedPositions = {}
         /\ IsFiniteSet(Members) /\ Cardinality(Members) = listCount
<1> DEFINE f == [p \in UsedPositions |-> list[p]]
<1>1. MarkedPositions = {}
  BY CompactedLemma DEF Compacted
<1>2. \A p \in UsedPositions : list[p] # REMOVED_CLIENT
  BY <1>1 DEF MarkedPositions, IsRemoved
<1>3. f \in [UsedPositions -> Members] /\ \A id \in Members : \E p \in UsedPositions : f[p] = id
  BY <1>2 DEF Members
<1>4. \A p, q \in UsedPositions : f[p] = f[q] => p = q
  BY <1>2 DEF ListInv, NoDuplicates, IsRemoved
<1>5. ExistsBijection(UsedPositions, Members)
  <2>1. f \in Bijection(UsedPositions, Members)
    BY <1>3, <1>4, Fun_IsBij
  <2> QED
    BY <2>1 DEF ExistsBijection
<1> QED
  BY <1>1, <1>5, UsedPositionsFinite, FS_Bijection DEF ListInv

-----------------------------------------------------------------------------
(* For every capacity: the list never names a client twice, its mark       *)
(* counter is exact, and the loop of commit_remove keeps its bookkeeping.  *)
THEOREM ListIsConsistent == ListSpec => []ListInv
<1>1. ListInit => ListInv
  BY InitListInv
<1>2. ListInv /\ [ListNext]_listVars => ListInv'
  <2> SUFFICES ASSUME ListInv, [ListNext]_listVars PROVE ListInv'
    OBVIOUS
  <2>1. CASE UNCHANGED listVars
    BY <2>1 DEF listVars, ListInv, ListTypeOK, NoDuplicates, MarksCounted,
                CommitProgress, Behind, UsedPositions, MarkedPositions, IsRemoved
  <2>2. ASSUME NEW id \in Ids \ Members, ~committing, removedCount = 0,
               listCount < MaxClients, AppendId(id)
        PROVE  ListInv'
    BY <2>2, AppendInv
  <2>3. ASSUME NEW p \in UsedPositions, ~committing, MarkRemoved(p) PROVE ListInv'
    BY <2>3, MarkRemovedInv
  <2> QED
    BY <2>1, <2>2, <2>3, CommitBeginInv, CommitStepInv, CommitEndInv DEF ListNext
<1> QED
  BY <1>1, <1>2, PTL DEF ListSpec

(* Between rounds the list has no holes, whatever was removed in the       *)
(* rounds before.                                                          *)
THEOREM ListIsCompacted == ListSpec => []Compacted
BY ListIsConsistent, CompactedLemma, PTL

(* commit_remove only reads entries of the list, also when j has wrapped   *)
(* around below zero.                                                      *)
THEOREM CommitStaysInBounds == ListSpec => []CommitInBounds
BY ListIsConsistent, CommitInBoundsLemma, PTL

(* Compaction neither drops a surviving client nor brings a removed one    *)
(* back.                                                                   *)
THEOREM CompactionKeepsMembers == ListSpec => CommitKeepsMembers
<1>1. ListInv /\ [ListNext]_listVars
        => [committing \/ committing' => Members' = Members]_listVars
  <2> SUFFICES ASSUME ListInv, ListNext, committing \/ committing'
               PROVE  Members' = Members
    OBVIOUS
  <2>1. ~(\E id \in Ids \ Members : /\ ~committing /\ removedCount = 0
                                     /\ listCount < MaxClients /\ AppendId(id))
    BY DEF AppendId
  <2>2. ~(\E p \in UsedPositions : ~committing /\ MarkRemoved(p))
    BY DEF MarkRemoved
  <2> QED
    BY <2>1, <2>2, CommitBeginInv, CommitStepInv, CommitEndInv DEF ListNext
<1> QED
  BY <1>1, ListIsConsistent, PTL DEF ListSpec, CommitKeepsMembers
====
