---- MODULE UppercaseServerProofs ----
(***************************************************************************)
(* Proofs about lab33's server, for every capacity, every set of           *)
(* descriptors and every bound on the listen queue.  The proofs of its two *)
(* parts are cited operation by operation.                                 *)
(***************************************************************************)
EXTENDS UppercaseServer, ServerTablesProofs

(* The list and the registry have the same size when the list has no marks. *)
LEMMA SameSize ==
  ASSUME RegistryInv, ListInv, Members = Live, removedCount = 0, ~committing
  PROVE  listCount = clientCount /\ MarkedPositions = {}
BY CountLive, MembersCounted DEF RegistryInv

LEMMA InitServerInv == Init => ServerInv
<1> SUFFICES ASSUME Init PROVE ServerInv
  OBVIOUS
<1> USE MaxClientsAssumption, ServerAssumption
<1>1. RegistryInv /\ ListInv
  BY InitRegistryInv, InitListInv DEF Init
<1>2. Live = {} /\ Members = {} /\ UsedSlots = {}
  BY DEF Init, RegistryInit, ListInit, Live, IsValidId, Members, UsedPositions, UsedSlots
<1>3. TypeOK
  <2>1. sock \in [Fds -> SUBSET Conditions]
    BY DEF Init
  <2>2. hasPending \in BOOLEAN
    BY DEF Init
  <2> QED
    BY <1>1, <2>1, <2>2 DEF Init, TypeOK, RegistryInv, ListInv
<1>4. PhaseOfCommit /\ RoundIsFresh
  BY DEF Init, ListInit, RegistryInit, PhaseOfCommit, RoundIsFresh
<1> QED
  BY <1>1, <1>2, <1>3, <1>4 DEF ServerInv

LEMMA PollInv ==
  ASSUME ServerInv, Poll
  PROVE  ServerInv'
<1> USE MaxClientsAssumption, ServerAssumption
<1> DEFINE ready == [fd \in Fds |-> Revents(fd)]
<1>1. /\ pc = "poll" /\ pc' = "accept" /\ up
      /\ PollClients(ready)
      /\ hasPending' = (backlog > 0)
      /\ fdCount' = Cardinality({s \in UsedSlots : clients'[s].revents # {}})
                      + (IF backlog > 0 THEN 1 ELSE 0)
      /\ UNCHANGED <<listVars, i, processed, ioable, kernelVars>>
  BY DEF Poll, ServerInv, PhaseOfCommit
<1>2. ready \in [Fds -> SUBSET Events]
  BY DEF Revents
<1>3. RegistryInv'
  BY <1>1, <1>2, PollClientsInv DEF ServerInv
<1>4. ListInv' /\ Members' = Members
  BY <1>1 DEF ServerInv, listVars, ListInv, ListTypeOK, NoDuplicates, MarksCounted,
              CommitProgress, Behind, UsedPositions, MarkedPositions, IsRemoved, Members
<1>5. Live' = Live /\ UNCHANGED <<idTable, indexToId, clientCount, open, up>>
  BY <1>1 DEF PollClients, Live, IsValidId
<1>6. \A s \in UsedSlots : clients[s].fd \in Fds /\ s \in Slots
  BY DEF ServerInv, RegistryInv, RegistryTypeOK, UsedSlots, Slots, Ids
<1>7. \A s \in UsedSlots : clients'[s].fd = clients[s].fd
                         /\ clients'[s].revents = Revents(clients[s].fd)
  BY <1>1, <1>6 DEF PollClients, ServerInv, RegistryInv, RegistryTypeOK
<1>8. UsedSlots' = UsedSlots
  BY <1>5 DEF UsedSlots
<1>9. {s \in UsedSlots : clients'[s].revents # {}} = UsedSlots
  BY <1>7 DEF Revents
<1>10. Cardinality(UsedSlots) = clientCount /\ clientCount \in 0 .. MaxClients
  <2>1. 0 \in Int /\ clientCount - 1 \in Int /\ clientCount \in 0 .. MaxClients
    BY DEF ServerInv, RegistryInv, RegistryTypeOK
  <2> QED
    BY <2>1, FS_Interval DEF UsedSlots
<1>11. fdCount' = clientCount' + (IF hasPending' THEN 1 ELSE 0)
  BY <1>1, <1>5, <1>9, <1>10
<1>12. \A id \in Live' : IsFresh(id)'
  <2> SUFFICES ASSUME NEW id \in Live PROVE IsFresh(id)'
    BY <1>5
  <2>1. /\ idTable[id] \in UsedSlots /\ idTable'[id] = idTable[id]
        /\ GetClient(id).fd \in open
    BY <1>1, <1>5, FdOfLive DEF ServerInv, RegistryInv, IdsOfSlots
  <2>2. GetClient(id)'.fd = GetClient(id).fd
        /\ GetClient(id)'.revents = Revents(GetClient(id).fd)
    BY <1>7, <2>1 DEF GetClient
  <2>3. \A fd : Revents(fd)' = Revents(fd)
    BY <1>1 DEF kernelVars, Revents
  <2> QED
    BY <1>5, <2>1, <2>2, <2>3 DEF IsFresh, Revents
<1>13. TypeOK'
  BY <1>1, <1>3, <1>4, <1>5, <1>10, <1>11 DEF ServerInv, TypeOK, RegistryInv, ListInv, kernelVars
<1>14. PhaseOfCommit'
  BY <1>1, <1>5 DEF ServerInv, PhaseOfCommit, listVars
<1>15. RoundIsFresh'
  BY <1>1, <1>11, <1>12 DEF RoundIsFresh
<1> QED
  BY <1>3, <1>4, <1>5, <1>6, <1>7, <1>8, <1>13, <1>14, <1>15
     DEF ServerInv

(* Reset, try_read's and main_loop's locals have their types. *)
LEMMA ResetTypes ==
  /\ 0 \in 0 .. MaxClients /\ 0 \in 0 .. MaxClients + 1
  /\ \A b : b = FALSE => b \in BOOLEAN
<1>1. 0 \in 0 .. MaxClients /\ 0 \in 0 .. MaxClients + 1
  BY MaxClientsAssumption
<1>2. \A b : b = FALSE => b \in BOOLEAN
  OBVIOUS
<1> QED
  BY <1>1, <1>2

LEMMA NothingPendingInv ==
  ASSUME ServerInv, NothingPending
  PROVE  ServerInv'
<1> USE MaxClientsAssumption, ServerAssumption
<1>1. /\ pc = "accept" /\ ~hasPending
      /\ pc' = "read" /\ i' = 0 /\ processed' = 0 /\ ioable' = fdCount
      /\ hasPending' = FALSE /\ fdCount' = 0
      /\ UNCHANGED <<registryVars, listVars, kernelVars>>
  BY DEF NothingPending, EnterTryRead
<1>2. /\ RegistryInv' /\ Live' = Live /\ UsedSlots' = UsedSlots
      /\ \A id : GetClient(id)' = GetClient(id)
      /\ UNCHANGED <<idTable, indexToId, clientCount, clients, open, up>>
  BY <1>1, RegistryUnchanged DEF ServerInv
<1>3. /\ ListInv' /\ Members' = Members /\ UsedPositions' = UsedPositions
      /\ MarkedPositions' = MarkedPositions
      /\ UNCHANGED <<list, listCount, removedCount, committing>>
  BY <1>1, ListUnchanged DEF ServerInv
<1>4. listCount = clientCount /\ MarkedPositions = {} /\ listCount \in 0 .. MaxClients
  BY <1>1, SameSize DEF ServerInv, PhaseOfCommit, ListInv, ListTypeOK
<1>5. TypeOK'
  <2>1. /\ i' \in 0 .. MaxClients /\ processed' \in 0 .. MaxClients
        /\ ioable' \in 0 .. MaxClients + 1 /\ fdCount' \in 0 .. MaxClients + 1
    BY <1>1, ResetTypes DEF ServerInv, TypeOK
  <2>2. hasPending' \in BOOLEAN
    BY <1>1, ResetTypes DEF ServerInv, TypeOK
  <2> QED
    BY <1>1, <1>2, <1>3, <2>1, <2>2 DEF ServerInv, TypeOK, RegistryInv, ListInv, kernelVars
<1>6. \A x : IsFresh(x) => IsFresh(x)'
  BY <1>1, <1>2 DEF IsFresh, Revents, kernelVars
<1>7. \A p \in UsedPositions : IsFresh(list[p])
  <2>1. \A p \in UsedPositions : list[p] \in Live
    BY <1>4 DEF ServerInv, Members, MarkedPositions, IsRemoved
  <2> QED
    BY <1>1, <2>1 DEF ServerInv, RoundIsFresh
<1>8. RoundIsFresh'
  <2>1. ioable' = listCount
    BY <1>1, <1>4 DEF ServerInv, RoundIsFresh
  <2> QED
    BY <1>1, <1>3, <1>4, <1>6, <1>7, <2>1 DEF RoundIsFresh
<1>9. PhaseOfCommit'
  BY <1>1, <1>2, <1>3 DEF ServerInv, PhaseOfCommit
<1> QED
  BY <1>2, <1>3, <1>5, <1>8, <1>9 DEF ServerInv

LEMMA AcceptClientInv ==
  ASSUME ServerInv, AcceptClient
  PROVE  ServerInv'
<1> USE MaxClientsAssumption, ServerAssumption
<1>1. PICK fd \in Fds \ open : AddClient(fd)
  BY DEF AcceptClient
<1>2. PICK id : id = NextId
  OBVIOUS
<1>3. /\ pc = "accept" /\ hasPending /\ backlog > 0 /\ backlog' = backlog - 1
      /\ pc' = "read" /\ i' = 0 /\ processed' = 0 /\ ioable' = fdCount - 1
      /\ AppendId(id)
      /\ hasPending' = FALSE /\ fdCount' = 0 /\ UNCHANGED sock
      /\ up /\ ~committing /\ removedCount = 0
  BY <1>2 DEF AcceptClient, EnterTryRead, ServerInv, PhaseOfCommit
<1>4. RegistryInv'
  BY <1>1, <1>3, AddClientInv DEF ServerInv
<1>5. /\ id \in Ids /\ id \notin Live /\ Live' = Live \cup {id}
      /\ \A x \in Live : GetClient(x)' = GetClient(x)
      /\ GetClient(id)'.fd = fd /\ GetClient(id)'.revents \in SUBSET Events
      /\ clientCount' = clientCount + 1
      /\ open' = open \cup {fd} /\ up' = up
  BY <1>1, <1>2, <1>3, AddClientEffect DEF ServerInv
<1>6. listCount = clientCount /\ MarkedPositions = {}
  BY <1>3, SameSize DEF ServerInv
<1>7. listCount < MaxClients /\ listCount \in Nat
  BY <1>4, <1>5, <1>6 DEF RegistryInv, RegistryTypeOK, ServerInv, ListInv, ListTypeOK
<1>8. ListInv' /\ Members' = Members \cup {id} /\ MarkedPositions' = {}
  BY <1>3, <1>5, <1>7, AppendInv DEF ServerInv
<1>9. /\ listCount' = listCount + 1
      /\ UNCHANGED <<removedCount, committing>>
      /\ \A p \in UsedPositions : list'[p] = list[p]
      /\ UsedPositions' = UsedPositions \cup {listCount}
      /\ listCount \notin UsedPositions
  <2>1. list' = [list EXCEPT ![listCount] = id] /\ listCount' = listCount + 1
        /\ UNCHANGED <<removedCount, committing>>
    BY <1>3 DEF AppendId
  <2>2. UsedPositions \subseteq Positions /\ listCount \notin UsedPositions
        /\ UsedPositions' = UsedPositions \cup {listCount}
    BY <1>7, <2>1 DEF UsedPositions, Positions
  <2> QED
    BY <2>1, <2>2 DEF ServerInv, ListInv, ListTypeOK
<1>10. TypeOK'
  <2>1. fdCount \in 0 .. MaxClients + 1 /\ fdCount - 1 \in 0 .. MaxClients + 1
    BY <1>3, <1>6, <1>7 DEF ServerInv, TypeOK, RoundIsFresh
  <2>2. backlog' \in 0 .. Backlog
    BY <1>3 DEF ServerInv, TypeOK
  <2>3. i' \in 0 .. MaxClients /\ processed' \in 0 .. MaxClients /\ fdCount' \in 0 .. MaxClients + 1
    BY <1>3, ResetTypes
  <2>4. hasPending' \in BOOLEAN
    BY <1>3, ResetTypes
  <2> QED
    BY <1>3, <1>4, <1>8, <2>1, <2>2, <2>3, <2>4 DEF ServerInv, TypeOK, RegistryInv, ListInv
<1>11. \A s \in UsedSlots' : clients'[s].fd # REMOVED_CLIENT
  <2>1. \A s \in UsedSlots' : indexToId'[s] \in Live' /\ idTable'[indexToId'[s]] = s
    BY <1>4 DEF RegistryInv, IdsOfSlots
  <2>2. \A x \in Live' : GetClient(x)'.fd # REMOVED_CLIENT
    BY <1>3, <1>5, FdOfLive, FdsAssumption DEF ServerInv
  <2> QED
    BY <2>1, <2>2 DEF GetClient
<1>12. \A p \in UsedPositions : IsFresh(list[p])'
  <2> SUFFICES ASSUME NEW p \in UsedPositions PROVE IsFresh(list[p])'
    OBVIOUS
  <2>1. list[p] \in Live /\ list'[p] = list[p]
    BY <1>6, <1>9 DEF ServerInv, Members, MarkedPositions, IsRemoved
  <2>2. IsFresh(list[p])
    BY <1>3, <2>1 DEF ServerInv, RoundIsFresh
  <2>3. GetClient(list[p])' = GetClient(list[p])
    BY <1>5, <2>1 DEF GetClient
  <2> QED
    BY <1>3, <1>5, <2>1, <2>2, <2>3 DEF IsFresh, Revents
<1>13. RoundIsFresh'
  <2>1. ioable' = listCount
    BY <1>3, <1>6, <1>7 DEF ServerInv, RoundIsFresh
  <2> QED
    BY <1>3, <1>7, <1>8, <1>9, <1>12, <2>1 DEF RoundIsFresh, UsedPositions
<1>14. PhaseOfCommit'
  BY <1>3, <1>5, <1>9 DEF ServerInv, PhaseOfCommit
<1> QED
  BY <1>4, <1>5, <1>8, <1>10, <1>11, <1>13, <1>14 DEF ServerInv
LEMMA RoundCutShortInv ==
  ASSUME ServerInv, RoundCutShort
  PROVE  ServerInv'
<1> USE MaxClientsAssumption, ServerAssumption
<1>1. /\ pc = "accept" /\ pc' = "poll"
      /\ backlog' = backlog \/ (backlog > 0 /\ backlog' = backlog - 1)
      /\ i' = 0 /\ processed' = 0 /\ ioable' = 0
      /\ hasPending' = FALSE /\ fdCount' = 0 /\ UNCHANGED <<registryVars, listVars, sock>>
  BY DEF RoundCutShort, RefuseClient, AcceptFails, EndRound
<1>2. /\ RegistryInv' /\ Live' = Live /\ UsedSlots' = UsedSlots
      /\ UNCHANGED <<idTable, indexToId, clientCount, clients, open, up>>
  BY <1>1, RegistryUnchanged DEF ServerInv
<1>3. /\ ListInv' /\ Members' = Members
      /\ UNCHANGED <<list, listCount, removedCount, committing>>
  BY <1>1, ListUnchanged DEF ServerInv
<1>4. TypeOK'
  <2>1. /\ i' \in 0 .. MaxClients /\ processed' \in 0 .. MaxClients
        /\ ioable' \in 0 .. MaxClients + 1 /\ fdCount' \in 0 .. MaxClients + 1
    BY <1>1, ResetTypes DEF ServerInv, TypeOK
  <2>2. hasPending' \in BOOLEAN
    BY <1>1, ResetTypes DEF ServerInv, TypeOK
  <2> QED
    BY <1>1, <1>2, <1>3, <2>1, <2>2 DEF ServerInv, TypeOK, RegistryInv, ListInv
<1>5. RoundIsFresh' /\ PhaseOfCommit'
  BY <1>1, <1>2, <1>3 DEF ServerInv, RoundIsFresh, PhaseOfCommit
<1> QED
  BY <1>2, <1>3, <1>4, <1>5 DEF ServerInv

(* The client try_read is about to visit. *)
LEMMA VisitedIsFresh ==
  ASSUME ServerInv, pc = "read", ReadLoopGuard
  PROVE  /\ i \in UsedPositions /\ i \in Nat /\ i < ioable
         /\ list[i] \in Live /\ list[i] \in Ids /\ IsFresh(list[i])
         /\ up /\ ~committing
         /\ Current.fd \in open /\ Current.fd \in Fds
<1> USE MaxClientsAssumption
<1>1. i \in UsedPositions /\ i \in Nat /\ i < ioable
  BY DEF ServerInv, TypeOK, RoundIsFresh, ReadLoopGuard, ListInv, ListTypeOK, UsedPositions
<1>2. IsFresh(list[i])
  BY <1>1 DEF ServerInv, RoundIsFresh
<1>3. up /\ ~committing
  BY DEF ServerInv, PhaseOfCommit
<1>4. list[i] \in Live /\ list[i] \in Ids
  BY <1>2 DEF IsFresh, Live
<1>5. Current.fd \in open /\ Current.fd \in Fds
  BY <1>3, <1>4, FdOfLive DEF ServerInv, Current
<1> QED
  BY <1>1, <1>2, <1>3, <1>4, <1>5

(* What an iteration of try_read leaves fresh: the positions it has not    *)
(* visited, whether the client it visited stays or goes.                   *)
LEMMA TryReadRound ==
  ASSUME ServerInv, pc = "read", ReadLoopGuard,
         NEW p \in UsedPositions, i < p, p < ioable,
         list'[p] = list[p],
         list[p] \in Live',
         GetClient(list[p])' = GetClient(list[p]),
         GetClient(list[p]).fd \in open',
         sock'[GetClient(list[p]).fd] = sock[GetClient(list[p]).fd]
  PROVE  IsFresh(list[p])'
<1>1. IsFresh(list[p])
  BY DEF ServerInv, RoundIsFresh, TypeOK, UsedPositions, ListInv, ListTypeOK
<1>2. /\ GetClient(list[p])'.fd = GetClient(list[p]).fd
      /\ GetClient(list[p])'.revents = GetClient(list[p]).revents
  OBVIOUS
<1> QED
  BY <1>1, <1>2 DEF IsFresh, Revents

LEMMA DropCurrentInv ==
  ASSUME ServerInv, TryReadNext, DropCurrent
  PROVE  ServerInv'
<1> USE MaxClientsAssumption, ServerAssumption
<1>1. /\ pc = "read" /\ pc' = "read" /\ ReadLoopGuard
      /\ i' = i + 1 /\ processed' = CountIoable(Current.revents)
      /\ UNCHANGED <<ioable, hasPending, fdCount, backlog>>
      /\ RemoveClient(list[i]) /\ MarkRemoved(i)
      /\ sock' = Closing({Current.fd})
  BY DEF TryReadNext, DropCurrent
<1>2. /\ i \in UsedPositions /\ i \in Nat /\ i < ioable
      /\ list[i] \in Live /\ list[i] \in Ids /\ IsFresh(list[i])
      /\ up /\ ~committing
      /\ Current.fd \in open /\ Current.fd \in Fds
  BY <1>1, VisitedIsFresh
<1>3. PICK id : id = list[i]
  OBVIOUS
<1>4. RegistryInv'
  BY <1>1, <1>2, RemoveClientInv DEF ServerInv
<1>5. /\ Live' = Live \ {id}
      /\ \A x \in Live \ {id} : GetClient(x)' = GetClient(x)
      /\ clientCount' = clientCount - 1
      /\ open' = open \ {GetClient(id).fd} /\ up' = up
  BY <1>1, <1>2, <1>3, RemoveClientOthers DEF ServerInv
<1>6. ListInv' /\ Members' = Members \ {id} /\ MarkedPositions' = MarkedPositions \cup {i}
  BY <1>1, <1>2, <1>3, MarkRemovedInv DEF ServerInv
<1>7. /\ UNCHANGED <<listCount, committing>> /\ UsedPositions' = UsedPositions
      /\ \A p \in UsedPositions : p # i => list'[p] = list[p]
  BY <1>1 DEF MarkRemoved, UsedPositions, ServerInv, ListInv, ListTypeOK
<1>8. processed' = i + 1 /\ i + 1 \in 0 .. MaxClients
  <2>1. Current.revents # {}
    BY <1>2 DEF IsFresh, Current
  <2>2. processed = i /\ i < listCount /\ listCount \in 0 .. MaxClients
    BY <1>1, <1>2 DEF ServerInv, RoundIsFresh, ReadLoopGuard, ListInv, ListTypeOK
  <2> QED
    BY <1>1, <1>2, <2>1, <2>2 DEF CountIoable
<1>9. TypeOK'
  <2>1. sock' \in [Fds -> SUBSET Conditions]
    BY <1>1 DEF ServerInv, TypeOK, Closing
  <2> QED
    BY <1>1, <1>4, <1>6, <1>8, <2>1 DEF ServerInv, TypeOK, RegistryInv, ListInv
<1>10. \A s \in UsedSlots' : clients'[s].fd # REMOVED_CLIENT
  <2>1. \A s \in UsedSlots' : indexToId'[s] \in Live' /\ idTable'[indexToId'[s]] = s
    BY <1>4 DEF RegistryInv, IdsOfSlots
  <2>2. \A x \in Live' : GetClient(x)'.fd # REMOVED_CLIENT
    BY <1>2, <1>5, FdOfLive, FdsAssumption DEF ServerInv
  <2> QED
    BY <2>1, <2>2 DEF GetClient
<1>11. \A p \in UsedPositions : i + 1 <= p /\ p < ioable => IsFresh(list[p])'
  <2> SUFFICES ASSUME NEW p \in UsedPositions, i + 1 <= p, p < ioable
               PROVE  IsFresh(list[p])'
    OBVIOUS
  <2>1. i < p /\ p # i
    BY <1>2 DEF UsedPositions, ServerInv, ListInv, ListTypeOK
  <2>2. IsFresh(list[p])
    BY <2>1, <1>1, <1>2 DEF ServerInv, RoundIsFresh, UsedPositions, ListInv, ListTypeOK
  <2>3. list[p] \in Live /\ list[p] # REMOVED_CLIENT
    BY <2>2 DEF IsFresh, Live, Ids, REMOVED_CLIENT
  <2>4. list[p] # id
    BY <1>2, <1>3, <2>1, <2>3 DEF ServerInv, ListInv, NoDuplicates, IsRemoved
  <2>5. GetClient(list[p]).fd # Current.fd /\ GetClient(list[p]).fd \in open
        /\ GetClient(list[p]).fd \in Fds
    BY <1>2, <1>3, <2>3, <2>4, FdOfLive DEF ServerInv, Current
  <2>6. sock'[GetClient(list[p]).fd] = sock[GetClient(list[p]).fd]
    BY <1>1, <2>5 DEF Closing
  <2>7. GetClient(list[p]).fd \in open'
    BY <1>3, <1>5, <2>5 DEF Current
  <2>8. list[p] \in Live' /\ GetClient(list[p])' = GetClient(list[p])' /\ list'[p] = list[p]
    BY <1>5, <1>7, <2>1, <2>3, <2>4
  <2>9. GetClient(list[p])' = GetClient(list[p])
    BY <1>5, <2>3, <2>4, <2>8 DEF GetClient
  <2> QED
    BY <1>1, <2>1, <2>6, <2>7, <2>8, <2>9, TryReadRound
<1>12. RoundIsFresh'
  <2>1. ioable \in Nat /\ i + 1 <= ioable /\ ioable <= listCount
    BY <1>1, <1>2 DEF ServerInv, TypeOK, RoundIsFresh
  <2>2. \A p \in MarkedPositions' : p < i + 1
    BY <1>1, <1>2, <1>6 DEF ServerInv, RoundIsFresh, MarkedPositions, UsedPositions
  <2> QED
    BY <1>1, <1>7, <1>8, <1>11, <2>1, <2>2 DEF RoundIsFresh
<1>13. PhaseOfCommit'
  BY <1>1, <1>2, <1>5, <1>7 DEF ServerInv, PhaseOfCommit
<1> QED
  BY <1>4, <1>5, <1>6, <1>9, <1>10, <1>12, <1>13 DEF ServerInv

LEMMA KeepCurrentInv ==
  ASSUME ServerInv, TryReadNext, KeepCurrent
  PROVE  ServerInv'
<1> USE MaxClientsAssumption, ServerAssumption
<1>1. /\ pc = "read" /\ pc' = "read" /\ ReadLoopGuard
      /\ i' = i + 1 /\ processed' = CountIoable(Current.revents)
      /\ UNCHANGED <<ioable, hasPending, fdCount, backlog>>
      /\ UNCHANGED <<registryVars, listVars>>
      /\ sock' = [sock EXCEPT ![Current.fd] =
                    IF "POLLIN" \in Current.revents THEN @ \ {"DATA"} ELSE @]
  BY DEF TryReadNext, KeepCurrent
<1>2. /\ i \in UsedPositions /\ i \in Nat /\ i < ioable
      /\ list[i] \in Live /\ list[i] \in Ids /\ IsFresh(list[i])
      /\ up /\ ~committing
      /\ Current.fd \in open /\ Current.fd \in Fds
  BY <1>1, VisitedIsFresh
<1>3. /\ RegistryInv' /\ Live' = Live /\ UsedSlots' = UsedSlots
      /\ \A id : GetClient(id)' = GetClient(id)
      /\ UNCHANGED <<idTable, indexToId, clientCount, clients, open, up>>
  BY <1>1, RegistryUnchanged DEF ServerInv
<1>4. /\ ListInv' /\ Members' = Members /\ UsedPositions' = UsedPositions
      /\ MarkedPositions' = MarkedPositions
      /\ UNCHANGED <<list, listCount, removedCount, committing>>
  BY <1>1, ListUnchanged DEF ServerInv
<1>5. processed' = i + 1 /\ i + 1 \in 0 .. MaxClients
  <2>1. Current.revents # {}
    BY <1>2 DEF IsFresh, Current
  <2>2. processed = i /\ i < listCount /\ listCount \in 0 .. MaxClients
    BY <1>1, <1>2 DEF ServerInv, RoundIsFresh, ReadLoopGuard, ListInv, ListTypeOK
  <2> QED
    BY <1>1, <1>2, <2>1, <2>2 DEF CountIoable
<1>6. TypeOK'
  <2>1. sock' \in [Fds -> SUBSET Conditions]
    BY <1>1 DEF ServerInv, TypeOK
  <2> QED
    BY <1>1, <1>3, <1>4, <1>5, <2>1 DEF ServerInv, TypeOK, RegistryInv, ListInv
<1>7. \A p \in UsedPositions : i + 1 <= p /\ p < ioable => IsFresh(list[p])'
  <2> SUFFICES ASSUME NEW p \in UsedPositions, i + 1 <= p, p < ioable
               PROVE  IsFresh(list[p])'
    OBVIOUS
  <2>1. i < p /\ p # i
    BY <1>2 DEF UsedPositions, ServerInv, ListInv, ListTypeOK
  <2>2. IsFresh(list[p])
    BY <2>1, <1>1, <1>2 DEF ServerInv, RoundIsFresh, UsedPositions, ListInv, ListTypeOK
  <2>3. list[p] \in Live /\ list[p] # REMOVED_CLIENT
    BY <2>2 DEF IsFresh, Live, Ids, REMOVED_CLIENT
  <2>4. list[p] # list[i]
    BY <1>2, <2>1, <2>3 DEF ServerInv, ListInv, NoDuplicates, IsRemoved
  <2>5. GetClient(list[p]).fd # Current.fd /\ GetClient(list[p]).fd \in open
    BY <1>2, <2>3, <2>4, FdOfLive DEF ServerInv, Current
  <2>6. sock'[GetClient(list[p]).fd] = sock[GetClient(list[p]).fd]
    BY <1>1, <2>5 DEF ServerInv, TypeOK
  <2>7. GetClient(list[p])' = GetClient(list[p])
    BY <1>3, <1>4 DEF GetClient
  <2> QED
    BY <1>1, <1>3, <1>4, <2>1, <2>3, <2>5, <2>6, <2>7, TryReadRound
<1>8. RoundIsFresh'
  <2>1. ioable \in Nat /\ i + 1 <= ioable /\ ioable <= listCount
    BY <1>1, <1>2 DEF ServerInv, TypeOK, RoundIsFresh
  <2>2. \A p \in MarkedPositions' : p < i + 1
    BY <1>1, <1>2, <1>4 DEF ServerInv, RoundIsFresh, MarkedPositions, UsedPositions
  <2> QED
    BY <1>1, <1>4, <1>5, <1>7, <2>1, <2>2 DEF RoundIsFresh
<1>9. PhaseOfCommit'
  BY <1>1, <1>3, <1>4 DEF ServerInv, PhaseOfCommit
<1> QED
  BY <1>3, <1>4, <1>6, <1>8, <1>9 DEF ServerInv
LEMMA TryReadEndInv ==
  ASSUME ServerInv, TryReadEnd
  PROVE  ServerInv'
<1>1. /\ pc = "read" /\ pc' = "commit" /\ CommitBegin
      /\ i' = 0 /\ processed' = 0 /\ ioable' = 0
      /\ UNCHANGED <<registryVars, hasPending, fdCount, kernelVars>>
  BY DEF TryReadEnd
<1>2. /\ RegistryInv' /\ Live' = Live /\ UsedSlots' = UsedSlots
      /\ UNCHANGED <<idTable, indexToId, clientCount, clients, open, up>>
  BY <1>1, RegistryUnchanged DEF ServerInv
<1>3. ListInv' /\ Members' = Members
  BY <1>1, CommitBeginInv DEF ServerInv
<1>4. TypeOK'
  <2>1. /\ i' \in 0 .. MaxClients /\ processed' \in 0 .. MaxClients
        /\ ioable' \in 0 .. MaxClients + 1 /\ fdCount' \in 0 .. MaxClients + 1
    BY <1>1, ResetTypes DEF ServerInv, TypeOK
  <2>2. hasPending' \in BOOLEAN
    BY <1>1, ResetTypes DEF ServerInv, TypeOK
  <2> QED
    BY <1>1, <1>2, <1>3, <2>1, <2>2 DEF ServerInv, TypeOK, RegistryInv, ListInv, kernelVars
<1>5. RoundIsFresh'
  BY <1>1 DEF RoundIsFresh
<1>6. PhaseOfCommit'
  BY <1>1, <1>2 DEF ServerInv, PhaseOfCommit, CommitBegin
<1> QED
  BY <1>2, <1>3, <1>4, <1>5, <1>6 DEF ServerInv

LEMMA CommitLoopInv ==
  ASSUME ServerInv, CommitLoop
  PROVE  ServerInv'
<1>1. /\ pc = "commit" /\ CommitStep
      /\ UNCHANGED <<registryVars, loopVars, kernelVars>>
  BY DEF CommitLoop
<1>2. /\ RegistryInv' /\ Live' = Live /\ UsedSlots' = UsedSlots
      /\ UNCHANGED <<idTable, indexToId, clientCount, clients, open, up>>
  BY <1>1, RegistryUnchanged DEF ServerInv
<1>3. ListInv' /\ Members' = Members
  BY <1>1, CommitStepInv DEF ServerInv
<1>4. TypeOK'
  BY <1>1, <1>2, <1>3 DEF ServerInv, TypeOK, RegistryInv, ListInv, kernelVars, loopVars
<1>5. RoundIsFresh' /\ PhaseOfCommit'
  BY <1>1, <1>2 DEF ServerInv, RoundIsFresh, PhaseOfCommit, CommitStep, loopVars
<1> QED
  BY <1>2, <1>3, <1>4, <1>5 DEF ServerInv

LEMMA CommitDoneInv ==
  ASSUME ServerInv, CommitDone
  PROVE  ServerInv'
<1>1. /\ pc = "commit" /\ pc' = "poll" /\ CommitEnd
      /\ i' = 0 /\ processed' = 0 /\ ioable' = 0
      /\ hasPending' = FALSE /\ fdCount' = 0 /\ UNCHANGED <<registryVars, kernelVars>>
  BY DEF CommitDone, EndRound
<1>2. /\ RegistryInv' /\ Live' = Live /\ UsedSlots' = UsedSlots
      /\ UNCHANGED <<idTable, indexToId, clientCount, clients, open, up>>
  BY <1>1, RegistryUnchanged DEF ServerInv
<1>3. ListInv' /\ Members' = Members /\ removedCount' = 0 /\ ~committing'
  BY <1>1, CommitEndInv DEF ServerInv, CommitEnd
<1>4. TypeOK'
  <2>1. /\ i' \in 0 .. MaxClients /\ processed' \in 0 .. MaxClients
        /\ ioable' \in 0 .. MaxClients + 1 /\ fdCount' \in 0 .. MaxClients + 1
    BY <1>1, ResetTypes DEF ServerInv, TypeOK
  <2>2. hasPending' \in BOOLEAN
    BY <1>1, ResetTypes DEF ServerInv, TypeOK
  <2> QED
    BY <1>1, <1>2, <1>3, <2>1, <2>2 DEF ServerInv, TypeOK, RegistryInv, ListInv, kernelVars
<1>5. RoundIsFresh' /\ PhaseOfCommit'
  BY <1>1, <1>2, <1>3 DEF ServerInv, RoundIsFresh, PhaseOfCommit
<1> QED
  BY <1>2, <1>3, <1>4, <1>5 DEF ServerInv

LEMMA InterruptInv ==
  ASSUME ServerInv, Interrupt
  PROVE  ServerInv'
<1>1. /\ pc # "exit" /\ pc' = "exit" /\ SafeCleanup /\ up /\ ~up'
      /\ sock' = Closing({clients[s].fd : s \in UsedSlots})
      /\ UNCHANGED <<listVars, i, processed, ioable, hasPending, fdCount, backlog>>
  BY DEF Interrupt, SafeCleanup, ServerInv, PhaseOfCommit
<1>2. RegistryInv' /\ Live' = Live /\ UsedSlots' = UsedSlots /\ clients' = clients
  BY <1>1, SafeCleanupInv DEF ServerInv, SafeCleanup, Live, IsValidId, UsedSlots
<1>3. ListInv' /\ Members' = Members
  BY <1>1, ListUnchanged DEF ServerInv
<1>4. TypeOK'
  <2>1. sock' \in [Fds -> SUBSET Conditions]
    BY <1>1 DEF ServerInv, TypeOK, Closing
  <2> QED
    BY <1>1, <1>2, <1>3, <2>1 DEF ServerInv, TypeOK, RegistryInv, ListInv
<1>5. RoundIsFresh' /\ PhaseOfCommit'
  BY <1>1 DEF RoundIsFresh, PhaseOfCommit
<1> QED
  BY <1>2, <1>3, <1>4, <1>5 DEF ServerInv

(* The peers only ever add to what poll has already reported. *)
LEMMA EnvironmentInv ==
  ASSUME ServerInv, Connect \/ PeerStep
  PROVE  ServerInv'
<1> USE ServerAssumption
<1>1. /\ UNCHANGED <<registryVars, listVars, loopVars>>
      /\ backlog' \in 0 .. Backlog
      /\ sock' \in [Fds -> SUBSET Conditions]
      /\ \A fd \in Fds : sock[fd] \subseteq sock'[fd]
  <2>1. CASE Connect
    BY <2>1 DEF Connect, ServerInv, TypeOK
  <2>2. CASE PeerStep
    <3>1. PICK fd \in open : PeerDoes(fd)
      BY <2>2 DEF PeerStep
    <3>2. PICK c \in Conditions : sock' = [sock EXCEPT ![fd] = @ \cup {c}]
      BY <3>1 DEF PeerDoes, Conditions
    <3>3. sock \in [Fds -> SUBSET Conditions] /\ backlog' = backlog
      BY <2>2 DEF PeerStep, ServerInv, TypeOK
    <3>4. \A g \in Fds : /\ sock[g] \subseteq sock'[g]
                         /\ sock'[g] \in SUBSET Conditions
      BY <3>2, <3>3
    <3>5. sock' \in [Fds -> SUBSET Conditions]
      BY <3>2, <3>3
    <3> QED
      BY <2>2, <3>3, <3>4, <3>5 DEF PeerStep, ServerInv, TypeOK
  <2> QED
    BY <2>1, <2>2
<1>2. /\ RegistryInv' /\ Live' = Live /\ UsedSlots' = UsedSlots
      /\ \A id : GetClient(id)' = GetClient(id)
      /\ UNCHANGED <<idTable, indexToId, clientCount, clients, open, up>>
  BY <1>1, RegistryUnchanged DEF ServerInv
<1>3. /\ ListInv' /\ Members' = Members /\ UsedPositions' = UsedPositions
      /\ MarkedPositions' = MarkedPositions
      /\ UNCHANGED <<list, listCount, removedCount, committing>>
  BY <1>1, ListUnchanged DEF ServerInv
<1>4. \A fd \in Fds : Revents(fd) \subseteq Revents(fd)'
  BY <1>1 DEF Revents
<1>5. \A x : IsFresh(x) => IsFresh(x)'
  BY <1>2, <1>4 DEF IsFresh, ServerInv, RegistryInv, RegistryTypeOK
<1>6. TypeOK'
  BY <1>1, <1>2, <1>3 DEF ServerInv, TypeOK, RegistryInv, ListInv, loopVars
<1>7. RoundIsFresh' /\ PhaseOfCommit'
  BY <1>1, <1>2, <1>3, <1>5 DEF ServerInv, RoundIsFresh, PhaseOfCommit, loopVars
<1> QED
  BY <1>2, <1>3, <1>6, <1>7 DEF ServerInv

-----------------------------------------------------------------------------
(* For every capacity, set of descriptors and queue length, whatever the   *)
(* peers do between any two steps of the loop: registry and list stay      *)
(* consistent with each other, no descriptor leaks, and poll's report on   *)
(* the clients still to be visited is up to date.                          *)
THEOREM ServerIsConsistent == Spec => []ServerInv
<1>1. Init => ServerInv
  BY InitServerInv
<1>2. ServerInv /\ [Next]_vars => ServerInv'
  <2> SUFFICES ASSUME ServerInv, [Next]_vars PROVE ServerInv'
    OBVIOUS
  <2>1. CASE UNCHANGED vars
    <3>1. /\ UNCHANGED registryVars /\ UNCHANGED listVars /\ UNCHANGED loopVars
          /\ UNCHANGED kernelVars
      BY <2>1 DEF vars
    <3>2. /\ RegistryInv' /\ Live' = Live /\ UsedSlots' = UsedSlots
          /\ \A id : GetClient(id)' = GetClient(id)
          /\ UNCHANGED <<idTable, indexToId, clientCount, clients, open, up>>
      BY <3>1, RegistryUnchanged DEF ServerInv
    <3>3. /\ ListInv' /\ Members' = Members /\ UsedPositions' = UsedPositions
          /\ MarkedPositions' = MarkedPositions
          /\ UNCHANGED <<list, listCount, removedCount, committing>>
      BY <3>1, ListUnchanged DEF ServerInv
    <3>4. \A x : IsFresh(x) => IsFresh(x)'
      BY <3>1, <3>2 DEF IsFresh, Revents, kernelVars
    <3> QED
      BY <3>1, <3>2, <3>3, <3>4
         DEF ServerInv, TypeOK, RegistryInv, ListInv, PhaseOfCommit, RoundIsFresh,
             loopVars, kernelVars
  <2>2. CASE TryReadNext
    BY <2>2, DropCurrentInv, KeepCurrentInv DEF TryReadNext
  <2>3. CASE Exited
    <3>1. UNCHANGED registryVars /\ UNCHANGED listVars /\ UNCHANGED loopVars
          /\ UNCHANGED kernelVars /\ pc = "exit"
      BY <2>3 DEF Exited, vars
    <3> QED
      BY <2>1, <2>3 DEF Exited
  <2> QED
    BY <2>1, <2>2, <2>3, PollInv, NothingPendingInv, AcceptClientInv, RoundCutShortInv,
       TryReadEndInv, CommitLoopInv, CommitDoneInv, InterruptInv, EnvironmentInv
       DEF Next, Loop, RoundCutShort
<1> QED
  BY <1>1, <1>2, PTL DEF Spec

LEMMA FreshReadiness == ServerInv => ReadinessIsFresh
<1> SUFFICES ASSUME ServerInv, pc = "read", ReadLoopGuard
             PROVE  /\ IsValidId(list[i])
                    /\ Current.fd \in open
                    /\ Current.revents \subseteq Revents(Current.fd)
  BY DEF ReadinessIsFresh
<1> QED
  BY VisitedIsFresh DEF IsFresh, Current, Live

(* The loop only ever acts on what poll reported in this round about this  *)
(* very connection, for every capacity.                                    *)
THEOREM ServerActsOnFreshReadiness == Spec => []ReadinessIsFresh
BY ServerIsConsistent, FreshReadiness, PTL

(* The server's only thread never blocks in read.                          *)
THEOREM ServerNeverBlocksInRead == Spec => []ReadNeverBlocks
<1>1. ReadinessIsFresh => ReadNeverBlocks
  BY DEF ReadinessIsFresh, ReadNeverBlocks, ReadWouldBlock, Revents
<1> QED
  BY <1>1, ServerActsOnFreshReadiness, PTL

(* Between two rounds the loop's list and the registry name the same       *)
(* clients and have the same length.                                       *)
THEOREM ListAlwaysMatchesRegistry == Spec => []ListMatchesRegistry
<1>1. ServerInv => ListMatchesRegistry
  BY SameSize DEF ServerInv, PhaseOfCommit, ListMatchesRegistry, ListInv
<1> QED
  BY <1>1, ServerIsConsistent, PTL

(* A running server closes a connection only after its peer ended it.      *)
THEOREM ServerClosesOnlyEnded == Spec => ClosesOnlyEnded
<1> DEFINE Only == \A fd \in open :
                     fd \notin open' /\ up' => sock[fd] \cap {"FIN", "RST"} # {}
<1>1. ServerInv /\ [Next]_vars => [Only]_vars
  <2> SUFFICES ASSUME ServerInv, Next, NEW fd \in open, fd \notin open', up'
               PROVE  sock[fd] \cap {"FIN", "RST"} # {}
    OBVIOUS
  <2>1. CASE TryReadNext /\ DropCurrent
    <3>1. /\ pc = "read" /\ ReadLoopGuard /\ RemoveClient(list[i])
          /\ "POLLERR" \in Current.revents \/ TransferFails
             \/ open' = open
      BY <2>1 DEF TryReadNext, DropCurrent, KeepCurrent, registryVars
    <3>2. Current.revents \subseteq Revents(Current.fd) /\ Current.fd \in Fds
      BY <3>1, FreshReadiness, VisitedIsFresh DEF ReadinessIsFresh
    <3>3. fd = Current.fd
      BY <3>1 DEF RemoveClient, Current
    <3>4. sock[fd] \subseteq Conditions
      BY <3>2, <3>3 DEF ServerInv, TypeOK
    <3> QED
      BY <3>1, <3>2, <3>3, <3>4 DEF Revents, TransferFails, Conditions
  <2>2. CASE TryReadNext /\ KeepCurrent
    BY <2>2 DEF KeepCurrent, registryVars
  <2>3. CASE AcceptClient
    BY <2>3 DEF AcceptClient, AddClient
  <2>4. CASE Interrupt
    BY <2>4 DEF Interrupt, SafeCleanup
  <2>5. CASE Poll
    BY <2>5 DEF Poll, PollClients
  <2> QED
    BY <2>1, <2>2, <2>3, <2>4, <2>5
       DEF Next, Loop, TryReadNext, NothingPending, RefuseClient, AcceptFails,
           TryReadEnd, CommitLoop, CommitDone, Connect, PeerStep, Exited, vars,
           registryVars
<1> QED
  BY <1>1, ServerIsConsistent, PTL DEF Spec, ClosesOnlyEnded
====
