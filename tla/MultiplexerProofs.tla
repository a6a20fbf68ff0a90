---- MODULE MultiplexerProofs ----
(***************************************************************************)
(* Proofs about lab31's multithreaded server, for every capacity and every *)
(* set of descriptors, whatever the clients do and wherever the two        *)
(* threads are when main appends a client, cancels the reader or is        *)
(* interrupted.                                                            *)
(***************************************************************************)
EXTENDS Multiplexer, FiniteSetTheorems, TLAPS

MxInv == LockOwned /\ TableInv /\ CompactProgress

LEMMA Capacity ==
  /\ MaxClients \in Nat \ {0}
  /\ IsFiniteSet(Fds) /\ Cardinality(Fds) \in Nat /\ 2 * Cardinality(Fds) <= MaxClients
  /\ REMOVED_CLIENT # STDIN /\ REMOVED_CLIENT \notin Fds /\ STDIN \notin Fds
  /\ IsFiniteSet(Entries)
<1>1. IsFiniteSet(Fds) /\ Cardinality(Fds) \in Nat
  BY MultiplexerAssumption, FS_CardinalityType
<1>2. IsFiniteSet(Entries)
  <2>1. 0 \in Int /\ MaxClients - 1 \in Int
    BY MultiplexerAssumption
  <2> QED
    BY <2>1, FS_Interval DEF Entries
<1> QED
  BY <1>1, <1>2, MultiplexerAssumption

LEMMA OpenCounted ==
  ASSUME TypeOK, NEW fd
  PROVE  /\ IsFiniteSet(open) /\ IsFiniteSet(open \ {fd})
         /\ Cardinality(open) \in Nat /\ Cardinality(open \ {fd}) \in Nat
         /\ Cardinality(open) <= Cardinality(Fds)
         /\ fd \in open => Cardinality(open) = Cardinality(open \ {fd}) + 1
         /\ fd \notin open => open \ {fd} = open
<1>1. open \in SUBSET Fds
  BY DEF TypeOK
<1>2. IsFiniteSet(open) /\ Cardinality(open) <= Cardinality(Fds)
  BY <1>1, Capacity, FS_Subset
<1>3. IsFiniteSet(open \ {fd})
  BY <1>2, FS_Subset, open \ {fd} \in SUBSET open
<1>4. Cardinality(open) \in Nat /\ Cardinality(open \ {fd}) \in Nat
  BY <1>2, <1>3, FS_CardinalityType
<1>5. fd \in open => Cardinality(open) = Cardinality(open \ {fd}) + 1
  <2> SUFFICES ASSUME fd \in open
               PROVE  Cardinality(open) = Cardinality(open \ {fd}) + 1
    OBVIOUS
  <2>1. open = (open \ {fd}) \cup {fd} /\ fd \notin open \ {fd}
    OBVIOUS
  <2> QED
    BY <2>1, <1>3, FS_AddElement
<1> QED
  BY <1>2, <1>3, <1>4, <1>5

-----------------------------------------------------------------------------
(* reading_lock, cancellation and the reader's death only depend on each   *)
(* other.                                                                  *)
LEMMA LockOwnedStep ==
  ASSUME LockOwned, [Next]_vars
  PROVE  LockOwned'
<1>1. CASE UNCHANGED vars
  BY <1>1 DEF vars, mainVars, readerVars, LockOwned, InTryRead, InRestart, CleaningUp
<1>2. CASE Loop \/ Accept \/ Append \/ Interrupt \/ AcceptFails \/ JoinLast
  BY <1>2 DEF Loop, Accept, Append, Interrupt, AcceptFails, JoinLast, Exiting, readerVars,
              LockOwned, InTryRead, InRestart, CleaningUp
<1>3. CASE TryLock \/ Cancel \/ Join \/ Start \/ Unlock
  BY <1>3 DEF TryLock, RestartTryLock, Cancel, Join, Start, Unlock, LockReleased, readerVars,
              LockOwned, InTryRead, InRestart, CleaningUp
<1>4. CASE Die \/ CountClients \/ PollCall \/ PollReturn \/ ReaderTryLock
  BY <1>4 DEF Die, AtCancellationPoint, CountClients, PollCall, PollReturn, ReaderTryLock,
              Alive, mainVars, LockOwned, InTryRead, InRestart, CleaningUp
<1>5. CASE EnterTryRead \/ Scan \/ ReadData \/ ReadEnd
  BY <1>5 DEF EnterTryRead, Scan, ReadData, ReadEnd, Alive, mainVars, readerVars,
              LockOwned, InTryRead, InRestart, CleaningUp
<1>6. CASE CommitBegin \/ Compact \/ CompactEnd \/ Subtract \/ ReaderUnlock
  BY <1>6 DEF CommitBegin, Compact, CompactEnd, Subtract, ReaderUnlock, Alive, mainVars,
              LockOwned, InTryRead, InRestart, CleaningUp
<1>7. CASE \E fd \in Fds : PeerDoes(fd)
  BY <1>7 DEF PeerDoes, mainVars, readerVars, LockOwned, InTryRead, InRestart, CleaningUp
<1> QED
  BY <1>1, <1>2, <1>3, <1>4, <1>5, <1>6, <1>7 DEF Next, Main, Reader, Exited

(* A reader that dies while it reads dies for good: main is cleaning up.   *)
LEMMA DeadWhileReading ==
  ASSUME LockOwned, mpc # "exit", cancelled, InTryRead
  PROVE  mpc = "joinlast"
BY DEF LockOwned, InRestart

-----------------------------------------------------------------------------
(* The main thread.                                                        *)

LEMMA InitMxInv == Init => MxInv
<1> SUFFICES ASSUME Init PROVE MxInv
  OBVIOUS
<1>1. /\ clients = [k \in Entries |-> [fd |-> STDIN, revents |-> FALSE]]
      /\ clientCount = 0 /\ toRemove = 0 /\ firstToRemove = 0
      /\ readingLock = "free"
      /\ mpc = "loop" /\ clientFd = REMOVED_CLIENT /\ quit = FALSE
      /\ rpc = "count" /\ cancelled = FALSE
      /\ asked = NothingAsked
      /\ polled = 0 /\ readable = 0 /\ visited = 0
      /\ readFd = 0 /\ i = 0 /\ j = 0 /\ removed = 0 /\ counted = 0
      /\ open = {} /\ sock = [fd \in Fds |-> "quiet"]
  BY DEF Init
<1>2. LockOwned
  BY <1>1 DEF LockOwned, InTryRead, InRestart
<1>3. TypeOK
  <2>1. clients \in [Entries -> [fd : Descriptors, revents : BOOLEAN]]
    <3>1. [fd |-> STDIN, revents |-> FALSE] \in [fd : Descriptors, revents : BOOLEAN]
      BY Zenon DEF Descriptors
    <3> QED
      BY <1>1, <3>1, Zenon
  <2>2. 0 \in Counts
    BY Capacity DEF Counts
  <2>3. quit \in BOOLEAN /\ cancelled \in BOOLEAN
    BY <1>1
  <2>4. asked \in [Entries -> Descriptors]
    BY <1>1 DEF NothingAsked, Descriptors
  <2>5. sock \in [Fds -> {"quiet", "data", "end"}] /\ open \in SUBSET Fds
    BY <1>1
  <2> QED
    BY <1>1, <2>1, <2>2, <2>3, <2>4, <2>5 DEF TypeOK
<1>4. EntriesOpen
  <2>1. \A k \in Entries : clients[k].fd = STDIN
    BY <1>1
  <2>2. 0 .. clientCount - 1 = {}
    BY <1>1
  <2> QED
    BY <1>1, <2>1, <2>2, Capacity DEF EntriesOpen
<1>5. CountIsRight
  <2>1. open \ {clientFd} = {}
    BY <1>1
  <2> QED
    BY <1>1, <2>1, FS_EmptySet DEF CountIsRight
<1>6. RoundAgrees /\ RemovedFew /\ CompactProgress
  BY <1>1 DEF RoundAgrees, RemovedFew, CompactProgress, InTryRead
<1> QED
  BY <1>2, <1>3, <1>4, <1>5, <1>6 DEF MxInv, TableInv

(* Steps of main that touch neither the array nor the connections.         *)
LEMMA MainControl ==
  ASSUME MxInv, mpc # "exit", mpc' # "exit", LockOwned', TypeOK',
         mpc = "add" <=> mpc' = "add", mpc = "joinlast" => mpc' = "joinlast",
         UNCHANGED <<tableVars, clientFd, readerVars, kernelVars>>
  PROVE  MxInv'
<1>1. /\ UNCHANGED <<clients, clientCount, toRemove, firstToRemove, clientFd, open>>
      /\ UNCHANGED <<rpc, polled, asked, readable, visited, readFd, i, j, removed, counted>>
  BY DEF tableVars, readerVars, loopVars, kernelVars
<1>2. Reported' = Reported
  BY <1>1 DEF Reported
<1>3. EntriesOpen' /\ CountIsRight'
  BY <1>1 DEF MxInv, TableInv, EntriesOpen, CountIsRight
<1>4. RoundAgrees'
  BY <1>1, <1>2 DEF MxInv, TableInv, RoundAgrees
<1>5. RemovedFew'
  BY <1>1 DEF MxInv, TableInv, RemovedFew, InTryRead
<1>6. CompactProgress'
  BY <1>1 DEF MxInv, CompactProgress, CompactGuard, IsRemoved
<1> QED
  BY <1>3, <1>4, <1>5, <1>6 DEF MxInv, TableInv

LEMMA MainControlInv ==
  ASSUME MxInv, Loop \/ TryLock \/ Cancel \/ Join \/ Unlock \/ Interrupt
  PROVE  MxInv'
<1>1. LockOwned'
  BY LockOwnedStep DEF MxInv, Next, Main
<1>2. /\ mpc # "exit" /\ mpc' # "exit"
      /\ mpc = "add" <=> mpc' = "add"
      /\ mpc = "joinlast" => mpc' = "joinlast"
      /\ UNCHANGED <<tableVars, clientFd, readerVars, kernelVars>>
      /\ quit' \in {quit, TRUE} /\ cancelled' \in {cancelled, TRUE}
      /\ readingLock' \in {readingLock, "main", "free"}
      /\ mpc' \in {mpc, "cleanup", "accept", "cancel", "loop", "join", "joinlast", "start"}
  <2>1. CASE Loop
    BY <2>1 DEF Loop
  <2>2. CASE TryLock
    BY <2>2 DEF TryLock, RestartTryLock
  <2>3. CASE Cancel \/ Join \/ Unlock
    BY <2>3 DEF Cancel, Join, Unlock, LockReleased
  <2>4. CASE Interrupt
    BY <2>4 DEF Interrupt
  <2> QED
    BY <2>1, <2>2, <2>3, <2>4
<1>3. TypeOK'
  <2>1. quit' \in BOOLEAN /\ cancelled' \in BOOLEAN
    BY <1>2 DEF MxInv, TableInv, TypeOK
  <2> QED
    BY <1>2, <2>1 DEF MxInv, TableInv, TypeOK, tableVars, readerVars, loopVars, kernelVars
<1> QED
  BY <1>1, <1>2, <1>3, MainControl

(* mx_start: the new reader knows nothing of the old one's round.          *)
LEMMA StartInv ==
  ASSUME MxInv, Start
  PROVE  MxInv'
<1>1. LockOwned'
  BY LockOwnedStep DEF MxInv, Next, Main
<1>2. /\ mpc = "start" /\ mpc' = "unlock" /\ rpc' = "count" /\ cancelled' = FALSE
      /\ polled' = 0 /\ asked' = NothingAsked
      /\ UNCHANGED <<clients, clientCount, toRemove, firstToRemove, readingLock,
                     clientFd, quit, readable, visited, readFd, i, j, removed,
                     counted, open, sock>>
  BY DEF Start, tableVars, kernelVars
<1>3. rpc = "dead" /\ toRemove = 0
  BY <1>2 DEF MxInv, LockOwned, TableInv, RemovedFew
<1>4. TypeOK'
  <2>1. asked' \in [Entries -> Descriptors] /\ polled' \in Counts
    BY <1>2, Capacity DEF NothingAsked, Descriptors, Counts
  <2>2. cancelled' \in BOOLEAN
    BY <1>2
  <2> QED
    BY <1>2, <2>1, <2>2 DEF MxInv, TableInv, TypeOK
<1>5. EntriesOpen' /\ CountIsRight'
  BY <1>2 DEF MxInv, TableInv, EntriesOpen, CountIsRight
<1>6. RoundAgrees' /\ RemovedFew' /\ CompactProgress'
  BY <1>2, <1>3 DEF MxInv, TableInv, RoundAgrees, RemovedFew, CompactProgress, InTryRead
<1> QED
  BY <1>1, <1>4, <1>5, <1>6 DEF MxInv, TableInv

LEMMA ExitingInv ==
  ASSUME MxInv, AcceptFails \/ JoinLast
  PROVE  MxInv'
<1>1. LockOwned'
  BY LockOwnedStep DEF MxInv, Next, Main
<1>2. /\ mpc' = "exit" /\ open' = {} /\ sock' = [fd \in Fds |-> "quiet"]
      /\ UNCHANGED <<tableVars, readingLock, clientFd, quit, readerVars, cancelled>>
  BY DEF AcceptFails, JoinLast, Exiting
<1>3. TypeOK'
  <2>1. open' \in SUBSET Fds /\ sock' \in [Fds -> {"quiet", "data", "end"}]
    BY <1>2
  <2> QED
    BY <1>2, <2>1 DEF MxInv, TableInv, TypeOK, tableVars, readerVars, loopVars
<1>4. EntriesOpen' /\ CountIsRight' /\ RoundAgrees' /\ RemovedFew'
  BY <1>2 DEF EntriesOpen, CountIsRight, RoundAgrees, RemovedFew
<1>5. CompactProgress'
  BY <1>2 DEF MxInv, CompactProgress, CompactGuard, IsRemoved, tableVars, readerVars, loopVars
<1> QED
  BY <1>1, <1>3, <1>4, <1>5 DEF MxInv, TableInv

LEMMA AcceptInv ==
  ASSUME MxInv, Accept
  PROVE  MxInv'
<1>1. LockOwned'
  BY LockOwnedStep DEF MxInv, Next
<1>2. PICK fd \in Fds \ open : clientFd' = fd /\ open' = open \cup {fd}
  BY DEF Accept
<1>3. /\ mpc = "accept" /\ mpc' = "add"
      /\ UNCHANGED <<clients, clientCount, toRemove, firstToRemove, readingLock, quit,
                     rpc, polled, asked, readable, visited, readFd, i, j, removed,
                     counted, cancelled, sock>>
  BY DEF Accept, tableVars, readerVars, loopVars
<1>4. clientFd = REMOVED_CLIENT /\ REMOVED_CLIENT \notin open /\ open \subseteq Fds
  BY <1>3, Capacity DEF MxInv, TableInv, RoundAgrees, TypeOK
<1>5. open' \ {clientFd'} = open \ {clientFd}
  BY <1>2, <1>4
<1>6. TypeOK'
  <2>1. open' \in SUBSET Fds /\ clientFd' \in Fds
    BY <1>2, <1>4
  <2> QED
    BY <1>3, <2>1 DEF MxInv, TableInv, TypeOK
<1>7. EntriesOpen' /\ CountIsRight'
  BY <1>2, <1>3, <1>5 DEF MxInv, TableInv, EntriesOpen, CountIsRight
<1>8. Reported' = Reported
  BY <1>3 DEF Reported
<1>9. RoundAgrees' /\ RemovedFew'
  BY <1>2, <1>3, <1>8 DEF MxInv, TableInv, RoundAgrees, RemovedFew, InTryRead
<1>10. CompactProgress'
  BY <1>3 DEF MxInv, CompactProgress, CompactGuard, IsRemoved
<1> QED
  BY <1>1, <1>6, <1>7, <1>9, <1>10 DEF MxInv, TableInv

(* There is room for every client: the array holds those that are open and *)
(* those removed in this round, which are no more than the descriptors.    *)
LEMMA RoomForOne ==
  ASSUME MxInv, mpc = "add"
  PROVE  /\ clientCount < MaxClients /\ clientCount \in Nat /\ clientCount \in Entries
         /\ clientFd \in open /\ clientFd \in Fds
<1>1. clientFd \in open /\ clientFd \in Fds
  BY DEF MxInv, TableInv, RoundAgrees, TypeOK
<1>2. toRemove \in Nat /\ clientCount \in Nat /\ readable \in Nat /\ readFd \in Nat
  BY DEF MxInv, TableInv, TypeOK, Counts
<1>3. toRemove <= Cardinality(Fds)
  <2>1. CASE toRemove = 0
    BY <2>1, Capacity
  <2>2. CASE toRemove # 0
    <3>1. rpc \in {"scan", "read", "commit", "compact", "subtract"}
      BY <2>2 DEF MxInv, TableInv, RemovedFew
    <3>2. readable <= Cardinality(Fds)
      BY <3>1 DEF MxInv, TableInv, RemovedFew, InTryRead
    <3>3. rpc \in {"scan", "read"} => readFd <= readable
      <4> SUFFICES ASSUME rpc \in {"scan", "read"} PROVE readFd <= readable
        OBVIOUS
      <4>1. IsFiniteSet(Reported)
        BY Capacity, FS_Subset, Reported \in SUBSET Entries DEF Reported
      <4>2. \A S \in SUBSET Reported : Cardinality(S) <= Cardinality(Reported)
        BY <4>1, FS_Subset
      <4>3. \E S \in SUBSET Reported : readFd = Cardinality(S)
        <5>1. CASE rpc = "scan"
          BY <5>1, {k \in Reported : k < i} \in SUBSET Reported DEF MxInv, TableInv, RoundAgrees
        <5>2. CASE rpc = "read"
          BY <5>2, {k \in Reported : k <= i} \in SUBSET Reported DEF MxInv, TableInv, RoundAgrees
        <5> QED
          BY <5>1, <5>2
      <4>4. readable = Cardinality(Reported)
        BY DEF MxInv, TableInv, RoundAgrees
      <4> QED
        BY <4>2, <4>3, <4>4
    <3>4. toRemove <= readable
      BY <1>2, <3>1, <3>3 DEF MxInv, TableInv, RemovedFew
    <3> QED
      BY <1>2, <3>2, <3>4, Capacity
  <2> QED
    BY <2>1, <2>2
<1>4. /\ Cardinality(open) <= Cardinality(Fds)
      /\ Cardinality(open) = Cardinality(open \ {clientFd}) + 1
      /\ Cardinality(open) \in Nat /\ Cardinality(open \ {clientFd}) \in Nat
  BY <1>1, OpenCounted DEF MxInv, TableInv
<1>5. clientCount = Cardinality(open \ {clientFd}) + toRemove
  BY DEF MxInv, TableInv, CountIsRight
<1>6. clientCount < MaxClients
  BY <1>2, <1>3, <1>4, <1>5, Capacity
<1> QED
  BY <1>1, <1>2, <1>6, Capacity DEF Entries

LEMMA AppendInv ==
  ASSUME MxInv, Append
  PROVE  MxInv'
<1>1. LockOwned'
  BY LockOwnedStep DEF MxInv, Next, Main
<1>2. /\ mpc = "add" /\ mpc' = "trylock"
      /\ clients' = [clients EXCEPT ![clientCount].fd = clientFd]
      /\ clientCount' = clientCount + 1
      /\ clientFd' = REMOVED_CLIENT
      /\ UNCHANGED <<toRemove, firstToRemove, readingLock, quit, rpc, polled, asked,
                     readable, visited, readFd, i, j, removed, counted, cancelled,
                     open, sock>>
  BY DEF Append, readerVars, loopVars, kernelVars
<1>3. /\ clientCount < MaxClients /\ clientCount \in Nat /\ clientCount \in Entries
      /\ clientFd \in open /\ clientFd \in Fds
  BY <1>2, RoomForOne
<1>4. PICK n : n = clientCount
  OBVIOUS
<1>5. PICK new : new = clientFd
  OBVIOUS
<1>6. /\ clients \in [Entries -> [fd : Descriptors, revents : BOOLEAN]]
      /\ open \subseteq Fds
  BY DEF MxInv, TableInv, TypeOK
<1>7. /\ \A k \in Entries : k # n => clients'[k] = clients[k]
      /\ clients'[n].fd = new /\ clients'[n].revents = clients[n].revents
      /\ clients' \in [Entries -> [fd : Descriptors, revents : BOOLEAN]]
  <2>1. [clients[n] EXCEPT !.fd = new] \in [fd : Descriptors, revents : BOOLEAN]
    BY <1>3, <1>4, <1>5, <1>6 DEF Descriptors
  <2>2. clients' = [clients EXCEPT ![n] = [clients[n] EXCEPT !.fd = new]]
    BY <1>2, <1>4, <1>5
  <2>3. n \in Entries
    BY <1>3, <1>4
  <2>4. clients'[n] = [clients[n] EXCEPT !.fd = new]
    BY <1>6, <2>2, <2>3
  <2> QED
    BY <1>6, <2>1, <2>2, <2>3, <2>4
<1>8. TypeOK'
  <2>1. clientCount' \in Counts /\ clientFd' \in Fds \cup {REMOVED_CLIENT}
    BY <1>2, <1>3, Capacity DEF Counts
  <2> QED
    BY <1>2, <1>7, <2>1 DEF MxInv, TableInv, TypeOK
<1>9. /\ \A k \in Entries : clients[k].fd \in (open \ {new}) \cup {REMOVED_CLIENT, STDIN}
      /\ \A k, l \in Entries : clients[k].fd = clients[l].fd /\ k # l => clients[k].fd \notin Fds
      /\ \A k \in 0 .. n - 1 : clients[k].fd # STDIN
      /\ rpc = "read" => clients[i].fd \in open
  BY <1>2, <1>4, <1>5 DEF MxInv, TableInv, EntriesOpen
<1>10. 0 .. clientCount' - 1 = (0 .. n - 1) \cup {n} /\ 0 .. n - 1 \subseteq Entries
  BY <1>2, <1>3, <1>4, Capacity DEF Entries
<1>11. EntriesOpen'
  <2>1. \A k \in Entries : clients'[k].fd \in (open' \ {clientFd'}) \cup {REMOVED_CLIENT, STDIN}
    BY <1>2, <1>3, <1>5, <1>6, <1>7, <1>9, Capacity
  <2>2. \A k, l \in Entries : clients'[k].fd = clients'[l].fd /\ k # l => clients'[k].fd \notin Fds
    BY <1>3, <1>5, <1>7, <1>9, Capacity
  <2>3. \A k \in 0 .. clientCount' - 1 : clients'[k].fd # STDIN
    BY <1>3, <1>5, <1>7, <1>9, <1>10, Capacity
  <2>4. rpc' = "read" => clients'[i'].fd \in open'
    <3>1. rpc = "read" => i \in Entries
      BY <1>2 DEF MxInv, TableInv, RoundAgrees, Reported
    <3> QED
      BY <1>2, <1>3, <1>5, <1>7, <1>9, <3>1
  <2> QED
    BY <2>1, <2>2, <2>3, <2>4 DEF EntriesOpen
<1>12. CountIsRight'
  <2>1. /\ Cardinality(open) = Cardinality(open \ {clientFd}) + 1
        /\ Cardinality(open \ {clientFd}) \in Nat
    BY <1>3, OpenCounted DEF MxInv, TableInv
  <2>2. open' \ {clientFd'} = open
    BY <1>2, <1>6, Capacity
  <2>3. clientCount = Cardinality(open \ {clientFd}) + toRemove /\ toRemove \in Nat
    BY <1>2 DEF MxInv, TableInv, CountIsRight, TypeOK, Counts
  <2>4. PICK c : c = Cardinality(open \ {clientFd})
    OBVIOUS
  <2>5. PICK o : o = Cardinality(open)
    OBVIOUS
  <2>6. clientCount' = o + toRemove
    BY <1>2, <2>1, <2>3, <2>4, <2>5
  <2>7. clientCount' = Cardinality(open' \ {clientFd'}) + toRemove'
    BY <1>2, <2>2, <2>5, <2>6
  <2> QED
    BY <2>7 DEF CountIsRight
<1>13. Reported' = Reported
  <2>1. \A k \in Entries : clients'[k].revents = clients[k].revents
    BY <1>7
  <2> QED
    BY <1>2, <2>1 DEF Reported
<1>14. RoundAgrees'
  <2>1. \A k \in Entries : clients[k].fd \in Fds => clients'[k].fd \in Fds
    BY <1>3, <1>5, <1>7
  <2>2. Reported \subseteq Entries
    BY DEF Reported
  <2>3. rpc \in {"scan", "read"} => visited <= clientCount'
    BY <1>2, <1>3 DEF MxInv, TableInv, RoundAgrees, TypeOK, Counts
  <2> QED
    BY <1>2, <1>13, <2>1, <2>2, <2>3 DEF MxInv, TableInv, RoundAgrees
<1>15. RemovedFew'
  BY <1>2 DEF MxInv, TableInv, RemovedFew, InTryRead
<1>16. CompactProgress'
  <2> SUFFICES ASSUME rpc \in {"compact", "subtract"}
               PROVE  /\ counted <= clientCount'
                      /\ \A k \in j + 1 .. counted - 1 : IsRemoved(k)'
                      /\ \A k \in firstToRemove .. i - 1 : k <= j => ~IsRemoved(k)'
                      /\ \A k \in counted .. clientCount' - 1 : ~IsRemoved(k)'
    BY <1>2 DEF MxInv, CompactProgress, CompactGuard
  <2>1. /\ counted <= n
        /\ removed = counted - 1 - j /\ toRemove <= counted
        /\ \A k \in j + 1 .. counted - 1 : IsRemoved(k)
        /\ \A k \in firstToRemove .. i - 1 : k <= j => ~IsRemoved(k)
        /\ \A k \in counted .. n - 1 : ~IsRemoved(k)
    BY <1>4 DEF MxInv, CompactProgress
  <2>2. /\ counted \in Nat /\ n \in Nat /\ j \in Int /\ j >= -1 /\ firstToRemove \in Nat /\ i \in Nat
        /\ removed \in Nat /\ n < MaxClients
    BY <1>3, <1>4, Capacity DEF MxInv, TableInv, TypeOK, Counts
  <2>3. /\ ~IsRemoved(n)'
        /\ \A k \in 0 .. n - 1 : IsRemoved(k)' <=> IsRemoved(k)
    <3>1. \A k \in 0 .. n - 1 : k \in Entries /\ k # n
      BY <2>2, Capacity DEF Entries
    <3> QED
      BY <3>1, <1>3, <1>5, <1>7, Capacity DEF IsRemoved
  <2>4. \A k \in j + 1 .. counted - 1 : k \in 0 .. n - 1
    BY <2>1, <2>2
  <2>5. \A k \in firstToRemove .. i - 1 : k <= j => k \in 0 .. n - 1
    BY <2>1, <2>2
  <2>6. \A k \in counted .. clientCount' - 1 : k = n \/ (k \in 0 .. n - 1 /\ k \in counted .. n - 1)
    BY <1>2, <1>4, <2>1, <2>2
  <2> QED
    BY <1>2, <1>4, <2>1, <2>2, <2>3, <2>4, <2>5, <2>6
<1> QED
  BY <1>1, <1>8, <1>11, <1>12, <1>14, <1>15, <1>16 DEF MxInv, TableInv

-----------------------------------------------------------------------------
(* The reading thread.  Steps that touch neither the array nor the         *)
(* connections, and only begin or end a part of the round.                 *)

LEMMA ReaderControl ==
  ASSUME MxInv, mpc # "exit", LockOwned', TypeOK', RoundAgrees', RemovedFew', CompactProgress',
         UNCHANGED <<clients, clientCount, toRemove, mpc, clientFd, open>>,
         rpc' # "read"
  PROVE  MxInv'
<1>1. EntriesOpen' /\ CountIsRight'
  BY DEF MxInv, TableInv, EntriesOpen, CountIsRight
<1> QED
  BY <1>1 DEF MxInv, TableInv

LEMMA DieInv ==
  ASSUME MxInv, Die
  PROVE  MxInv'
<1>1. LockOwned'
  BY LockOwnedStep DEF MxInv, Next, Reader
<1>2. /\ mpc # "exit" /\ cancelled /\ rpc \in {"poll", "pause", "read"} /\ rpc' = "dead"
      /\ UNCHANGED <<clients, clientCount, toRemove, firstToRemove, readingLock, mpc,
                     clientFd, quit, polled, asked, readable, visited, readFd, i, j,
                     removed, counted, cancelled, open, sock>>
  BY DEF Die, AtCancellationPoint, tableVars, mainVars, loopVars, kernelVars
<1>3. rpc = "read" => mpc = "joinlast"
  BY <1>2, DeadWhileReading DEF MxInv, InTryRead
<1>4. TypeOK'
  BY <1>2 DEF MxInv, TableInv, TypeOK
<1>5. RoundAgrees'
  BY <1>2 DEF MxInv, TableInv, RoundAgrees
<1>6. RemovedFew'
  BY <1>2, <1>3 DEF MxInv, TableInv, RemovedFew, InTryRead
<1>7. CompactProgress'
  BY <1>2 DEF CompactProgress
<1> QED
  BY <1>1, <1>2, <1>4, <1>5, <1>6, <1>7, ReaderControl

LEMMA CountClientsInv ==
  ASSUME MxInv, CountClients
  PROVE  MxInv'
<1>1. LockOwned'
  BY LockOwnedStep DEF MxInv, Next, Reader
<1>2. /\ mpc # "exit" /\ rpc = "count" /\ rpc' = "call" /\ polled' = clientCount
      /\ UNCHANGED <<clients, clientCount, toRemove, firstToRemove, readingLock, mpc,
                     clientFd, quit, asked, readable, visited, readFd, i, j,
                     removed, counted, cancelled, open, sock>>
  BY DEF CountClients, Alive, tableVars, mainVars, loopVars, kernelVars
<1>3. TypeOK'
  BY <1>2 DEF MxInv, TableInv, TypeOK
<1>4. RoundAgrees' /\ RemovedFew' /\ CompactProgress'
  BY <1>2 DEF MxInv, TableInv, RoundAgrees, RemovedFew, CompactProgress, InTryRead
<1> QED
  BY <1>1, <1>2, <1>3, <1>4, ReaderControl

(* poll is asked about clients that are in the array, each of them once.   *)
LEMMA PollCallInv ==
  ASSUME MxInv, PollCall
  PROVE  MxInv'
<1>1. LockOwned'
  BY LockOwnedStep DEF MxInv, Next, Reader
<1>2. /\ mpc # "exit" /\ rpc = "call" /\ rpc' = "poll"
      /\ asked' = [k \in Entries |-> IF k < polled THEN clients[k].fd ELSE REMOVED_CLIENT]
      /\ UNCHANGED <<clients, clientCount, toRemove, firstToRemove, readingLock, mpc,
                     clientFd, quit, polled, readable, visited, readFd, i, j,
                     removed, counted, cancelled, open, sock>>
  BY DEF PollCall, Alive, tableVars, mainVars, loopVars, kernelVars
<1>3. clients \in [Entries -> [fd : Descriptors, revents : BOOLEAN]]
  BY DEF MxInv, TableInv, TypeOK
<1>4. TypeOK'
  <2>1. asked' \in [Entries -> Descriptors]
    BY <1>2, <1>3 DEF Descriptors
  <2> QED
    BY <1>2, <2>1 DEF MxInv, TableInv, TypeOK
<1>5. RoundAgrees'
  <2>1. \A k \in Entries : asked'[k] \in Fds => k < polled' /\ clients'[k].fd \in Fds
    BY <1>2, Capacity
  <2>2. \A k, l \in Entries : clients[k].fd = clients[l].fd /\ k # l => clients[k].fd \notin Fds
    BY <1>2 DEF MxInv, TableInv, EntriesOpen
  <2>3. \A k, l \in Entries : asked'[k] = asked'[l] /\ k # l => asked'[k] \notin Fds
    <3>1. \A k \in Entries : asked'[k] \in Fds => asked'[k] = clients[k].fd
      BY <1>2, Capacity
    <3> QED
      BY <2>2, <3>1
  <2>4. IF mpc' = "add" THEN clientFd' \in open' ELSE clientFd' = REMOVED_CLIENT
    BY <1>2 DEF MxInv, TableInv, RoundAgrees
  <2> QED
    BY <1>2, <2>1, <2>3, <2>4 DEF RoundAgrees
<1>6. RemovedFew' /\ CompactProgress'
  BY <1>2 DEF MxInv, TableInv, RemovedFew, CompactProgress, InTryRead
<1> QED
  BY <1>1, <1>2, <1>4, <1>5, <1>6, ReaderControl

(* poll's results are about different descriptors.                         *)
LEMMA ReadyAreFew ==
  ASSUME MxInv, mpc # "exit", rpc = "poll"
  PROVE  /\ Cardinality(Ready) <= Cardinality(Fds) /\ Cardinality(Ready) \in Nat
         /\ \A k \in Ready : k \in Entries /\ k < polled /\ clients[k].fd \in Fds
<1>1. /\ \A k \in Entries : asked[k] \in Fds => k < polled /\ clients[k].fd \in Fds
      /\ \A k, l \in Entries : asked[k] = asked[l] /\ k # l => asked[k] \notin Fds
  BY DEF MxInv, TableInv, RoundAgrees
<1>2. IsFiniteSet(Ready)
  BY Capacity, FS_Subset, Ready \in SUBSET Entries DEF Ready
<1>3. \A k \in Ready : k \in Entries /\ asked[k] \in Fds
  BY DEF Ready
<1> DEFINE f == [k \in Ready |-> asked[k]]
<1>4. f \in Injection(Ready, Fds)
  <2>1. f \in [Ready -> Fds]
    BY <1>3
  <2>2. \A k, l \in Ready : f[k] = f[l] => k = l
    BY <1>1, <1>3
  <2> QED
    BY <2>1, <2>2 DEF Injection, IsInjective
<1>5. Cardinality(Ready) <= Cardinality(Fds)
  BY <1>4, Capacity, FS_Injection
<1> QED
  BY <1>1, <1>2, <1>3, <1>5, FS_CardinalityType

LEMMA PollReturnInv ==
  ASSUME MxInv, PollReturn
  PROVE  MxInv'
<1>1. LockOwned'
  BY LockOwnedStep DEF MxInv, Next, Reader
<1>2. /\ mpc # "exit" /\ rpc = "poll" /\ rpc' = "trylock"
      /\ clients' = [k \in Entries |->
           IF k < polled THEN [clients[k] EXCEPT !.revents = k \in Ready] ELSE clients[k]]
      /\ readable' = Cardinality(Ready) /\ asked' = NothingAsked
      /\ UNCHANGED <<clientCount, toRemove, firstToRemove, readingLock, mpc, clientFd,
                     quit, polled, visited, readFd, i, j, removed, counted, cancelled,
                     open, sock>>
  BY DEF PollReturn, Alive, mainVars, kernelVars
<1>3. /\ clients \in [Entries -> [fd : Descriptors, revents : BOOLEAN]]
      /\ {clientCount, toRemove, firstToRemove} \subseteq Counts
  BY DEF MxInv, TableInv, TypeOK
<1>4. /\ Cardinality(Ready) <= Cardinality(Fds) /\ Cardinality(Ready) \in Nat
      /\ \A k \in Ready : k \in Entries /\ k < polled /\ clients[k].fd \in Fds
  BY <1>2, ReadyAreFew
<1>5. PICK R : R = Ready
  OBVIOUS
<1>6. PICK c : c = clients
  OBVIOUS
<1>7. \A k \in Entries : /\ clients'[k] \in [fd : Descriptors, revents : BOOLEAN]
                         /\ clients'[k].fd = c[k].fd
                         /\ k < polled => (clients'[k].revents <=> k \in R)
  <2> SUFFICES ASSUME NEW k \in Entries
               PROVE  /\ clients'[k] \in [fd : Descriptors, revents : BOOLEAN]
                      /\ clients'[k].fd = c[k].fd
                      /\ k < polled => (clients'[k].revents <=> k \in R)
    OBVIOUS
  <2>1. c[k] \in [fd : Descriptors, revents : BOOLEAN]
    BY <1>3, <1>6
  <2>2. (k \in R) \in BOOLEAN
    OBVIOUS
  <2>3. CASE k < polled
    <3>1. PICK b \in BOOLEAN : b = (k \in R)
      BY <2>2
    <3>2. clients'[k] = [c[k] EXCEPT !.revents = k \in R]
      BY <1>2, <1>5, <1>6, <2>3, Zenon
    <3>3. clients'[k] = [c[k] EXCEPT !.revents = b]
      BY <3>1, <3>2, Zenon
    <3>4. /\ clients'[k] \in [fd : Descriptors, revents : BOOLEAN]
          /\ clients'[k].fd = c[k].fd /\ clients'[k].revents = b
      BY <2>1, <3>3
    <3> QED
      BY <3>1, <3>4, Zenon
  <2>4. CASE ~(k < polled)
    <3>1. clients'[k] = c[k]
      BY <1>2, <1>6, <2>4, Zenon
    <3> QED
      BY <2>1, <2>4, <3>1, Zenon
  <2> QED
    BY <2>3, <2>4
<1>8. TypeOK'
  <2>1. clients' \in [Entries -> [fd : Descriptors, revents : BOOLEAN]]
    <3>1. clients' = [k \in Entries |-> clients'[k]]
      BY <1>2, Zenon
    <3> QED
      BY <1>7, <3>1, Zenon
  <2>2. asked' \in [Entries -> Descriptors]
    BY <1>2 DEF NothingAsked, Descriptors
  <2>3. readable' \in Counts
    BY <1>2, <1>4, Capacity DEF Counts
  <2> QED
    BY <1>2, <2>1, <2>2, <2>3 DEF MxInv, TableInv, TypeOK
<1>9. EntriesOpen'
  <2>1. /\ \A k \in Entries : c[k].fd \in (open \ {clientFd}) \cup {REMOVED_CLIENT, STDIN}
        /\ \A k, l \in Entries : c[k].fd = c[l].fd /\ k # l => c[k].fd \notin Fds
        /\ \A k \in 0 .. clientCount - 1 : c[k].fd # STDIN
    BY <1>2, <1>6 DEF MxInv, TableInv, EntriesOpen
  <2>2. 0 .. clientCount - 1 \subseteq Entries
    BY <1>3, Capacity DEF Entries, Counts
  <2>3. /\ \A k \in Entries : clients'[k].fd \in (open \ {clientFd}) \cup {REMOVED_CLIENT, STDIN}
        /\ \A k, l \in Entries : clients'[k].fd = clients'[l].fd /\ k # l => clients'[k].fd \notin Fds
        /\ \A k \in 0 .. clientCount - 1 : clients'[k].fd # STDIN
    BY <1>7, <2>1, <2>2
  <2> QED
    BY <1>2, <2>3 DEF EntriesOpen
<1>10. CountIsRight'
  BY <1>2 DEF MxInv, TableInv, CountIsRight
<1>11. Reported' = R
  <2>1. Reported' = {k \in Entries : k < polled /\ clients'[k].revents}
    BY <1>2 DEF Reported
  <2>2. \A k \in Entries : (k < polled /\ clients'[k].revents) <=> k \in R
    BY <1>4, <1>5, <1>7, Zenon
  <2> QED
    BY <1>4, <1>5, <2>1, <2>2, Zenon
<1>12. RoundAgrees'
  <2>1. IF mpc' = "add" THEN clientFd' \in open' ELSE clientFd' = REMOVED_CLIENT
    BY <1>2 DEF MxInv, TableInv, RoundAgrees
  <2>2. readable' = Cardinality(Reported')
    BY <1>2, <1>5, <1>11
  <2>3. \A k \in Reported' : clients'[k].fd \in Fds
    BY <1>4, <1>5, <1>6, <1>7, <1>11
  <2> QED
    BY <1>2, <2>1, <2>2, <2>3 DEF RoundAgrees
<1>13. RemovedFew' /\ CompactProgress'
  BY <1>2, <1>4 DEF MxInv, TableInv, RemovedFew, CompactProgress, InTryRead
<1> QED
  BY <1>1, <1>8, <1>9, <1>10, <1>12, <1>13 DEF MxInv, TableInv

LEMMA ReaderTryLockInv ==
  ASSUME MxInv, ReaderTryLock
  PROVE  MxInv'
<1>1. LockOwned'
  BY LockOwnedStep DEF MxInv, Next, Reader
<1>2. /\ mpc # "exit" /\ rpc = "trylock" /\ rpc' \in {"enter", "pause"}
      /\ readingLock' \in {readingLock, "reader"}
      /\ UNCHANGED <<clients, clientCount, toRemove, firstToRemove, mpc, clientFd,
                     quit, polled, asked, readable, visited, readFd, i, j, removed,
                     counted, cancelled, open, sock>>
  BY DEF ReaderTryLock, Alive, tableVars, mainVars, loopVars, kernelVars
<1>3. TypeOK'
  BY <1>2 DEF MxInv, TableInv, TypeOK
<1>4. Reported' = Reported
  BY <1>2 DEF Reported
<1>5. RoundAgrees' /\ RemovedFew' /\ CompactProgress'
  BY <1>2, <1>4 DEF MxInv, TableInv, RoundAgrees, RemovedFew, CompactProgress, InTryRead
<1> QED
  BY <1>1, <1>2, <1>3, <1>5, ReaderControl

LEMMA EnterTryReadInv ==
  ASSUME MxInv, EnterTryRead
  PROVE  MxInv'
<1>1. LockOwned'
  BY LockOwnedStep DEF MxInv, Next, Reader
<1>2. /\ mpc # "exit" /\ rpc = "enter" /\ rpc' = "scan"
      /\ visited' = clientCount /\ readFd' = 0 /\ i' = 0
      /\ UNCHANGED <<clients, clientCount, toRemove, firstToRemove, readingLock, mpc,
                     clientFd, quit, polled, asked, readable, j, removed, counted,
                     cancelled, open, sock>>
  BY DEF EnterTryRead, Alive, tableVars, mainVars, kernelVars
<1>3. TypeOK'
  <2>1. 0 \in Counts
    BY Capacity DEF Counts
  <2> QED
    BY <1>2, <2>1 DEF MxInv, TableInv, TypeOK
<1>4. Reported' = Reported /\ Reported \subseteq Entries
  BY <1>2 DEF Reported
<1>5. RoundAgrees'
  <2>1. {k \in Reported : k < 0} = {}
    <3>1. \A k \in Reported : k >= 0 /\ k \in Int
      BY <1>4, Capacity DEF Entries
    <3> QED
      BY <3>1
  <2>2. readFd' = Cardinality({k \in Reported' : k < i'})
    BY <1>2, <1>4, <2>1, FS_EmptySet
  <2>3. visited' <= clientCount'
    BY <1>2 DEF MxInv, TableInv, TypeOK, Counts
  <2>4. \A k \in Reported' : k >= i' => clients'[k].fd \in Fds
    BY <1>2, <1>4 DEF MxInv, TableInv, RoundAgrees
  <2>5. /\ IF mpc' = "add" THEN clientFd' \in open' ELSE clientFd' = REMOVED_CLIENT
        /\ readable' = Cardinality(Reported')
    BY <1>2, <1>4 DEF MxInv, TableInv, RoundAgrees
  <2> QED
    BY <1>2, <2>2, <2>3, <2>4, <2>5 DEF RoundAgrees
<1>6. RemovedFew' /\ CompactProgress'
  <2>1. toRemove = 0
    BY <1>2 DEF MxInv, TableInv, RemovedFew
  <2> QED
    BY <1>2, <2>1 DEF MxInv, TableInv, RemovedFew, CompactProgress, InTryRead
<1> QED
  BY <1>1, <1>2, <1>3, <1>5, <1>6, ReaderControl

LEMMA ReportedFinite ==
  ASSUME NEW S \in SUBSET Reported
  PROVE  /\ IsFiniteSet(S) /\ Cardinality(S) \in Nat
         /\ Cardinality(S) <= Cardinality(Reported)
<1>1. IsFiniteSet(Reported)
  BY Capacity, FS_Subset, Reported \in SUBSET Entries DEF Reported
<1> QED
  BY <1>1, FS_Subset, FS_CardinalityType

(* While try_read has read fewer clients than poll reported, the next one  *)
(* that is ready is one of those poll reported now, and not the rest of an *)
(* older report behind them.                                               *)
LEMMA ScanFindsReported ==
  ASSUME MxInv, mpc # "exit", rpc = "scan", readFd < readable,
         NEW k \in i .. visited - 1, clients[k].revents,
         \A l \in i .. visited - 1 : clients[l].revents => k <= l
  PROVE  /\ k \in Reported
         /\ {l \in Reported : l <= k} = {l \in Reported : l < i} \cup {k}
<1>1. /\ visited <= clientCount /\ readable = Cardinality(Reported)
      /\ readFd = Cardinality({l \in Reported : l < i})
  BY DEF MxInv, TableInv, RoundAgrees
<1>2. /\ visited \in Nat /\ clientCount \in Nat /\ i \in Nat /\ polled \in Nat
      /\ clientCount <= MaxClients /\ polled <= MaxClients
  BY Capacity DEF MxInv, TableInv, TypeOK, Counts
<1>3. k \in Entries
  BY <1>1, <1>2, Capacity DEF Entries
<1>4. Reported = {l \in Entries : l < polled /\ clients[l].revents}
  BY DEF Reported
<1>5. \A l \in Reported : l \in Nat
  BY <1>4, Capacity DEF Entries
<1>6. PICK q \in Reported : q >= i
  <2>1. CASE \A q \in Reported : ~(q >= i)
    <3>1. {l \in Reported : l < i} = Reported
      BY <1>2, <1>5, <2>1
    <3>2. readFd = readable /\ readable \in Int
      BY <1>1, <3>1, ReportedFinite
    <3> QED
      BY <3>2
  <2> QED
    BY <2>1
<1>7. k <= q
  <2>1. CASE q \in i .. visited - 1
    BY <1>4, <1>6, <2>1
  <2>2. CASE q \notin i .. visited - 1
    BY <1>2, <1>5, <1>6, <2>2
  <2> QED
    BY <2>1, <2>2
<1>8. k \in Reported
  BY <1>2, <1>3, <1>4, <1>5, <1>7
<1>9. \A l \in Reported : l <= k => l < i \/ l = k
  <2> SUFFICES ASSUME NEW l \in Reported, l <= k, ~(l < i) PROVE l = k
    OBVIOUS
  <2>1. l \in i .. visited - 1 /\ clients[l].revents
    BY <1>2, <1>4, <1>5
  <2> QED
    BY <2>1, <1>5, <1>8
<1>10. \A l \in Reported : l < i => l <= k
  BY <1>2, <1>5
<1> QED
  BY <1>8, <1>9, <1>10

LEMMA ScanInv ==
  ASSUME MxInv, Scan
  PROVE  MxInv'
<1>1. LockOwned'
  BY LockOwnedStep DEF MxInv, Next, Reader
<1>2. /\ mpc # "exit" /\ rpc = "scan"
      /\ UNCHANGED <<clients, clientCount, toRemove, firstToRemove, readingLock, mpc,
                     clientFd, quit, polled, asked, readable, visited, j, removed,
                     counted, cancelled, open, sock>>
  BY DEF Scan, Alive, tableVars, mainVars, kernelVars
<1>3. Reported' = Reported
  BY <1>2 DEF Reported
<1>4. /\ readable = Cardinality(Reported) /\ visited <= clientCount
      /\ readFd = Cardinality({k \in Reported : k < i})
      /\ toRemove <= readFd /\ readable <= Cardinality(Fds)
      /\ IF mpc = "add" THEN clientFd \in open ELSE clientFd = REMOVED_CLIENT
      /\ \A k \in Reported : k >= i => clients[k].fd \in Fds
  BY <1>2 DEF MxInv, TableInv, RoundAgrees, RemovedFew, InTryRead
<1>5. /\ readFd \in Nat /\ readable \in Nat /\ toRemove \in Nat /\ i \in Nat
      /\ visited \in Nat /\ Cardinality(Fds) \in Nat
  BY Capacity DEF MxInv, TableInv, TypeOK, Counts
<1>6. CASE rpc' = "commit" /\ UNCHANGED <<readFd, i>>
  <2>1. TypeOK'
    BY <1>2, <1>6 DEF MxInv, TableInv, TypeOK
  <2>2. readFd <= readable
    BY <1>4, ReportedFinite, {k \in Reported : k < i} \in SUBSET Reported
  <2>3. toRemove' <= readable'
    BY <1>2, <1>4, <1>5, <2>2
  <2>4. RoundAgrees'
    BY <1>2, <1>4, <1>6 DEF RoundAgrees
  <2>5. RemovedFew' /\ CompactProgress'
    BY <1>2, <1>4, <1>6, <2>3 DEF RemovedFew, CompactProgress, InTryRead
  <2> QED
    BY <1>1, <1>2, <1>6, <2>1, <2>4, <2>5, ReaderControl
<1>7. ASSUME NEW k \in i .. visited - 1, clients[k].revents,
             \A l \in i .. visited - 1 : clients[l].revents => k <= l,
             readFd < readable, i' = k, readFd' = readFd + 1, rpc' = "read"
      PROVE  MxInv'
  <2>1. k \in Reported /\ {l \in Reported : l <= k} = {l \in Reported : l < i} \cup {k}
    BY <1>2, <1>7, ScanFindsReported
  <2>2. k \in Entries /\ k \in Nat /\ k >= i /\ k < visited
    BY <1>5, <1>7, <2>1 DEF Reported
  <2>3. readFd' = Cardinality({l \in Reported : l <= k})
    <3>1. k \notin {l \in Reported : l < i}
      BY <1>5, <2>2
    <3>2. IsFiniteSet({l \in Reported : l < i})
      BY ReportedFinite, {l \in Reported : l < i} \in SUBSET Reported
    <3> QED
      BY <1>4, <1>7, <2>1, <3>1, <3>2, FS_AddElement
  <2>4. readFd' <= readable
    BY <2>3, <1>4, ReportedFinite, {l \in Reported : l <= k} \in SUBSET Reported
  <2>5. TypeOK'
    <3>1. i' \in Counts /\ readFd' \in Counts
      <4>1. k < MaxClients /\ readable <= MaxClients
        BY <2>2, Capacity DEF Entries, MxInv, TableInv, TypeOK, Counts
      <4> QED
        BY <1>5, <1>7, <2>2, <2>4, <4>1, Capacity DEF Counts
    <3> QED
      BY <1>2, <1>7, <3>1 DEF MxInv, TableInv, TypeOK
  <2>6. clients[k].fd \in Fds /\ clients[k].fd \in open
    <3>1. clients[k].fd \in Fds
      BY <1>4, <2>1, <2>2
    <3>2. clients[k].fd \in (open \ {clientFd}) \cup {REMOVED_CLIENT, STDIN}
      BY <1>2, <2>2 DEF MxInv, TableInv, EntriesOpen
    <3> QED
      BY <3>1, <3>2, Capacity
  <2>7. EntriesOpen'
    <3>1. clients'[i'].fd \in open'
      BY <1>2, <1>7, <2>6
    <3> QED
      BY <1>2, <3>1 DEF MxInv, TableInv, EntriesOpen
  <2>8. CountIsRight'
    BY <1>2 DEF MxInv, TableInv, CountIsRight
  <2>9. RoundAgrees'
    <3>1. i' \in Reported' /\ i' < visited' /\ readFd' = Cardinality({l \in Reported' : l <= i'})
      BY <1>2, <1>3, <1>7, <2>1, <2>2, <2>3
    <3>2. \A l \in Reported' : l >= i' => clients'[l].fd \in Fds
      <4>1. \A l \in Reported : l >= k => l >= i
        BY <1>5, <2>2, Capacity DEF Reported, Entries
      <4> QED
        BY <1>2, <1>3, <1>4, <1>7, <4>1
    <3>3. readable' = Cardinality(Reported') /\ visited' <= clientCount'
      BY <1>2, <1>3, <1>4
    <3>4. IF mpc' = "add" THEN clientFd' \in open' ELSE clientFd' = REMOVED_CLIENT
      BY <1>2, <1>4
    <3> QED
      BY <1>7, <3>1, <3>2, <3>3, <3>4 DEF RoundAgrees
  <2>10. RemovedFew'
    <3>1. toRemove' < readFd'
      BY <1>2, <1>4, <1>5, <1>7
    <3> QED
      BY <1>2, <1>4, <1>7, <3>1 DEF RemovedFew, InTryRead
  <2>11. CompactProgress'
    BY <1>7 DEF CompactProgress
  <2> QED
    BY <1>1, <2>5, <2>7, <2>8, <2>9, <2>10, <2>11 DEF MxInv, TableInv
<1>8. \/ rpc' = "commit" /\ UNCHANGED <<readFd, i>>
      \/ \E k \in i .. visited - 1 :
           /\ clients[k].revents
           /\ \A l \in i .. visited - 1 : clients[l].revents => k <= l
           /\ readFd < readable /\ i' = k /\ readFd' = readFd + 1 /\ rpc' = "read"
  BY DEF Scan
<1> QED
  BY <1>6, <1>7, <1>8

LEMMA ReadDataInv ==
  ASSUME MxInv, ReadData
  PROVE  MxInv'
<1>1. LockOwned'
  BY LockOwnedStep DEF MxInv, Next, Reader
<1>2. /\ mpc # "exit" /\ rpc = "read"
      /\ sock' = [sock EXCEPT ![clients[i].fd] = "quiet"]
      /\ UNCHANGED <<clients, clientCount, toRemove, firstToRemove, readingLock, mpc,
                     clientFd, quit, rpc, polled, asked, readable, visited, readFd, i, j,
                     removed, counted, cancelled, open>>
  BY DEF ReadData, Alive, tableVars, mainVars, readerVars, loopVars
<1>3. TypeOK'
  <2>1. sock' \in [Fds -> {"quiet", "data", "end"}]
    BY <1>2 DEF MxInv, TableInv, TypeOK
  <2> QED
    BY <1>2, <2>1 DEF MxInv, TableInv, TypeOK
<1>4. Reported' = Reported
  BY <1>2 DEF Reported
<1>5. EntriesOpen' /\ CountIsRight'
  BY <1>2 DEF MxInv, TableInv, EntriesOpen, CountIsRight
<1>6. RoundAgrees' /\ RemovedFew' /\ CompactProgress'
  BY <1>2, <1>4 DEF MxInv, TableInv, RoundAgrees, RemovedFew, CompactProgress, InTryRead
<1> QED
  BY <1>1, <1>3, <1>5, <1>6 DEF MxInv, TableInv

LEMMA PeerDoesInv ==
  ASSUME MxInv, NEW fd \in Fds, PeerDoes(fd)
  PROVE  MxInv'
<1>1. LockOwned'
  BY LockOwnedStep DEF MxInv, Next
<1>2. /\ mpc # "exit"
      /\ \E c \in {"data", "end"} : sock' = [sock EXCEPT ![fd] = c]
      /\ UNCHANGED <<clients, clientCount, toRemove, firstToRemove, readingLock, mpc,
                     clientFd, quit, rpc, polled, asked, readable, visited, readFd, i, j,
                     removed, counted, cancelled, open>>
  BY DEF PeerDoes, tableVars, mainVars, readerVars, loopVars
<1>3. TypeOK'
  <2>1. sock' \in [Fds -> {"quiet", "data", "end"}]
    BY <1>2 DEF MxInv, TableInv, TypeOK
  <2> QED
    BY <1>2, <2>1 DEF MxInv, TableInv, TypeOK
<1>4. Reported' = Reported
  BY <1>2 DEF Reported
<1>5. EntriesOpen' /\ CountIsRight'
  BY <1>2 DEF MxInv, TableInv, EntriesOpen, CountIsRight
<1>6. RoundAgrees' /\ RemovedFew'
  BY <1>2, <1>4 DEF MxInv, TableInv, RoundAgrees, RemovedFew, InTryRead
<1>7. CompactProgress'
  BY <1>2 DEF MxInv, CompactProgress, CompactGuard, IsRemoved
<1> QED
  BY <1>1, <1>3, <1>5, <1>6, <1>7 DEF MxInv, TableInv

(* The client that is read is in use, is not the one main is adding, and   *)
(* is in the array once: closing it leaves no trace of it there.           *)
LEMMA ReadEndInv ==
  ASSUME MxInv, ReadEnd
  PROVE  MxInv'
<1>1. LockOwned'
  BY LockOwnedStep DEF MxInv, Next, Reader
<1>2. /\ mpc # "exit" /\ rpc = "read" /\ rpc' = "scan" /\ i' = i + 1
      /\ UNCHANGED <<clientCount, readingLock, mpc, clientFd, quit, polled, asked, readable,
                     visited, readFd, j, removed, counted, cancelled>>
  BY DEF ReadEnd, Alive, mainVars
<1>3. PICK n : n = i
  OBVIOUS
<1>4. /\ i \in Reported /\ i \in Entries /\ i \in Nat /\ i < MaxClients
      /\ readFd = Cardinality({k \in Reported : k <= i})
      /\ readable = Cardinality(Reported) /\ visited <= clientCount
      /\ \A k \in Reported : k >= i => clients[k].fd \in Fds
      /\ IF mpc = "add" THEN clientFd \in open ELSE clientFd = REMOVED_CLIENT
      /\ toRemove < readFd /\ readable <= Cardinality(Fds)
  BY <1>2, Capacity DEF MxInv, TableInv, RoundAgrees, RemovedFew, InTryRead, Reported, Entries
<1>5. /\ toRemove \in Nat /\ readFd \in Nat /\ readFd <= MaxClients /\ firstToRemove \in Counts
      /\ clients \in [Entries -> [fd : Descriptors, revents : BOOLEAN]]
      /\ open \subseteq Fds /\ sock \in [Fds -> {"quiet", "data", "end"}]
      /\ clientCount \in Nat /\ clientCount <= MaxClients
  BY Capacity DEF MxInv, TableInv, TypeOK, Counts
<1>6. PICK fd : fd = clients[i].fd
  OBVIOUS
<1>7. /\ fd \in open /\ fd \in Fds /\ fd # REMOVED_CLIENT /\ fd # clientFd
      /\ \A k \in Entries : clients[k].fd \in (open \ {clientFd}) \cup {REMOVED_CLIENT, STDIN}
      /\ \A k, l \in Entries : clients[k].fd = clients[l].fd /\ k # l => clients[k].fd \notin Fds
      /\ \A k \in 0 .. clientCount - 1 : clients[k].fd # STDIN
  <2>1. /\ fd \in open
        /\ \A k \in Entries : clients[k].fd \in (open \ {clientFd}) \cup {REMOVED_CLIENT, STDIN}
        /\ \A k, l \in Entries : clients[k].fd = clients[l].fd /\ k # l => clients[k].fd \notin Fds
        /\ \A k \in 0 .. clientCount - 1 : clients[k].fd # STDIN
    BY <1>2, <1>6 DEF MxInv, TableInv, EntriesOpen
  <2>2. fd \in Fds
    BY <1>5, <2>1
  <2> QED
    BY <1>4, <1>6, <2>1, <2>2, Capacity
<1>8. /\ open' = open \ {fd} /\ sock' = [sock EXCEPT ![fd] = "quiet"]
      /\ clients' = [clients EXCEPT ![i].fd = REMOVED_CLIENT]
      /\ toRemove' = toRemove + 1
      /\ firstToRemove' \in {firstToRemove, i}
  BY <1>6, <1>7 DEF ReadEnd, RemoveClient, OneMore
<1>9. /\ \A k \in Entries : k # n => clients'[k] = clients[k]
      /\ clients'[n].fd = REMOVED_CLIENT /\ clients'[n].revents = clients[n].revents
      /\ clients' \in [Entries -> [fd : Descriptors, revents : BOOLEAN]]
  <2>1. [clients[n] EXCEPT !.fd = REMOVED_CLIENT] \in [fd : Descriptors, revents : BOOLEAN]
    BY <1>3, <1>4, <1>5 DEF Descriptors
  <2>2. clients' = [clients EXCEPT ![n] = [clients[n] EXCEPT !.fd = REMOVED_CLIENT]]
    BY <1>3, <1>8
  <2>3. n \in Entries
    BY <1>3, <1>4
  <2>4. clients'[n] = [clients[n] EXCEPT !.fd = REMOVED_CLIENT]
    BY <1>5, <2>2, <2>3
  <2> QED
    BY <1>5, <2>1, <2>2, <2>3, <2>4
<1>10. TypeOK'
  <2>1. /\ i' \in Counts /\ toRemove' \in Counts /\ firstToRemove' \in Counts
    BY <1>2, <1>4, <1>5, <1>8, Capacity DEF Counts
  <2>2. open' \in SUBSET Fds /\ sock' \in [Fds -> {"quiet", "data", "end"}]
    BY <1>5, <1>8
  <2> QED
    BY <1>2, <1>9, <2>1, <2>2 DEF MxInv, TableInv, TypeOK
<1>11. EntriesOpen'
  <2>1. \A k \in Entries : k # n => clients'[k].fd # fd
    BY <1>3, <1>4, <1>6, <1>7, <1>9
  <2>2. \A k \in Entries : clients'[k].fd \in (open' \ {clientFd'}) \cup {REMOVED_CLIENT, STDIN}
    BY <1>2, <1>7, <1>8, <1>9, <2>1
  <2>3. \A k, l \in Entries : clients'[k].fd = clients'[l].fd /\ k # l => clients'[k].fd \notin Fds
    BY <1>7, <1>9, Capacity
  <2>4. 0 .. clientCount' - 1 = 0 .. clientCount - 1 /\ 0 .. clientCount - 1 \subseteq Entries
    BY <1>2, <1>5, Capacity DEF Entries
  <2>5. \A k \in 0 .. clientCount' - 1 : clients'[k].fd # STDIN
    BY <1>7, <1>9, <2>4, Capacity
  <2> QED
    BY <1>2, <2>2, <2>3, <2>5 DEF EntriesOpen
<1>12. CountIsRight'
  <2>1. PICK S : S = open \ {clientFd}
    OBVIOUS
  <2>2. IsFiniteSet(S) /\ Cardinality(S) \in Nat /\ fd \in S
    BY <1>7, <2>1, OpenCounted DEF MxInv, TableInv
  <2>3. PICK c : c = Cardinality(S)
    OBVIOUS
  <2>4. Cardinality(S \ {fd}) = c - 1
    BY <2>2, <2>3, FS_RemoveElement
  <2>5. open' \ {clientFd'} = S \ {fd}
    BY <1>2, <1>8, <2>1
  <2>6. clientCount = c + toRemove
    BY <1>2, <2>1, <2>3 DEF MxInv, TableInv, CountIsRight
  <2>7. PICK d : d = Cardinality(open' \ {clientFd'})
    OBVIOUS
  <2>8. d = c - 1
    BY <2>4, <2>5, <2>7
  <2>9. clientCount' = d + toRemove'
    BY <1>2, <1>5, <1>8, <2>2, <2>3, <2>6, <2>8
  <2> QED
    BY <2>7, <2>9 DEF CountIsRight
<1>13. Reported' = Reported /\ Reported \subseteq Nat
  <2>1. \A k \in Entries : clients'[k].revents = clients[k].revents
    BY <1>9
  <2> QED
    BY <1>2, <2>1, Capacity DEF Reported, Entries
<1>14. RoundAgrees'
  <2>1. \A k \in Reported : k < i + 1 <=> k <= i
    BY <1>4, <1>13
  <2>2. readFd' = Cardinality({k \in Reported' : k < i'})
    <3>1. {k \in Reported' : k < i'} = {k \in Reported : k <= i}
      BY <1>2, <1>13, <2>1
    <3> QED
      BY <1>2, <1>4, <3>1
  <2>3. \A k \in Reported' : k >= i' => clients'[k].fd \in Fds
    <3>1. \A k \in Reported : k >= i + 1 => k >= i /\ k # n /\ k \in Entries
      BY <1>3, <1>4, <1>13 DEF Reported
    <3> QED
      BY <1>2, <1>4, <1>9, <1>13, <3>1
  <2>4. IF mpc' = "add" THEN clientFd' \in open' ELSE clientFd' = REMOVED_CLIENT
    BY <1>2, <1>4, <1>7, <1>8
  <2>5. readable' = Cardinality(Reported') /\ visited' <= clientCount'
    BY <1>2, <1>4, <1>13
  <2> QED
    BY <1>2, <2>2, <2>3, <2>4, <2>5 DEF RoundAgrees
<1>15. RemovedFew' /\ CompactProgress'
  <2>1. toRemove' <= readFd'
    BY <1>2, <1>4, <1>5, <1>8
  <2> QED
    BY <1>2, <1>4, <2>1 DEF RemovedFew, CompactProgress, InTryRead
<1> QED
  BY <1>1, <1>10, <1>11, <1>12, <1>14, <1>15 DEF MxInv, TableInv

LEMMA CommitBeginInv ==
  ASSUME MxInv, CommitBegin
  PROVE  MxInv'
<1>1. LockOwned'
  BY LockOwnedStep DEF MxInv, Next, Reader
<1>2. /\ mpc # "exit" /\ rpc = "commit"
      /\ IF toRemove = 0
           THEN rpc' = "unlock" /\ UNCHANGED <<i, j, removed, counted>>
           ELSE /\ rpc' = "compact"
                /\ i' = firstToRemove /\ j' = clientCount - 1
                /\ removed' = 0 /\ counted' = clientCount
      /\ UNCHANGED <<clients, clientCount, toRemove, firstToRemove, readingLock, mpc, clientFd,
                     quit, polled, asked, readable, visited, readFd, cancelled, open, sock>>
  BY DEF CommitBegin, Alive, tableVars, mainVars, kernelVars
<1>3. /\ clientCount \in Nat /\ clientCount <= MaxClients /\ toRemove \in Nat
      /\ firstToRemove \in Nat /\ firstToRemove <= MaxClients
  BY Capacity DEF MxInv, TableInv, TypeOK, Counts
<1>4. toRemove <= clientCount
  <2>1. PICK c : c = Cardinality(open \ {clientFd})
    OBVIOUS
  <2>2. c \in Nat
    BY <2>1, OpenCounted DEF MxInv, TableInv
  <2>3. clientCount = c + toRemove
    BY <1>2, <2>1 DEF MxInv, TableInv, CountIsRight
  <2> QED
    BY <1>3, <2>2, <2>3
<1>5. TypeOK'
  <2>1. {i', removed', counted'} \subseteq Counts /\ j' \in Counts \cup {-1}
    <3>1. CASE toRemove = 0
      BY <1>2, <3>1 DEF MxInv, TableInv, TypeOK
    <3>2. CASE toRemove # 0
      BY <1>2, <1>3, <3>2, Capacity DEF Counts
    <3> QED
      BY <3>1, <3>2
  <2> QED
    BY <1>2, <2>1 DEF MxInv, TableInv, TypeOK
<1>6. RoundAgrees'
  BY <1>2 DEF MxInv, TableInv, RoundAgrees
<1>7. RemovedFew'
  BY <1>2 DEF MxInv, TableInv, RemovedFew, InTryRead
<1>8. CompactProgress'
  <2>1. CASE toRemove = 0
    BY <1>2, <2>1 DEF CompactProgress
  <2>2. CASE toRemove # 0
    <3>1. /\ j' + 1 .. counted' - 1 = {} /\ firstToRemove' .. i' - 1 = {}
          /\ counted' .. clientCount' - 1 = {}
      BY <1>2, <1>3, <2>2
    <3>2. /\ toRemove' <= counted' /\ counted' <= clientCount'
          /\ removed' = counted' - 1 - j' /\ firstToRemove' <= i'
      BY <1>2, <1>3, <1>4, <2>2
    <3> QED
      BY <1>2, <2>2, <3>1, <3>2 DEF CompactProgress
  <2> QED
    BY <2>1, <2>2
<1> QED
  BY <1>1, <1>2, <1>5, <1>6, <1>7, <1>8, ReaderControl

LEMMA CompactEndInv ==
  ASSUME MxInv, CompactEnd
  PROVE  MxInv'
<1>1. LockOwned'
  BY LockOwnedStep DEF MxInv, Next, Reader
<1>2. /\ mpc # "exit" /\ rpc = "compact" /\ ~CompactGuard /\ rpc' = "subtract"
      /\ UNCHANGED <<clients, clientCount, toRemove, firstToRemove, readingLock, mpc,
                     clientFd, quit, polled, asked, readable, visited, readFd, i, j,
                     removed, counted, cancelled, open, sock>>
  BY DEF CompactEnd, Alive, tableVars, mainVars, loopVars, kernelVars
<1>3. TypeOK'
  BY <1>2 DEF MxInv, TableInv, TypeOK
<1>4. RoundAgrees' /\ RemovedFew'
  BY <1>2 DEF MxInv, TableInv, RoundAgrees, RemovedFew, InTryRead
<1>5. CompactProgress'
  BY <1>2 DEF MxInv, CompactProgress, CompactGuard, IsRemoved
<1> QED
  BY <1>1, <1>2, <1>3, <1>4, <1>5, ReaderControl

LEMMA SubtractInv ==
  ASSUME MxInv, Subtract
  PROVE  MxInv'
<1>1. LockOwned'
  BY LockOwnedStep DEF MxInv, Next, Reader
<1>2. /\ mpc # "exit" /\ rpc = "subtract" /\ rpc' = "unlock"
      /\ clientCount' = clientCount - toRemove /\ toRemove' = 0 /\ firstToRemove' = 0
      /\ UNCHANGED <<clients, readingLock, mpc, clientFd, quit, polled, asked, readable,
                     visited, readFd, i, j, removed, counted, cancelled, open, sock>>
  BY DEF Subtract, Alive, mainVars, loopVars, kernelVars
<1>3. /\ clientCount \in Nat /\ clientCount <= MaxClients /\ toRemove \in Nat /\ counted \in Nat
      /\ toRemove <= counted /\ counted <= clientCount
  BY <1>2, Capacity DEF MxInv, TableInv, TypeOK, Counts, CompactProgress
<1>4. TypeOK'
  <2>1. {clientCount', toRemove', firstToRemove'} \subseteq Counts
    BY <1>2, <1>3, Capacity DEF Counts
  <2> QED
    BY <1>2, <2>1 DEF MxInv, TableInv, TypeOK
<1>5. EntriesOpen'
  <2>1. \A k \in 0 .. clientCount' - 1 : clients'[k].fd # STDIN
    <3>1. \A k \in 0 .. clientCount' - 1 : k \in 0 .. clientCount - 1
      BY <1>2, <1>3
    <3> QED
      BY <1>2, <3>1 DEF MxInv, TableInv, EntriesOpen
  <2> QED
    BY <1>2, <2>1 DEF MxInv, TableInv, EntriesOpen
<1>6. CountIsRight'
  <2>1. PICK c : c = Cardinality(open \ {clientFd})
    OBVIOUS
  <2>2. c \in Nat /\ c = Cardinality(open' \ {clientFd'})
    BY <1>2, <2>1, OpenCounted DEF MxInv, TableInv
  <2>3. clientCount = c + toRemove
    BY <1>2, <2>1 DEF MxInv, TableInv, CountIsRight
  <2>4. clientCount' = c + toRemove'
    BY <1>2, <1>3, <2>2, <2>3
  <2> QED
    BY <2>2, <2>4 DEF CountIsRight
<1>7. RoundAgrees' /\ RemovedFew' /\ CompactProgress'
  BY <1>2 DEF MxInv, TableInv, RoundAgrees, RemovedFew, CompactProgress, InTryRead
<1> QED
  BY <1>1, <1>4, <1>5, <1>6, <1>7 DEF MxInv, TableInv

LEMMA ReaderUnlockInv ==
  ASSUME MxInv, ReaderUnlock
  PROVE  MxInv'
<1>1. LockOwned'
  BY LockOwnedStep DEF MxInv, Next, Reader
<1>2. /\ mpc # "exit" /\ rpc = "unlock" /\ rpc' = "call" /\ readingLock' = "free"
      /\ readable' = 0 /\ visited' = 0 /\ readFd' = 0
      /\ i' = 0 /\ j' = 0 /\ removed' = 0 /\ counted' = 0
      /\ UNCHANGED <<clients, clientCount, toRemove, firstToRemove, mpc, clientFd, quit,
                     polled, asked, cancelled, open, sock>>
  BY DEF ReaderUnlock, Alive, tableVars, mainVars, kernelVars
<1>3. TypeOK'
  <2>1. 0 \in Counts
    BY Capacity DEF Counts
  <2> QED
    BY <1>2, <2>1 DEF MxInv, TableInv, TypeOK
<1>4. RoundAgrees' /\ RemovedFew' /\ CompactProgress'
  BY <1>2 DEF MxInv, TableInv, RoundAgrees, RemovedFew, CompactProgress, InTryRead
<1> QED
  BY <1>1, <1>2, <1>3, <1>4, ReaderControl

(* A round of the compaction that finds a removed entry: swapping          *)
(* descriptors loses and doubles none, and what is behind the new j is     *)
(* removed.                                                                *)
LEMMA SwapInv ==
  ASSUME MxInv, Compact, IsRemoved(i)
  PROVE  MxInv'
<1>1. LockOwned'
  BY LockOwnedStep DEF MxInv, Next, Reader
<1>2. PICK k \in i .. j : /\ k = i \/ ~IsRemoved(k)
                          /\ \A l \in k + 1 .. j : IsRemoved(l)
                          /\ clients' = SwapFds(i, k)
                          /\ j' = k - 1
                          /\ removed' = removed + (j - k) + 1
  BY DEF Compact
<1>3. /\ mpc # "exit" /\ rpc = "compact" /\ CompactGuard /\ i' = i + 1
      /\ UNCHANGED <<clientCount, toRemove, firstToRemove, readingLock, mpc, clientFd, quit,
                     rpc, polled, asked, readable, visited, readFd, counted, cancelled,
                     open, sock>>
  BY DEF Compact, Alive, mainVars, kernelVars
<1>4. /\ toRemove <= counted /\ counted <= clientCount
      /\ removed = counted - 1 - j
      /\ firstToRemove <= i
      /\ \A m \in j + 1 .. counted - 1 : IsRemoved(m)
      /\ \A m \in firstToRemove .. i - 1 : m <= j => ~IsRemoved(m)
      /\ \A m \in counted .. clientCount - 1 : ~IsRemoved(m)
  BY <1>3 DEF MxInv, CompactProgress
<1>5. /\ clientCount \in Nat /\ clientCount <= MaxClients /\ toRemove \in Nat /\ counted \in Nat
      /\ removed \in Nat /\ firstToRemove \in Nat /\ i \in Nat /\ j \in Int /\ k \in Int
      /\ clients \in [Entries -> [fd : Descriptors, revents : BOOLEAN]]
  BY Capacity DEF MxInv, TableInv, TypeOK, Counts
<1>6. i <= k /\ k <= j /\ j < counted /\ i \in Entries /\ k \in Entries
  BY <1>4, <1>5, Capacity DEF Entries
<1>7. PICK n : n = i
  OBVIOUS
<1>8. PICK a : a = clients[n].fd
  OBVIOUS
<1>9. PICK b : b = clients[k].fd
  OBVIOUS
<1>10. /\ a = REMOVED_CLIENT /\ b \in Descriptors
       /\ k # n => b # REMOVED_CLIENT
       /\ n \in Entries /\ k \in Entries
       /\ k = n => a = b
  BY <1>2, <1>5, <1>6, <1>7, <1>8, <1>9 DEF IsRemoved
<1>11. clients' = [clients EXCEPT ![n].fd = b, ![k].fd = a]
  BY <1>2, <1>7, <1>8, <1>9 DEF SwapFds
<1>12. /\ \A m \in Entries : m # n /\ m # k => clients'[m] = clients[m]
       /\ clients'[n].fd = b /\ clients'[k].fd = a
       /\ clients' \in [Entries -> [fd : Descriptors, revents : BOOLEAN]]
  <2>1. [clients EXCEPT ![n].fd = b] \in [Entries -> [fd : Descriptors, revents : BOOLEAN]]
    BY <1>5, <1>10
  <2>2. a \in Descriptors
    BY <1>10, Zenon DEF Descriptors
  <2>3. clients' = [[clients EXCEPT ![n].fd = b] EXCEPT ![k].fd = a]
    BY <1>11
  <2>4. clients' \in [Entries -> [fd : Descriptors, revents : BOOLEAN]]
    BY <1>10, <2>1, <2>2, <2>3
  <2> QED
    BY <1>5, <1>10, <1>11, <2>4
<1>13. TypeOK'
  <2>1. i' \in Counts /\ removed' \in Counts /\ j' \in Counts \cup {-1}
    BY <1>2, <1>3, <1>4, <1>5, <1>6, Capacity DEF Counts, Entries
  <2> QED
    BY <1>3, <1>12, <2>1 DEF MxInv, TableInv, TypeOK
<1>14. EntriesOpen'
  <2>1. /\ \A m \in Entries : clients[m].fd \in (open \ {clientFd}) \cup {REMOVED_CLIENT, STDIN}
        /\ \A m, l \in Entries : clients[m].fd = clients[l].fd /\ m # l => clients[m].fd \notin Fds
        /\ \A m \in 0 .. clientCount - 1 : clients[m].fd # STDIN
    BY <1>3 DEF MxInv, TableInv, EntriesOpen
  <2>2. \A m \in Entries : clients'[m].fd \in (open' \ {clientFd'}) \cup {REMOVED_CLIENT, STDIN}
    BY <1>3, <1>9, <1>10, <1>12, <2>1
  <2>3. \A m \in Entries : clients'[m].fd \in Fds =>
            IF m = n THEN clients'[m].fd = clients[k].fd
                     ELSE m # k /\ clients'[m].fd = clients[m].fd
    BY <1>9, <1>10, <1>12, Capacity
  <2>4. \A m, l \in Entries : clients'[m].fd = clients'[l].fd /\ m # l => clients'[m].fd \notin Fds
    BY <1>10, <2>1, <2>3
  <2>5. 0 .. clientCount - 1 \subseteq Entries /\ k \in 0 .. clientCount - 1
    BY <1>4, <1>5, <1>6, Capacity DEF Entries
  <2>6. \A m \in 0 .. clientCount' - 1 : clients'[m].fd # STDIN
    BY <1>3, <1>9, <1>10, <1>12, <2>1, <2>5, Capacity
  <2> QED
    BY <1>3, <2>2, <2>4, <2>6 DEF EntriesOpen
<1>15. CountIsRight'
  BY <1>3 DEF MxInv, TableInv, CountIsRight
<1>16. RoundAgrees' /\ RemovedFew'
  BY <1>3 DEF MxInv, TableInv, RoundAgrees, RemovedFew, InTryRead
<1>17. CompactProgress'
  <2>1. removed' = counted' - 1 - j' /\ firstToRemove' <= i'
    BY <1>2, <1>3, <1>4, <1>5
  <2>2. \A m \in Entries : m # n /\ m # k => (IsRemoved(m)' <=> IsRemoved(m))
    BY <1>12 DEF IsRemoved
  <2>3. k # n => ~IsRemoved(n)'
    BY <1>10, <1>12 DEF IsRemoved
  <2>5. IsRemoved(k)'
    BY <1>10, <1>12 DEF IsRemoved
  <2>6. \A m \in j' + 1 .. counted' - 1 : IsRemoved(m)'
    <3> SUFFICES ASSUME NEW m \in k .. counted - 1 PROVE IsRemoved(m)'
      BY <1>2, <1>3, <1>5
    <3>1. CASE m = k
      BY <2>5, <3>1
    <3>2. CASE m # k
      <4>1. m \in Entries /\ m # n /\ (m \in k + 1 .. j \/ m \in j + 1 .. counted - 1)
        BY <1>4, <1>5, <1>6, <1>7, <3>2, Capacity DEF Entries
      <4> QED
        BY <1>2, <1>4, <2>2, <3>2, <4>1
    <3> QED
      BY <3>1, <3>2
  <2>7. \A m \in firstToRemove' .. i' - 1 : m <= j' => ~IsRemoved(m)'
    <3> SUFFICES ASSUME NEW m \in firstToRemove .. n, m <= k - 1 PROVE ~IsRemoved(m)'
      BY <1>2, <1>3, <1>5, <1>7
    <3>1. CASE m = n
      BY <1>5, <1>7, <2>3, <3>1
    <3>2. CASE m # n
      <4>1. m \in Entries /\ m # k /\ m \in firstToRemove .. i - 1 /\ m <= j
        BY <1>4, <1>5, <1>6, <1>7, <3>2, Capacity DEF Entries
      <4> QED
        BY <1>4, <2>2, <3>2, <4>1
    <3> QED
      BY <3>1, <3>2
  <2>8. \A m \in counted' .. clientCount' - 1 : ~IsRemoved(m)'
    <3> SUFFICES ASSUME NEW m \in counted .. clientCount - 1 PROVE ~IsRemoved(m)'
      BY <1>3
    <3>1. m \in Entries /\ m # k /\ m # n
      BY <1>4, <1>5, <1>6, <1>7, Capacity DEF Entries
    <3> QED
      BY <1>4, <2>2, <3>1
  <2>9. rpc' = "compact" /\ toRemove' <= counted' /\ counted' <= clientCount'
    BY <1>3, <1>4
  <2> QED
    BY <2>1, <2>6, <2>7, <2>8, <2>9 DEF CompactProgress
<1> QED
  BY <1>1, <1>13, <1>14, <1>15, <1>16, <1>17 DEF MxInv, TableInv

LEMMA CompactInv ==
  ASSUME MxInv, Compact
  PROVE  MxInv'
<1>1. CASE IsRemoved(i)
  BY <1>1, SwapInv
<1>2. CASE ~IsRemoved(i)
  <2>1. LockOwned'
    BY LockOwnedStep DEF MxInv, Next, Reader
  <2>2. /\ mpc # "exit" /\ rpc = "compact" /\ CompactGuard /\ i' = i + 1
        /\ UNCHANGED <<clients, j, removed>>
        /\ UNCHANGED <<clientCount, toRemove, firstToRemove, readingLock, mpc, clientFd, quit,
                       rpc, polled, asked, readable, visited, readFd, counted, cancelled,
                       open, sock>>
    BY <1>2 DEF Compact, Alive, mainVars, kernelVars
  <2>3. /\ removed = counted - 1 - j /\ firstToRemove <= i /\ counted <= clientCount
        /\ toRemove <= counted
        /\ \A m \in j + 1 .. counted - 1 : IsRemoved(m)
        /\ \A m \in firstToRemove .. i - 1 : m <= j => ~IsRemoved(m)
        /\ \A m \in counted .. clientCount - 1 : ~IsRemoved(m)
    BY <2>2 DEF MxInv, CompactProgress
  <2>4. /\ counted \in Nat /\ counted <= MaxClients /\ i \in Nat /\ j \in Int /\ removed \in Nat
        /\ toRemove \in Nat /\ firstToRemove \in Nat
    BY Capacity DEF MxInv, TableInv, TypeOK, Counts
  <2>5. i < j
    BY <2>2, <2>3, <2>4 DEF CompactGuard
  <2>6. TypeOK'
    <3>1. i' \in Counts
      BY <2>2, <2>3, <2>4, <2>5, Capacity DEF Counts
    <3> QED
      BY <2>2, <3>1 DEF MxInv, TableInv, TypeOK
  <2>7. RoundAgrees' /\ RemovedFew'
    BY <2>2 DEF MxInv, TableInv, RoundAgrees, RemovedFew, InTryRead
  <2>8. CompactProgress'
    <3>1. \A m : IsRemoved(m)' <=> IsRemoved(m)
      BY <2>2 DEF IsRemoved
    <3>2. \A m \in firstToRemove .. i : m = i \/ m \in firstToRemove .. i - 1
      BY <2>4
    <3>3. \A m \in firstToRemove' .. i' - 1 : m <= j' => ~IsRemoved(m)'
      BY <1>2, <2>2, <2>3, <2>4, <3>1, <3>2
    <3>4. firstToRemove' <= i'
      BY <2>2, <2>3, <2>4
    <3> QED
      BY <2>2, <2>3, <3>1, <3>3, <3>4 DEF CompactProgress
  <2> QED
    BY <2>1, <2>2, <2>6, <2>7, <2>8, ReaderControl
<1> QED
  BY <1>1, <1>2

-----------------------------------------------------------------------------
(* When the loop ends, what is behind j is all that was removed, or all    *)
(* but the entry at j itself.                                              *)
LEMMA GatheredAtTheEnd ==
  ASSUME TypeOK, CompactProgress, rpc = "subtract", Cardinality(Holes) = toRemove,
         \A k \in Holes : k >= firstToRemove
  PROVE  Holes = counted - toRemove .. counted - 1
<1>1. /\ toRemove <= counted /\ counted <= clientCount
      /\ removed = counted - 1 - j
      /\ \A k \in j + 1 .. counted - 1 : IsRemoved(k)
      /\ \A k \in firstToRemove .. i - 1 : k <= j => ~IsRemoved(k)
      /\ \A k \in counted .. clientCount - 1 : ~IsRemoved(k)
      /\ ~CompactGuard
  BY DEF CompactProgress
<1>2. /\ clientCount \in Nat /\ toRemove \in Nat /\ counted \in Nat /\ removed \in Nat
      /\ firstToRemove \in Nat /\ i \in Nat /\ j \in Int /\ j >= -1
  BY Capacity DEF TypeOK, Counts
<1> DEFINE Behind == j + 1 .. counted - 1
<1>3. IsFiniteSet(Behind) /\ Cardinality(Behind) = removed
  <2>1. j + 1 \in Int /\ counted - 1 \in Int
    BY <1>2
  <2>2. IsFiniteSet(Behind) /\ Cardinality(Behind) =
            IF j + 1 > counted - 1 THEN 0 ELSE (counted - 1) - (j + 1) + 1
    BY <2>1, FS_Interval
  <2> QED
    BY <1>1, <1>2, <2>2
<1>4. Holes \in SUBSET (0 .. counted - 1) /\ IsFiniteSet(Holes)
  <2>1. Holes \in SUBSET (0 .. clientCount - 1)
    BY DEF Holes
  <2>2. Holes \in SUBSET (0 .. counted - 1)
    BY <1>1, <1>2, <2>1 DEF Holes
  <2>3. 0 \in Int /\ counted - 1 \in Int
    BY <1>2
  <2>4. IsFiniteSet(0 .. counted - 1)
    BY <2>3, FS_Interval
  <2> QED
    BY <2>2, <2>4, FS_Subset
<1>5. Behind \in SUBSET Holes
  BY <1>1, <1>2 DEF Holes
<1>6. CASE removed >= toRemove
  <2>1. removed <= toRemove /\ (removed = toRemove => Behind = Holes)
    BY <1>3, <1>4, <1>5, FS_Subset
  <2>2. removed = toRemove
    BY <1>2, <1>6, <2>1
  <2>3. j + 1 = counted - toRemove
    BY <1>1, <1>2, <2>2
  <2> QED
    BY <2>1, <2>2, <2>3
<1>7. CASE removed < toRemove
  <2>1. j \in Nat /\ i >= j
    BY <1>1, <1>2, <1>7 DEF CompactGuard
  <2>2. Holes \subseteq Behind \cup {j}
    <3> SUFFICES ASSUME NEW h \in Holes, h # j, h \notin Behind PROVE FALSE
      OBVIOUS
    <3>1. h \in Nat /\ h <= counted - 1 /\ h >= firstToRemove /\ IsRemoved(h)
      BY <1>4, <1>2 DEF Holes
    <3>2. h < j
      BY <1>2, <2>1, <3>1
    <3>3. h \in firstToRemove .. i - 1 /\ h <= j
      BY <1>2, <2>1, <3>1, <3>2
    <3> QED
      BY <1>1, <3>1, <3>3
  <2>3. j \notin Behind
    BY <1>2
  <2>4. Cardinality(Behind \cup {j}) = removed + 1 /\ IsFiniteSet(Behind \cup {j})
    BY <1>3, <2>3, FS_AddElement
  <2>5. toRemove <= removed + 1 /\ (toRemove = removed + 1 => Holes = Behind \cup {j})
    BY <2>2, <2>4, FS_Subset
  <2>6. toRemove = removed + 1
    BY <1>2, <1>7, <2>5
  <2>7. j = counted - toRemove /\ j <= counted - 1
    BY <1>1, <1>2, <2>6
  <2>8. Behind \cup {j} = j .. counted - 1
    BY <1>2, <2>7
  <2> QED
    BY <2>5, <2>6, <2>7, <2>8
<1> QED
  BY <1>2, <1>6, <1>7

LEMMA ProgressSuffices == TypeOK /\ CompactProgress => CompactsInBounds /\ HolesGathered
<1> SUFFICES ASSUME TypeOK, CompactProgress PROVE CompactsInBounds /\ HolesGathered
  OBVIOUS
<1>1. CompactsInBounds
  <2> SUFFICES ASSUME rpc = "compact", CompactGuard PROVE {i, j} \subseteq 0 .. clientCount - 1
    BY DEF CompactsInBounds
  <2>1. /\ toRemove <= counted /\ counted <= clientCount
        /\ removed = counted - 1 - j
        /\ clientCount \in Nat /\ toRemove \in Nat /\ counted \in Nat /\ removed \in Nat
        /\ i \in Nat /\ j \in Int /\ j >= -1
    BY Capacity DEF CompactProgress, TypeOK, Counts
  <2> QED
    BY <2>1 DEF CompactGuard
<1>2. HolesGathered
  BY GatheredAtTheEnd DEF HolesGathered
<1> QED
  BY <1>1, <1>2

LEMMA NextMxInv == MxInv /\ [Next]_vars => MxInv'
<1> SUFFICES ASSUME MxInv, [Next]_vars PROVE MxInv'
  OBVIOUS
<1>1. CASE Loop \/ TryLock \/ Cancel \/ Join \/ Unlock \/ Interrupt
  BY <1>1, MainControlInv
<1>2. CASE Append
  BY <1>2, AppendInv
<1>3. CASE Start
  BY <1>3, StartInv
<1>4. CASE AcceptFails \/ JoinLast
  BY <1>4, ExitingInv
<1>5. CASE Accept
  BY <1>5, AcceptInv
<1>6. CASE Die \/ CountClients \/ PollCall \/ PollReturn \/ ReaderTryLock
  BY <1>6, DieInv, CountClientsInv, PollCallInv, PollReturnInv, ReaderTryLockInv
<1>7. CASE EnterTryRead \/ Scan \/ ReadData \/ ReadEnd
  BY <1>7, EnterTryReadInv, ScanInv, ReadDataInv, ReadEndInv
<1>8. CASE CommitBegin \/ Compact \/ CompactEnd \/ Subtract \/ ReaderUnlock
  BY <1>8, CommitBeginInv, CompactInv, CompactEndInv, SubtractInv, ReaderUnlockInv
<1>9. CASE \E fd \in Fds : PeerDoes(fd)
  BY <1>9, PeerDoesInv
<1>10. CASE UNCHANGED vars
  <2>1. UNCHANGED <<clients, clientCount, toRemove, firstToRemove, readingLock, mpc,
                    clientFd, quit, rpc, cancelled, polled, asked, readable, visited,
                    readFd, i, j, removed, counted, open, sock>>
    BY <1>10 DEF vars, tableVars, mainVars, readerVars, loopVars, kernelVars
  <2>2. LockOwned' /\ TypeOK'
    BY <2>1 DEF MxInv, TableInv, LockOwned, InTryRead, InRestart, CleaningUp, TypeOK
  <2>3. EntriesOpen' /\ CountIsRight'
    BY <2>1 DEF MxInv, TableInv, EntriesOpen, CountIsRight
  <2>4. Reported' = Reported
    BY <2>1 DEF Reported
  <2>5. RoundAgrees' /\ RemovedFew'
    BY <2>1, <2>4 DEF MxInv, TableInv, RoundAgrees, RemovedFew, InTryRead
  <2>6. CompactProgress'
    BY <2>1 DEF MxInv, CompactProgress, CompactGuard, IsRemoved
  <2> QED
    BY <2>2, <2>3, <2>5, <2>6 DEF MxInv, TableInv
<1> QED
  BY <1>1, <1>2, <1>3, <1>4, <1>5, <1>6, <1>7, <1>8, <1>9, <1>10
     DEF Next, Main, Reader, Exited

-----------------------------------------------------------------------------
(* Spec's first step and every later one, whatever the fairness. *)
LEMMA MultiplexerSafe == Spec => []MxInv
<1>1. Init => MxInv
  BY InitMxInv
<1>2. MxInv /\ [Next]_vars => MxInv'
  BY NextMxInv
<1> QED
  BY <1>1, <1>2, PTL DEF Spec

(* For every number of descriptors: the reading thread reads, removes and  *)
(* compacts only with reading_lock, main restarts it only with the lock,   *)
(* and the lock is not left behind except by a reader that main joins for  *)
(* the last time.                                                          *)
THEOREM ReadingLockIsOwned == Spec => []LockOwned
<1>1. MxInv => LockOwned
  BY DEF MxInv
<1> QED
  BY <1>1, MultiplexerSafe, PTL

(* For every number of descriptors: wherever the reader is when main       *)
(* appends a client, the array of SOMAXCONN entries has room for it, holds *)
(* open descriptors only, each of them once, client_count is the number of *)
(* clients, and the reader reads from clients only.                        *)
THEOREM SharedTableIsConsistent == Spec => []TableInv
<1>1. MxInv => TableInv
  BY DEF MxInv
<1> QED
  BY <1>1, MultiplexerSafe, PTL

(* For every number of descriptors: commit_remove_clients swaps entries of *)
(* clients only, its j never wraps around, and what it subtracts from      *)
(* client_count are the removed entries, gathered at the end of those it   *)
(* counted.                                                                *)
THEOREM CompactionGathers == Spec => []CommitGathers
<1>1. MxInv => TypeOK /\ CompactProgress
  BY DEF MxInv, TableInv
<1>2. TypeOK /\ CompactProgress => CommitGathers
  BY ProgressSuffices DEF CommitGathers
<1> QED
  BY <1>1, <1>2, MultiplexerSafe, PTL
====
