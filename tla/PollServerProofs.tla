---- MODULE PollServerProofs ----
(***************************************************************************)
(* Proofs about lab31's single-threaded server, for every size of its      *)
(* array and every set of descriptors.                                     *)
(***************************************************************************)
EXTENDS PollServer, FiniteSetTheorems, WellFoundedInduction, TLAPS

(* The inductive invariant has a part for each of the three things a round *)
(* does with the array.  First the table itself.                           *)
TableAgrees ==
    pc # "exit" =>
        /\ {clients[s].fd : s \in Used} \ {REMOVED_CLIENT} = open
        /\ \A s, t \in Used \ Marked : s # t => clients[s].fd # clients[t].fd
        /\ Cardinality(Marked) = toRemove

(* Marks appear in the entries try_read has passed, and firstToRemove is   *)
(* the least of them, or 0 when there are none.                            *)
MarksAreBehind ==
    /\ pc \in {"poll", "accept"} => Marked = {} /\ i = 1 /\ readFd = 0
    /\ pc = "read" => i \in 1 .. clientCount /\ \A s \in Marked : s < i
    /\ pc \in {"poll", "accept", "read"} =>
         IF Marked = {} THEN firstToRemove = 0
         ELSE firstToRemove \in Marked /\ \A s \in Marked : firstToRemove <= s

Reported(c) == {s \in i .. c - 1 : clients[s].readable}

(* What poll reported still waits in the entries try_read has not reached, *)
(* and readable counts how often it may still read.  The report was about  *)
(* the first entries, all of them or all but the newcomer's.               *)
ReportHolds(c) ==
    /\ \A s \in Reported(c) : sock[clients[s].fd] # {}
    /\ i <= c => readable = readFd + Cardinality(Reported(c))

ReportIsGood ==
    /\ pc = "accept" => ReportHolds(clientCount)
    /\ pc = "read" => \E c \in {clientCount - 1, clientCount} : ReportHolds(c)

Behind == {s \in Used : s > j}

(* The compaction's bookkeeping: no mark before i but behind j, none but   *)
(* marks behind j, and as many there as removedCount says.                 *)
CommitProgress ==
    pc = "commit" =>
        /\ i \in 1 .. clientCount /\ j \in 0 .. clientCount - 1
        /\ removedCount = clientCount - 1 - j
        /\ Behind \subseteq Marked
        /\ \A s \in Marked : s >= i \/ s > j

PollInv == TypeOK /\ TableAgrees /\ MarksAreBehind /\ ReportIsGood /\ CommitProgress
-----------------------------------------------------------------------------
(* A set of numbers that is bounded and not empty has a greatest member,   *)
(* which is what Max chooses.                                              *)
LEMMA MaxOfBounded ==
  ASSUME NEW n \in Nat, NEW S \in SUBSET (0 .. n), S # {}
  PROVE  Max(S) \in S /\ \A y \in S : y <= Max(S)
<1> DEFINE T == {x \in 0 .. n : n - x \in S}
<1>1. T \subseteq Nat /\ T # {}
  <2>1. PICK x : x \in S
    OBVIOUS
  <2>2. x \in 0 .. n
    BY <2>1
  <2>3. n - x \in 0 .. n /\ n - (n - x) = x
    BY <2>2
  <2>4. n - x \in T
    BY <2>1, <2>3
  <2> QED
    BY <2>4
<1>2. \E x \in T : \A y \in T : ~(<<y, x>> \in OpToRel(<, Nat))
  BY <1>1, NatLessThanWellFounded, WFMin
<1>3. PICK x \in T : \A y \in T : ~(y < x)
  BY <1>1, <1>2 DEF OpToRel
<1>4. \A y \in S : y <= n - x
  <2> SUFFICES ASSUME NEW y \in S PROVE y <= n - x
    OBVIOUS
  <2>1. y \in 0 .. n /\ n - y \in 0 .. n /\ n - (n - y) = y
    OBVIOUS
  <2>2. n - y \in T
    BY <2>1
  <2>3. ~(n - y < x)
    BY <1>3, <2>2
  <2> QED
    BY <1>3, <2>1, <2>3
<1>5. \E m \in S : \A y \in S : m >= y
  BY <1>3, <1>4
<1> HIDE DEF T
<1>6. Max(S) \in S /\ \A y \in S : Max(S) >= y
  BY <1>5 DEF Max
<1> QED
  BY <1>6

(* What Min chooses is the member that no other is below.                  *)
LEMMA MinIs ==
  ASSUME NEW S \in SUBSET Int, NEW m \in S, \A y \in S : m <= y
  PROVE  Min(S) = m
<1>1. Min(S) \in S /\ \A y \in S : Min(S) =< y
  BY DEF Min
<1>2. Min(S) \in Int /\ m \in Int /\ m <= Min(S) /\ Min(S) <= m
  BY <1>1
<1> QED
  BY <1>2

LEMMA UsedFacts ==
  ASSUME TypeOK
  PROVE  /\ clientCount \in Nat /\ clientCount >= 1 /\ clientCount <= SOMAXCONN
         /\ SOMAXCONN \in Nat /\ Used \subseteq Slots
         /\ IsFiniteSet(Used) /\ Cardinality(Used) = clientCount - 1
         /\ Marked \subseteq Used /\ IsFiniteSet(Marked)
         /\ Cardinality(Marked) \in Nat /\ Cardinality(Marked) <= clientCount - 1
<1>1. /\ clientCount \in Nat /\ clientCount >= 1 /\ clientCount <= SOMAXCONN
      /\ SOMAXCONN \in Nat /\ Used \subseteq Slots
  BY PollServerAssumption DEF TypeOK, Used, Slots
<1>2. IsFiniteSet(Used) /\ Cardinality(Used) = clientCount - 1
  <2>1. 1 \in Int /\ clientCount - 1 \in Int
    BY <1>1
  <2> QED
    BY <1>1, <2>1, FS_Interval DEF Used
<1>3. Marked \in SUBSET Used
  BY DEF Marked
<1> QED
  BY <1>1, <1>2, <1>3, FS_Subset, FS_CardinalityType

(* An unmarked entry's descriptor.                                         *)
LEMMA KeptFd ==
  ASSUME TypeOK, NEW s \in Used \ Marked
  PROVE  clients[s].fd \in Fds
BY UsedFacts DEF TypeOK, Marked

(* mx_add, which has no check of its own, stays inside the array: there    *)
(* are fewer descriptors than entries.                                     *)
LEMMA RoomForOne ==
  ASSUME TypeOK, TableAgrees, pc # "exit", Marked = {}, NEW fd \in Fds \ open
  PROVE  clientCount < SOMAXCONN
<1> DEFINE f == [s \in Used |-> clients[s].fd]
<1>1. f \in Injection(Used, Fds \ {fd})
  <2>1. f \in [Used -> Fds \ {fd}]
    BY DEF TableAgrees, TypeOK, Marked
  <2>2. \A s, t \in Used : f[s] = f[t] => s = t
    BY DEF TableAgrees
  <2> QED
    BY <2>1, <2>2 DEF Injection, IsInjective
<1>2. /\ IsFiniteSet(Fds \ {fd}) /\ Cardinality(Fds) \in Nat
      /\ Cardinality(Fds \ {fd}) = Cardinality(Fds) - 1
  BY FS_RemoveElement, FS_CardinalityType, PollServerAssumption
<1>3. Cardinality(Used) <= Cardinality(Fds \ {fd})
  BY <1>1, <1>2, FS_Injection
<1> QED
  BY <1>2, <1>3, UsedFacts, PollServerAssumption
-----------------------------------------------------------------------------
(* Every step of the server and of its clients preserves the invariant.    *)

LEMMA InitPollInv == Init => PollInv
<1> SUFFICES ASSUME Init PROVE PollInv
  OBVIOUS
<1> USE PollServerAssumption
<1>1. Used = {} /\ Marked = {}
  BY DEF Init, Used, Marked
<1>2. TypeOK
  BY FS_CardinalityType DEF Init, TypeOK, Slots
<1>3. TableAgrees
  BY <1>1, FS_EmptySet DEF Init, TableAgrees
<1>4. MarksAreBehind /\ ReportIsGood /\ CommitProgress
  BY <1>1 DEF Init, MarksAreBehind, ReportIsGood, CommitProgress
<1> QED
  BY <1>2, <1>3, <1>4 DEF PollInv

LEMMA SameTable ==
  ASSUME UNCHANGED <<clients, clientCount>>
  PROVE  Used' = Used /\ Marked' = Marked
BY DEF Used, Marked

(* The parts of the invariant only speak of a server that runs.            *)
LEMMA ExitInv ==
  ASSUME PollInv, pc' = "exit", UNCHANGED <<tableVars, localVars>>,
         open' \subseteq Fds, sock' \in [Fds -> SUBSET Conditions], backlog' \in 0 .. Backlog
  PROVE  PollInv'
BY DEF PollInv, TypeOK, TableAgrees, MarksAreBehind, ReportIsGood, CommitProgress,
       tableVars, localVars

(* A report stays true while the sockets only get more to read.            *)
LEMMA ReportStays ==
  ASSUME NEW c, ReportHolds(c), UNCHANGED <<clients, i, readFd, readable>>,
         \A s \in Reported(c) : sock[clients[s].fd] # {} => sock'[clients[s].fd] # {}
  PROVE  ReportHolds(c)'
<1>1. Reported(c)' = Reported(c)
  BY DEF Reported
<1> QED
  BY <1>1 DEF ReportHolds

LEMMA PollStepInv ==
  ASSUME PollInv, Poll
  PROVE  PollInv'
<1>1. /\ pc = "poll" /\ pc' \in {"accept", "read"}
      /\ clients' = [s \in Slots |->
           IF s \in Polled THEN [clients[s] EXCEPT !.readable = s \in ReadableSlots]
           ELSE clients[s]]
      /\ readable' = Cardinality(ReadableSlots)
      /\ UNCHANGED <<clientCount, toRemove, firstToRemove, i, j, readFd, removedCount,
                     open, sock, backlog>>
  BY DEF Poll, kernelVars
<1>2. TypeOK /\ Marked = {} /\ i = 1 /\ readFd = 0 /\ firstToRemove = 0
  BY <1>1 DEF PollInv, MarksAreBehind
<1>3. /\ \A s \in Slots : clients'[s].fd = clients[s].fd
      /\ \A s \in Used : clients'[s].readable <=> s \in ReadableSlots
      /\ clients' \in [Slots -> [fd : Fds \cup {REMOVED_CLIENT}, readable : BOOLEAN]]
  <2> SUFFICES ASSUME NEW s \in Slots
               PROVE  /\ clients'[s].fd = clients[s].fd
                      /\ s \in Used => (clients'[s].readable <=> s \in ReadableSlots)
                      /\ clients'[s] \in [fd : Fds \cup {REMOVED_CLIENT}, readable : BOOLEAN]
    BY <1>1, <1>2, UsedFacts
  <2>1. clients[s] \in [fd : Fds \cup {REMOVED_CLIENT}, readable : BOOLEAN]
    BY <1>2 DEF TypeOK
  <2>2. clients'[s] = IF s \in Used
                      THEN [clients[s] EXCEPT !.readable = s \in ReadableSlots]
                      ELSE clients[s]
    BY <1>1 DEF Polled
  <2>3. (s \in ReadableSlots) \in BOOLEAN
    OBVIOUS
  <2>4. CASE s \in Used
    BY <2>1, <2>2, <2>3, <2>4
  <2>5. CASE s \notin Used
    BY <2>1, <2>2, <2>5
  <2> QED
    BY <2>4, <2>5
<1>4. Used' = Used /\ Used \subseteq Slots /\ Marked' = {}
  BY <1>1, <1>2, <1>3, UsedFacts DEF Used, Marked
<1>5. ReadableSlots \in SUBSET Used /\ readable' \in Nat
  <2>1. ReadableSlots \in SUBSET Used
    BY DEF ReadableSlots, Polled
  <2> QED
    BY <1>1, <1>2, <2>1, UsedFacts, FS_Subset, FS_CardinalityType
<1>6. TypeOK'
  BY <1>1, <1>2, <1>3, <1>5 DEF TypeOK
<1>7. TableAgrees'
  BY <1>1, <1>2, <1>3, <1>4 DEF PollInv, TableAgrees
<1>8. MarksAreBehind'
  BY <1>1, <1>2, <1>4, UsedFacts DEF MarksAreBehind
<1>9. ReportHolds(clientCount)'
  <2>1. Reported(clientCount)' = ReadableSlots
    BY <1>1, <1>2, <1>3, <1>4, <1>5 DEF Reported, Used
  <2>2. \A s \in ReadableSlots : sock'[clients'[s].fd] # {}
    BY <1>1, <1>3, <1>4, <1>5 DEF ReadableSlots
  <2>3. readable' = readFd' + Cardinality(ReadableSlots)
    BY <1>1, <1>2, <1>5
  <2> QED
    BY <2>1, <2>2, <2>3 DEF ReportHolds
<1>10. ReportIsGood'
  BY <1>1, <1>9 DEF ReportIsGood
<1> QED
  BY <1>1, <1>6, <1>7, <1>8, <1>10 DEF PollInv, CommitProgress

LEMMA AcceptInv ==
  ASSUME PollInv, NEW fd \in Fds, Accept(fd)
  PROVE  PollInv'
<1>1. /\ pc = "accept" /\ pc' = "read" /\ fd \notin open
      /\ open' = open \cup {fd}
      /\ backlog > 0 /\ backlog' = backlog - 1
      /\ clients' = [clients EXCEPT ![clientCount].fd = fd]
      /\ clientCount' = clientCount + 1
      /\ UNCHANGED <<toRemove, firstToRemove, i, j, readFd, readable, removedCount, sock>>
  BY DEF Accept, localVars
<1>2. TypeOK /\ Marked = {} /\ i = 1 /\ readFd = 0 /\ firstToRemove = 0
  BY <1>1 DEF PollInv, MarksAreBehind
<1>3. clientCount \in Slots /\ clientCount < SOMAXCONN
  BY <1>1, <1>2, RoomForOne, UsedFacts DEF PollInv, Slots
<1>4. /\ Used' = Used \cup {clientCount} /\ clientCount \notin Used
      /\ Used \subseteq Slots
  BY <1>1, <1>2, UsedFacts DEF Used
<1>5. /\ clients' \in [Slots -> [fd : Fds \cup {REMOVED_CLIENT}, readable : BOOLEAN]]
      /\ clients'[clientCount].fd = fd
      /\ \A s \in Used : clients'[s] = clients[s]
  BY <1>1, <1>2, <1>3, <1>4 DEF TypeOK
<1>6. fd # REMOVED_CLIENT
  BY PollServerAssumption DEF REMOVED_CLIENT
<1>7. Marked' = {}
  BY <1>2, <1>4, <1>5, <1>6 DEF Marked
<1>8. TypeOK'
  BY <1>1, <1>2, <1>3, <1>5, UsedFacts, PollServerAssumption DEF TypeOK
<1>9. TableAgrees'
  <2>1. /\ \A s \in Used : clients[s].fd \in open /\ clients[s].fd # REMOVED_CLIENT
        /\ \A f \in open : \E s \in Used : clients[s].fd = f
        /\ \A s, t \in Used : s # t => clients[s].fd # clients[t].fd
    BY <1>1, <1>2 DEF PollInv, TableAgrees, Marked
  <2>2. {clients'[s].fd : s \in Used'} \ {REMOVED_CLIENT} = open'
    BY <1>1, <1>4, <1>5, <1>6, <2>1
  <2>3. \A s, t \in Used' : s # t => clients'[s].fd # clients'[t].fd
    BY <1>1, <1>4, <1>5, <2>1
  <2>4. Cardinality(Marked') = toRemove'
    BY <1>1, <1>2, <1>7 DEF PollInv, TableAgrees
  <2> QED
    BY <2>2, <2>3, <2>4 DEF TableAgrees
<1>10. MarksAreBehind'
  BY <1>1, <1>2, <1>7, UsedFacts DEF MarksAreBehind
<1>11. ReportHolds(clientCount)
  BY <1>1 DEF PollInv, ReportIsGood
<1>12. PICK c : c = clientCount
  OBVIOUS
<1>13. ReportHolds(c)'
  <2>1. Reported(c)' = Reported(c) /\ Reported(c) \subseteq Used
    BY <1>1, <1>2, <1>5, <1>12 DEF Reported, Used
  <2> QED
    BY <1>1, <1>5, <1>11, <1>12, <2>1 DEF ReportHolds
<1>14. c \in {clientCount' - 1, clientCount'}
  BY <1>1, <1>2, <1>12, UsedFacts
<1>15. ReportIsGood'
  BY <1>1, <1>13, <1>14 DEF ReportIsGood
<1> QED
  BY <1>1, <1>8, <1>9, <1>10, <1>15 DEF PollInv, CommitProgress

LEMMA SkipInv ==
  ASSUME PollInv, Skip
  PROVE  PollInv'
<1>1. /\ pc = "read" /\ pc' = "read" /\ ReadLoopGuard
      /\ ~clients[i].readable /\ i' = i + 1
      /\ UNCHANGED <<clients, clientCount, toRemove, firstToRemove, readFd, readable, j,
                     removedCount, open, sock, backlog>>
  BY DEF Skip, tableVars, kernelVars
<1>2. Used' = Used /\ Marked' = Marked
  BY <1>1, SameTable
<1>3. TypeOK /\ i \in 1 .. clientCount /\ i < clientCount /\ \A s \in Marked : s < i
  BY <1>1 DEF PollInv, MarksAreBehind, ReadLoopGuard
<1>4. TypeOK'
  BY <1>1, <1>3, UsedFacts DEF TypeOK
<1>5. TableAgrees'
  BY <1>1, <1>2 DEF PollInv, TableAgrees
<1>6. MarksAreBehind'
  BY <1>1, <1>2, <1>3, UsedFacts DEF PollInv, MarksAreBehind, Marked, Used
<1>7. PICK c \in {clientCount - 1, clientCount} : ReportHolds(c)
  BY <1>1 DEF PollInv, ReportIsGood
<1>8. Reported(c)' = Reported(c)
  BY <1>1, <1>3, <1>7, UsedFacts DEF Reported
<1>9. ReportHolds(c)'
  BY <1>1, <1>3, <1>7, <1>8, UsedFacts DEF ReportHolds
<1>10. ReportIsGood'
  BY <1>1, <1>7, <1>9 DEF ReportIsGood
<1> QED
  BY <1>1, <1>4, <1>5, <1>6, <1>10 DEF PollInv, CommitProgress

(* Whether the server reads data or the end of the stream, the next entry  *)
(* is up; what the report still promises is about other descriptors.       *)
LEMMA ReadReport ==
  ASSUME PollInv, Read,
         UNCHANGED clientCount,
         \A s \in Slots : s > i => clients'[s] = clients[s],
         \A fd \in Fds : fd # CurrentFd => sock'[fd] = sock[fd]
  PROVE  ReportIsGood'
<1>1. /\ pc = "read" /\ pc' = "read" /\ ReadLoopGuard
      /\ clients[i].readable /\ i' = i + 1 /\ readFd' = readFd + 1
      /\ UNCHANGED readable
  BY DEF Read
<1>2. /\ TypeOK /\ i \in Used /\ i \notin Marked /\ i \in Nat /\ clientCount \in Nat
      /\ Used \subseteq Slots
      /\ readFd \in Nat /\ readable \in Nat
      /\ \A s \in Marked : s < i
  BY <1>1, UsedFacts DEF PollInv, MarksAreBehind, ReadLoopGuard, Used, TypeOK
<1>3. PICK c \in {clientCount - 1, clientCount} : ReportHolds(c)
  BY <1>1 DEF PollInv, ReportIsGood
<1>4. Reported(c)' = Reported(c) \ {i} /\ Reported(c) \subseteq Used
  BY <1>1, <1>2, <1>3 DEF Reported, Used
<1>5. \A s \in Reported(c)' : sock'[clients'[s].fd] # {}
  <2> SUFFICES ASSUME NEW s \in Reported(c)' PROVE sock'[clients'[s].fd] # {}
    OBVIOUS
  <2>1. s \in Reported(c) /\ s \in Used /\ s > i /\ s \notin Marked
    BY <1>2, <1>3, <1>4 DEF Reported, Used
  <2>2. clients[s].fd \in Fds /\ clients[s].fd # CurrentFd
    BY <1>1, <1>2, <2>1, KeptFd DEF PollInv, TableAgrees, CurrentFd
  <2> QED
    BY <1>2, <1>3, <2>1, <2>2 DEF ReportHolds
<1>6. ASSUME i' <= c
      PROVE  readable' = readFd' + Cardinality(Reported(c)')
  <2>1. i \in Reported(c)
    BY <1>1, <1>2, <1>3, <1>6 DEF Reported
  <2>2. IsFiniteSet(Reported(c)) /\ Cardinality(Reported(c)) \in Nat
    BY <1>2, <1>4, UsedFacts, FS_Subset, FS_CardinalityType
  <2>3. Cardinality(Reported(c)') = Cardinality(Reported(c)) - 1
    BY <1>4, <2>1, <2>2, FS_RemoveElement
  <2>4. readable = readFd + Cardinality(Reported(c))
    BY <1>1, <1>2, <1>3, <1>6 DEF ReportHolds
  <2> QED
    BY <1>1, <1>2, <2>2, <2>3, <2>4
<1>7. ReportHolds(c)'
  BY <1>5, <1>6 DEF ReportHolds
<1> QED
  BY <1>1, <1>3, <1>7 DEF ReportIsGood

LEMMA ReadInv ==
  ASSUME PollInv, Read
  PROVE  PollInv'
<1>1. /\ pc = "read" /\ pc' = "read" /\ ReadLoopGuard
      /\ clients[i].readable /\ sock[CurrentFd] # {}
      /\ i' = i + 1 /\ readFd' = readFd + 1
      /\ UNCHANGED <<readable, j, removedCount, backlog, clientCount>>
  BY DEF Read, tableVars
<1>2. /\ TypeOK /\ i \in Used /\ i \in Slots /\ i \notin Marked /\ i \in Nat
      /\ Used \subseteq Slots /\ i < clientCount
      /\ clientCount \in Nat /\ clientCount <= SOMAXCONN /\ SOMAXCONN \in Nat
      /\ \A s \in Marked : s < i
  BY <1>1, UsedFacts DEF PollInv, MarksAreBehind, ReadLoopGuard, Used
<1>3. CurrentFd \in Fds /\ CurrentFd \in open /\ CurrentFd = clients[i].fd
  BY <1>1, <1>2, KeptFd DEF CurrentFd, PollInv, TableAgrees, Marked
<1>4. Used' = Used
  BY <1>1 DEF Used
<1>5. CASE ~EndOfStream
  <2>1. /\ sock' = [sock EXCEPT ![CurrentFd] = @ \ {"DATA"}]
        /\ UNCHANGED <<clients, toRemove, firstToRemove, open>>
    BY <1>5 DEF Read, tableVars
  <2>2. Marked' = Marked
    BY <1>1, <2>1, SameTable
  <2>3. TypeOK'
    <3>1. sock' \in [Fds -> SUBSET Conditions]
      BY <1>2, <2>1 DEF TypeOK
    <3> QED
      BY <1>1, <1>2, <2>1, <3>1 DEF TypeOK
  <2>4. TableAgrees'
    BY <1>1, <1>4, <2>1, <2>2 DEF PollInv, TableAgrees
  <2>5. MarksAreBehind'
    BY <1>1, <1>2, <2>1, <2>2 DEF PollInv, MarksAreBehind, Marked, Used
  <2>6. ReportIsGood'
    BY <1>1, <1>2, <2>1, ReadReport DEF TypeOK
  <2> QED
    BY <1>1, <2>3, <2>4, <2>5, <2>6 DEF PollInv, CommitProgress
<1>6. CASE EndOfStream
  <2>1. /\ MarkEntry(i)
        /\ open' = open \ {CurrentFd}
        /\ sock' = [sock EXCEPT ![CurrentFd] = {}]
    BY <1>6 DEF Read
  <2>2. /\ clients'[i].fd = REMOVED_CLIENT
        /\ clients' \in [Slots -> [fd : Fds \cup {REMOVED_CLIENT}, readable : BOOLEAN]]
        /\ \A s \in Slots \ {i} : clients'[s] = clients[s]
        /\ toRemove' = toRemove + 1
        /\ firstToRemove' = IF firstToRemove = 0 \/ firstToRemove > i THEN i
                            ELSE firstToRemove
    BY <1>2, <2>1 DEF MarkEntry, TypeOK
  <2>3. Marked' = Marked \cup {i}
    <3>1. \A s \in Used : s # i => clients'[s].fd = clients[s].fd
      BY <1>2, <2>2
    <3> QED
      BY <1>2, <1>4, <2>2, <3>1 DEF Marked
  <2>4. Cardinality(Marked') = toRemove'
    <3>1. IsFiniteSet(Marked) /\ Cardinality(Marked) = toRemove
      BY <1>1, <1>2, UsedFacts DEF PollInv, TableAgrees
    <3>2. Cardinality(Marked \cup {i}) = Cardinality(Marked) + 1
      BY <1>2, <3>1, FS_AddElement
    <3> QED
      BY <2>2, <2>3, <3>1, <3>2
  <2>5. toRemove' \in 0 .. SOMAXCONN - 1
    <3>1. Marked' \in SUBSET Used
      BY <1>2, <2>3, UsedFacts
    <3>2. Cardinality(Marked') <= clientCount - 1
      BY <1>2, <3>1, UsedFacts, FS_Subset
    <3> QED
      BY <1>2, <2>2, <2>4, <3>2 DEF TypeOK
  <2>6. TypeOK'
    <3>1. sock' \in [Fds -> SUBSET Conditions]
      BY <1>2, <2>1 DEF TypeOK
    <3>2. firstToRemove' \in 0 .. SOMAXCONN - 1
      BY <1>2, <2>2 DEF TypeOK
    <3> QED
      BY <1>1, <1>2, <2>1, <2>2, <2>5, <3>1, <3>2 DEF TypeOK
  <2>7. TableAgrees'
    <3>1. {clients'[s].fd : s \in Used'} \ {REMOVED_CLIENT} = open'
      <4>1. \A s \in Used \ {i} :
              clients'[s].fd = clients[s].fd /\ clients[s].fd # CurrentFd
        BY <1>1, <1>2, <1>3, <2>2, PollServerAssumption
           DEF PollInv, TableAgrees, Marked, REMOVED_CLIENT
      <4>2. {clients[s].fd : s \in Used} \ {REMOVED_CLIENT} = open
        BY <1>1 DEF PollInv, TableAgrees
      <4> QED
        BY <1>2, <1>3, <1>4, <2>1, <2>2, <4>1, <4>2
    <3>2. \A s, t \in Used' \ Marked' : s # t => clients'[s].fd # clients'[t].fd
      BY <1>1, <1>2, <1>4, <2>2, <2>3 DEF PollInv, TableAgrees
    <3> QED
      BY <2>4, <3>1, <3>2 DEF TableAgrees
  <2>8. MarksAreBehind'
    <3>1. IF Marked = {} THEN firstToRemove = 0
          ELSE firstToRemove \in Marked /\ \A s \in Marked : firstToRemove <= s
      BY <1>1 DEF PollInv, MarksAreBehind
    <3>2. firstToRemove' \in Marked' /\ \A s \in Marked' : firstToRemove' <= s
      <4>1. CASE Marked = {}
        BY <1>2, <2>2, <2>3, <3>1, <4>1
      <4>2. CASE Marked # {}
        <5>1. /\ firstToRemove \in Marked /\ \A s \in Marked : firstToRemove <= s
              /\ firstToRemove \in Nat /\ firstToRemove < i /\ firstToRemove # 0
          BY <1>2, <3>1, <4>2 DEF Marked, Used
        <5>2. firstToRemove' = firstToRemove
          BY <1>2, <2>2, <5>1
        <5> QED
          BY <1>2, <2>3, <5>1, <5>2
      <4> QED
        BY <4>1, <4>2
    <3>3. i' \in 1 .. clientCount' /\ \A s \in Marked' : s < i'
      BY <1>1, <1>2, <2>3 DEF Marked, Used
    <3> QED
      BY <1>1, <2>3, <3>2, <3>3 DEF MarksAreBehind
  <2>9. ReportIsGood'
    BY <1>1, <1>2, <2>1, <2>2, ReadReport DEF TypeOK
  <2> QED
    BY <1>1, <2>6, <2>7, <2>8, <2>9 DEF PollInv, CommitProgress
<1> QED
  BY <1>5, <1>6

(* When nothing has to be removed there is no mark, also where 0 stands    *)
(* for "none": entry 0 is the listener's.                                  *)
LEMMA CommitBeginInv ==
  ASSUME PollInv, CommitBegin
  PROVE  PollInv'
<1>1. /\ pc = "read" /\ TypeOK
      /\ UNCHANGED <<clients, clientCount, toRemove, firstToRemove, open, sock, backlog>>
  BY DEF CommitBegin, tableVars, kernelVars, PollInv
<1>2. Used' = Used /\ Marked' = Marked
  BY <1>1, SameTable
<1>3. IF Marked = {} THEN firstToRemove = 0
      ELSE firstToRemove \in Marked /\ \A s \in Marked : firstToRemove <= s
  BY <1>1 DEF PollInv, MarksAreBehind
<1>4. TableAgrees' \/ pc' = "exit"
  BY <1>1, <1>2 DEF PollInv, TableAgrees
<1>5. CASE toRemove = 0 \/ firstToRemove = 0
  <2>1. pc' = "poll" /\ i' = 1 /\ j' = 0 /\ readFd' = 0 /\ readable' = 0 /\ removedCount' = 0
    BY <1>5 DEF CommitBegin, RoundLocalsDie
  <2>2. Marked = {}
    <3>1. CASE toRemove = 0
      BY <1>1, <3>1, UsedFacts, FS_EmptySet DEF PollInv, TableAgrees
    <3>2. CASE firstToRemove = 0
      BY <1>3, <3>2 DEF Marked, Used
    <3> QED
      BY <1>5, <3>1, <3>2
  <2>3. TypeOK'
    BY <1>1, <2>1, UsedFacts, PollServerAssumption DEF TypeOK
  <2>4. MarksAreBehind'
    BY <1>1, <1>2, <1>3, <2>1, <2>2 DEF MarksAreBehind
  <2> QED
    BY <1>4, <2>1, <2>3, <2>4 DEF PollInv, ReportIsGood, CommitProgress
<1>6. CASE ~(toRemove = 0 \/ firstToRemove = 0)
  <2>1. /\ pc' = "commit" /\ i' = firstToRemove /\ j' = clientCount - 1
        /\ removedCount' = 0 /\ readFd' = 0 /\ readable' = 0
    BY <1>6 DEF CommitBegin
  <2>2. /\ firstToRemove \in Marked /\ \A s \in Marked : firstToRemove <= s
        /\ Marked \subseteq Used
    BY <1>1, <1>3, <1>6, UsedFacts
  <2>3. TypeOK'
    BY <1>1, <2>1, UsedFacts, PollServerAssumption DEF TypeOK
  <2>4. CommitProgress'
    <3>1. Behind' = {}
      BY <1>1, <1>2, <2>1, UsedFacts DEF Behind, Used
    <3> QED
      BY <1>1, <1>2, <2>1, <2>2, <3>1, UsedFacts DEF CommitProgress, Used
  <2> QED
    BY <1>4, <2>1, <2>3, <2>4 DEF PollInv, MarksAreBehind, ReportIsGood
<1> QED
  BY <1>5, <1>6

LEMMA BehindCounted ==
  ASSUME PollInv, pc = "commit"
  PROVE  /\ IsFiniteSet(Behind) /\ Cardinality(Behind) = removedCount
         /\ Behind \subseteq Marked /\ removedCount <= toRemove
         /\ removedCount = toRemove => Marked = Behind
<1>1. /\ TypeOK /\ j \in Nat /\ j < clientCount /\ clientCount \in Nat
      /\ removedCount = clientCount - 1 - j /\ Behind \subseteq Marked
      /\ Cardinality(Marked) = toRemove /\ IsFiniteSet(Marked)
  BY UsedFacts DEF PollInv, CommitProgress, TableAgrees
<1>2. Behind = j + 1 .. clientCount - 1
  BY <1>1 DEF Behind, Used
<1>3. Cardinality(j + 1 .. clientCount - 1) = clientCount - 1 - j
  <2>1. j + 1 \in Int /\ clientCount - 1 \in Int
    BY <1>1
  <2> QED
    BY <1>1, <2>1, FS_Interval
<1>4. Behind \in SUBSET Marked
  BY <1>1
<1> QED
  BY <1>1, <1>2, <1>3, <1>4, FS_Subset

(* The inner while stops at the last kept entry from i on, or at i.        *)
LEMMA LastKeptIs ==
  ASSUME PollInv, pc = "commit", CommitLoopGuard
  PROVE  /\ LastKept \in i .. j
         /\ LastKept = i \/ clients[LastKept].fd # REMOVED_CLIENT
         /\ \A s \in i .. j : s > LastKept => clients[s].fd = REMOVED_CLIENT
<1> DEFINE K == {s \in i .. j : clients[s].fd # REMOVED_CLIENT} \cup {i}
<1>1. i \in Nat /\ j \in Nat /\ i < j
  BY DEF PollInv, TypeOK, CommitLoopGuard
<1>2. K \in SUBSET (0 .. j) /\ K # {} /\ K \subseteq i .. j
  BY <1>1
<1>3. LastKept = Max(K)
  BY DEF LastKept
<1>4. LastKept \in K /\ \A s \in K : s <= LastKept
  <2> HIDE DEF K
  <2> QED
    BY <1>1, <1>2, <1>3, MaxOfBounded
<1>5. LastKept \in Int
  BY <1>1, <1>2, <1>4
<1> QED
  BY <1>1, <1>2, <1>4, <1>5

(* The swap keeps what the used entries hold: the mark at i and the        *)
(* descriptor at LastKept change places.                                   *)
LEMMA CommitSwap ==
  ASSUME PollInv, CommitStep, clients[i].fd = REMOVED_CLIENT
  PROVE  /\ TypeOK' /\ TableAgrees'
         /\ Marked' = (Marked \ {i}) \cup {LastKept}
<1> DEFINE k == LastKept
<1>1. /\ pc = "commit" /\ CommitLoopGuard /\ TypeOK
      /\ clients' = [clients EXCEPT ![i].fd = clients[k].fd, ![k].fd = clients[i].fd]
      /\ j' = k - 1 /\ removedCount' = removedCount + (j - k) + 1
      /\ i' = i + 1
      /\ UNCHANGED <<clientCount, toRemove, firstToRemove, pc, readFd, readable, open,
                     sock, backlog>>
  BY DEF CommitStep, kernelVars, PollInv
<1>2. /\ k \in i .. j
      /\ k = i \/ clients[k].fd # REMOVED_CLIENT
  BY <1>1, LastKeptIs
<1> HIDE DEF k
<1>3. /\ i \in Nat /\ j \in Nat /\ i < j /\ j < clientCount /\ clientCount \in Nat
      /\ clientCount <= SOMAXCONN /\ SOMAXCONN \in Nat
      /\ k \in Nat /\ i <= k /\ k <= j
      /\ i \in Used /\ k \in Used /\ Used \subseteq Slots /\ i \in Marked
      /\ removedCount \in Nat
  <2>1. /\ i \in Nat /\ j \in Nat /\ i >= 1 /\ i < j /\ j < clientCount
        /\ removedCount \in Nat
    BY <1>1, UsedFacts DEF PollInv, CommitProgress, CommitLoopGuard, TypeOK
  <2>2. k \in Nat /\ i <= k /\ k <= j
    BY <1>2, <2>1
  <2> QED
    BY <1>1, <2>1, <2>2, UsedFacts DEF Used, Marked
<1>4. Used' = Used
  BY <1>1 DEF Used
<1>5. /\ clients' \in [Slots -> [fd : Fds \cup {REMOVED_CLIENT}, readable : BOOLEAN]]
      /\ clients'[i].fd = clients[k].fd
      /\ clients'[k].fd = REMOVED_CLIENT
      /\ \A s \in Used \ {i, k} : clients'[s].fd = clients[s].fd
  <2>1. clients[i] \in [fd : Fds \cup {REMOVED_CLIENT}, readable : BOOLEAN]
    BY <1>1, <1>3 DEF TypeOK
  <2>2. clients[k] \in [fd : Fds \cup {REMOVED_CLIENT}, readable : BOOLEAN]
    BY <1>1, <1>3 DEF TypeOK
  <2>3. CASE k = i
    BY <1>1, <1>3, <2>1, <2>3 DEF TypeOK
  <2>4. CASE k # i
    BY <1>1, <1>3, <2>1, <2>2, <2>4 DEF TypeOK
  <2> QED
    BY <2>3, <2>4
<1>6. Marked' = (Marked \ {i}) \cup {k}
  BY <1>2, <1>3, <1>4, <1>5 DEF Marked
<1>7. TypeOK'
  <2>1. i' \in 0 .. SOMAXCONN /\ j' \in 0 .. SOMAXCONN - 1 /\ removedCount' \in Nat
    BY <1>1, <1>3, UsedFacts DEF Used
  <2> QED
    BY <1>1, <1>5, <2>1 DEF TypeOK
<1>8. {clients'[s].fd : s \in Used'} \ {REMOVED_CLIENT} = open'
  <2>1. {clients[s].fd : s \in Used} \ {REMOVED_CLIENT} = open
    BY <1>1 DEF PollInv, TableAgrees
  <2> QED
    BY <1>1, <1>2, <1>3, <1>4, <1>5, <2>1
<1>9. \A s, t \in Used' \ Marked' : s # t => clients'[s].fd # clients'[t].fd
  <2>1. \A s, t \in Used \ Marked : s # t => clients[s].fd # clients[t].fd
    BY <1>1 DEF PollInv, TableAgrees
  <2>2. k # i => k \in Used \ Marked
    BY <1>2, <1>3 DEF Marked
  <2> QED
    BY <1>3, <1>4, <1>5, <1>6, <2>1, <2>2
<1>10. Cardinality(Marked') = toRemove'
  <2>1. IsFiniteSet(Marked) /\ Cardinality(Marked) = toRemove /\ Cardinality(Marked) \in Nat
    BY <1>1, UsedFacts DEF PollInv, TableAgrees
  <2>2. k \notin Marked \ {i}
    BY <1>2 DEF Marked
  <2>3. /\ IsFiniteSet(Marked \ {i})
        /\ Cardinality(Marked \ {i}) = Cardinality(Marked) - 1
    BY <1>3, <2>1, FS_RemoveElement
  <2>4. Cardinality(Marked') = Cardinality(Marked \ {i}) + 1
    BY <1>6, <2>2, <2>3, FS_AddElement
  <2> QED
    BY <1>1, <2>1, <2>3, <2>4
<1> QED
  BY <1>6, <1>7, <1>8, <1>9, <1>10 DEF TableAgrees, k

LEMMA CommitStepInv ==
  ASSUME PollInv, CommitStep
  PROVE  PollInv'
<1>1. /\ pc = "commit" /\ pc' = "commit" /\ CommitLoopGuard /\ TypeOK
      /\ i' = i + 1
      /\ UNCHANGED <<clientCount, toRemove, firstToRemove, readFd, readable, open,
                     sock, backlog>>
  BY DEF CommitStep, kernelVars, PollInv
<1>2. /\ i \in Nat /\ j \in Nat /\ 1 <= i /\ i < j /\ j < clientCount /\ clientCount \in Nat
      /\ clientCount <= SOMAXCONN /\ SOMAXCONN \in Nat
      /\ removedCount = clientCount - 1 - j
      /\ Behind \subseteq Marked
      /\ \A s \in Marked : s >= i \/ s > j
      /\ Used' = Used
  BY <1>1, UsedFacts DEF PollInv, CommitProgress, CommitLoopGuard, TypeOK, Used
<1>3. MarksAreBehind' /\ ReportIsGood'
  BY <1>1 DEF MarksAreBehind, ReportIsGood
<1>4. CASE clients[i].fd # REMOVED_CLIENT
  <2>1. UNCHANGED <<clients, j, removedCount>>
    BY <1>4 DEF CommitStep
  <2>2. Marked' = Marked
    BY <1>1, <2>1, SameTable
  <2>3. TypeOK'
    BY <1>1, <1>2, <2>1 DEF TypeOK
  <2>4. TableAgrees'
    BY <1>1, <1>2, <2>1, <2>2 DEF PollInv, TableAgrees
  <2>5. \A s \in Marked : s >= i + 1 \/ s > j
    BY <1>2, <1>4 DEF Marked, Used
  <2>6. CommitProgress'
    BY <1>1, <1>2, <2>1, <2>2, <2>5 DEF CommitProgress, Behind
  <2> QED
    BY <1>3, <2>3, <2>4, <2>6 DEF PollInv
<1>5. CASE clients[i].fd = REMOVED_CLIENT
  <2> DEFINE k == LastKept
  <2>1. /\ TypeOK' /\ TableAgrees'
        /\ Marked' = (Marked \ {i}) \cup {k}
    BY <1>5, CommitSwap
  <2>2. /\ k \in i .. j
        /\ \A s \in i .. j : s > k => clients[s].fd = REMOVED_CLIENT
    BY <1>1, LastKeptIs
  <2>3. j' = k - 1 /\ removedCount' = removedCount + (j - k) + 1
    BY <1>5 DEF CommitStep
  <2> HIDE DEF k
  <2>4. k \in Nat /\ i <= k /\ k <= j
    BY <1>2, <2>2
  <2>5. Behind' \subseteq Marked'
    <3> SUFFICES ASSUME NEW s \in Used, s >= k PROVE s \in Marked'
      <4>1. Behind' = {s \in Used : s > k - 1}
        BY <1>2, <2>3 DEF Behind
      <4> QED
        BY <1>2, <2>4, <4>1 DEF Used
    <3>1. CASE s = k
      BY <2>1, <3>1
    <3>2. CASE s > k /\ s <= j
      BY <1>2, <2>1, <2>2, <2>4, <3>2 DEF Marked, Used
    <3>3. CASE s > j
      BY <1>2, <2>1, <2>4, <3>3 DEF Behind, Used
    <3> QED
      BY <1>2, <2>4, <3>1, <3>2, <3>3 DEF Used
  <2>6. \A s \in Marked' : s >= i' \/ s > j'
    BY <1>1, <1>2, <2>1, <2>3, <2>4 DEF Marked, Used
  <2>7. i' \in 1 .. clientCount' /\ j' \in 0 .. clientCount' - 1
    BY <1>1, <1>2, <2>3, <2>4
  <2>8. removedCount' = clientCount' - 1 - j'
    BY <1>1, <1>2, <2>3, <2>4
  <2>9. CommitProgress'
    BY <2>5, <2>6, <2>7, <2>8 DEF CommitProgress
  <2> QED
    BY <1>3, <2>1, <2>9 DEF PollInv
<1> QED
  BY <1>4, <1>5

(* The compaction stays among the used entries, and when it ends the marks *)
(* are the entries the new count cuts off: either j has passed them all,   *)
(* or i has met j at the one that is missing.                              *)
LEMMA CommitGathersLemma == PollInv => CommitGathers
<1> SUFFICES ASSUME PollInv, pc = "commit"
             PROVE  /\ i \in 1 .. clientCount /\ j < clientCount
                    /\ ~CommitLoopGuard =>
                         Marked = clientCount - toRemove .. clientCount - 1
  BY DEF CommitGathers
<1>1. /\ TypeOK /\ i \in 1 .. clientCount /\ j \in Nat /\ j < clientCount
      /\ clientCount \in Nat
      /\ removedCount = clientCount - 1 - j
      /\ toRemove \in Nat /\ Cardinality(Marked) = toRemove /\ IsFiniteSet(Marked)
      /\ Marked \subseteq Used
      /\ \A s \in Marked : s >= i \/ s > j
  BY UsedFacts DEF PollInv, CommitProgress, TableAgrees, TypeOK
<1>2. Behind = j + 1 .. clientCount - 1
  BY <1>1 DEF Behind, Used
<1>3. ASSUME ~CommitLoopGuard
      PROVE  Marked = clientCount - toRemove .. clientCount - 1
  <2>1. CASE removedCount = toRemove
    BY <1>1, <1>2, <2>1, BehindCounted
  <2>2. CASE removedCount # toRemove
    <3>1. removedCount < toRemove /\ i >= j
      BY <1>1, <1>3, <2>2, BehindCounted DEF CommitLoopGuard
    <3>2. Marked \subseteq Behind \cup {j} /\ j \notin Behind
      BY <1>1, <3>1 DEF Behind, Used
    <3>3. IsFiniteSet(Behind \cup {j}) /\ Cardinality(Behind \cup {j}) = removedCount + 1
      BY <3>2, BehindCounted, FS_AddElement
    <3>4. toRemove <= removedCount + 1
      BY <1>1, <3>2, <3>3, FS_Subset
    <3>5. toRemove = removedCount + 1
      BY <1>1, <3>1, <3>4
    <3>6. Marked = Behind \cup {j}
      BY <1>1, <3>2, <3>3, <3>5, FS_Subset
    <3> QED
      BY <1>1, <1>2, <3>5, <3>6
  <2> QED
    BY <2>1, <2>2
<1> QED
  BY <1>1, <1>3

LEMMA CommitEndInv ==
  ASSUME PollInv, CommitEnd
  PROVE  PollInv'
<1>1. /\ pc = "commit" /\ pc' = "poll" /\ ~CommitLoopGuard /\ TypeOK
      /\ clientCount' = clientCount - toRemove
      /\ toRemove' = 0 /\ firstToRemove' = 0
      /\ i' = 1 /\ j' = 0 /\ readFd' = 0 /\ readable' = 0 /\ removedCount' = 0
      /\ UNCHANGED <<clients, open, sock, backlog>>
  BY DEF CommitEnd, RoundLocalsDie, kernelVars, PollInv
<1>2. Marked = clientCount - toRemove .. clientCount - 1
  BY <1>1, CommitGathersLemma DEF CommitGathers
<1>3. /\ clientCount \in Nat /\ clientCount >= 1 /\ clientCount <= SOMAXCONN
      /\ SOMAXCONN \in Nat /\ toRemove \in Nat
      /\ toRemove <= clientCount - 1
  BY <1>1, UsedFacts DEF PollInv, TableAgrees, TypeOK
<1>4. Used' = Used \ Marked
  BY <1>1, <1>2, <1>3 DEF Used
<1>5. Marked' = {}
  BY <1>1, <1>4 DEF Marked
<1>6. TypeOK'
  BY <1>1, <1>3 DEF TypeOK
<1>7. TableAgrees'
  <2>1. {clients'[s].fd : s \in Used'} \ {REMOVED_CLIENT} = open'
    <3>1. {clients[s].fd : s \in Used} \ {REMOVED_CLIENT} = open
      BY <1>1 DEF PollInv, TableAgrees
    <3> QED
      BY <1>1, <1>4, <3>1 DEF Marked
  <2>2. \A s, t \in Used' \ Marked' : s # t => clients'[s].fd # clients'[t].fd
    BY <1>1, <1>4, <1>5 DEF PollInv, TableAgrees
  <2>3. Cardinality(Marked') = toRemove'
    BY <1>1, <1>5, FS_EmptySet
  <2> QED
    BY <2>1, <2>2, <2>3 DEF TableAgrees
<1>8. MarksAreBehind' /\ ReportIsGood' /\ CommitProgress'
  BY <1>1, <1>5 DEF MarksAreBehind, ReportIsGood, CommitProgress
<1> QED
  BY <1>6, <1>7, <1>8 DEF PollInv

LEMMA AcceptFailsInv ==
  ASSUME PollInv, AcceptFails
  PROVE  PollInv'
<1>1. /\ pc' = "exit" /\ open' = {} /\ sock' = [fd \in Fds |-> {}]
      /\ UNCHANGED <<tableVars, localVars>> /\ TypeOK
      /\ backlog' = backlog \/ (backlog > 0 /\ backlog' = backlog - 1)
  BY DEF AcceptFails, PollInv
<1>2. backlog' \in 0 .. Backlog
  BY <1>1, PollServerAssumption DEF TypeOK
<1> QED
  BY <1>1, <1>2, ExitInv

LEMMA ReadFailsInv ==
  ASSUME PollInv, ReadFails
  PROVE  PollInv'
BY ExitInv DEF ReadFails, PollInv, TypeOK

LEMMA InterruptInv ==
  ASSUME PollInv, Interrupt
  PROVE  PollInv'
BY ExitInv DEF Interrupt, PollInv, TypeOK

(* What the peers do reaches the table only through the sockets.           *)
LEMMA EnvironmentInv ==
  ASSUME PollInv, UNCHANGED <<tableVars, pc, localVars, open>>,
         sock' \in [Fds -> SUBSET Conditions], backlog' \in 0 .. Backlog,
         \A fd \in Fds : sock[fd] # {} => sock'[fd] # {}
  PROVE  PollInv'
<1>1. /\ UNCHANGED <<clients, clientCount, toRemove, firstToRemove, pc, i, readFd, readable,
                     j, removedCount, open>>
      /\ TypeOK
  BY DEF tableVars, localVars, PollInv
<1>2. Used' = Used /\ Marked' = Marked
  BY <1>1, SameTable
<1>3. TypeOK'
  BY <1>1 DEF TypeOK
<1>4. TableAgrees' /\ MarksAreBehind'
  BY <1>1, <1>2 DEF PollInv, TableAgrees, MarksAreBehind
<1>5. CommitProgress'
  <2>1. Behind' = Behind
    BY <1>1, <1>2 DEF Behind
  <2> QED
    BY <1>1, <1>2, <2>1 DEF PollInv, CommitProgress
<1>6. ASSUME NEW c \in {clientCount - 1, clientCount}, pc \in {"accept", "read"},
             ReportHolds(c)
      PROVE  ReportHolds(c)'
  <2>1. i >= 1 /\ i \in Nat /\ \A s \in Marked : s < i
    BY <1>1, <1>6, UsedFacts DEF PollInv, MarksAreBehind
  <2>2. \A s \in Reported(c) : s \in Used \ Marked
    BY <1>1, <1>6, <2>1, UsedFacts DEF Reported, Used
  <2>3. \A s \in Reported(c) : clients[s].fd \in Fds
    BY <1>1, <2>2, KeptFd
  <2> QED
    BY <1>1, <1>6, <2>3, ReportStays
<1>7. ReportIsGood'
  <2>1. CASE pc = "accept"
    BY <1>1, <1>6, <2>1 DEF PollInv, ReportIsGood
  <2>2. CASE pc = "read"
    <3>1. PICK c \in {clientCount - 1, clientCount} : ReportHolds(c)
      BY <2>2 DEF PollInv, ReportIsGood
    <3> QED
      BY <1>1, <1>6, <2>2, <3>1 DEF ReportIsGood
  <2>3. CASE pc \notin {"accept", "read"}
    BY <1>1, <2>3 DEF ReportIsGood
  <2> QED
    BY <2>1, <2>2, <2>3
<1> QED
  BY <1>3, <1>4, <1>5, <1>7 DEF PollInv

LEMMA ConnectInv ==
  ASSUME PollInv, Connect
  PROVE  PollInv'
<1>1. /\ UNCHANGED <<tableVars, pc, localVars, open>> /\ sock' = sock
      /\ backlog < Backlog /\ backlog' = backlog + 1 /\ TypeOK
  BY DEF Connect, PollInv
<1>2. sock' \in [Fds -> SUBSET Conditions] /\ backlog' \in 0 .. Backlog
  BY <1>1, PollServerAssumption DEF TypeOK
<1> QED
  BY <1>1, <1>2, EnvironmentInv

LEMMA PeerStepInv ==
  ASSUME PollInv, PeerStep
  PROVE  PollInv'
<1>1. PICK fd \in open : PeerDoes(fd)
  BY DEF PeerStep
<1>2. TypeOK /\ fd \in Fds /\ UNCHANGED <<tableVars, pc, localVars, open, backlog>>
  BY DEF PeerStep, PollInv, TypeOK
<1>3. \E c \in {"DATA", "FIN", "RST"} :
        \/ sock' = [sock EXCEPT ![fd] = @ \cup {c}]
        \/ sock' = [sock EXCEPT ![fd] = {c}]
  BY <1>1 DEF PeerDoes
<1>4. /\ sock' \in [Fds -> SUBSET Conditions]
      /\ \A f \in Fds : sock[f] # {} => sock'[f] # {}
  BY <1>2, <1>3 DEF TypeOK, Conditions
<1> QED
  BY <1>2, <1>4, EnvironmentInv DEF TypeOK

LEMMA NextPollInv ==
  ASSUME PollInv, [Next]_vars
  PROVE  PollInv'
<1>1. CASE UNCHANGED vars
  BY <1>1, EnvironmentInv DEF vars, kernelVars, PollInv, TypeOK
<1>2. CASE Loop
  BY <1>2, PollStepInv, AcceptInv, AcceptFailsInv, SkipInv, ReadInv, ReadFailsInv,
     CommitBeginInv, CommitStepInv, CommitEndInv DEF Loop
<1>3. CASE Interrupt \/ Connect \/ PeerStep
  BY <1>3, InterruptInv, ConnectInv, PeerStepInv
<1> QED
  BY <1>1, <1>2, <1>3 DEF Next, Exited

-----------------------------------------------------------------------------
(* Whatever the clients do, the array is consistent with the descriptors   *)
(* that are open, and the three things a round does with it keep their     *)
(* bookkeeping.                                                            *)
THEOREM PollServerIsConsistent == Spec => []PollInv
<1>1. Init => PollInv
  BY InitPollInv
<1>2. PollInv /\ [Next]_vars => PollInv'
  BY NextPollInv
<1> QED
  BY <1>1, <1>2, PTL DEF Spec

(* For every size of the array and every set of descriptors smaller than   *)
(* it: no connection is leaked or held twice, mx_add never writes behind   *)
(* the array, and firstToRemove is where the marks begin.                  *)
THEOREM TableHoldsConnections == Spec => []TableInv
<1>1. PollInv => TableInv
  <2> SUFFICES ASSUME PollInv PROVE TableInv
    OBVIOUS
  <2>1. ASSUME pc = "read", Marked # {}
        PROVE  firstToRemove = Min(Marked)
    <3>1. firstToRemove \in Marked /\ \A s \in Marked : firstToRemove <= s
      BY <2>1 DEF PollInv, MarksAreBehind
    <3>2. Marked \in SUBSET Int
      BY DEF Marked, Used
    <3> QED
      BY <3>1, <3>2, MinIs
  <2> QED
    BY <2>1 DEF TableInv, PollInv, TableAgrees, MarksAreBehind
<1> QED
  BY <1>1, PollServerIsConsistent, PTL

(* commit_remove_clients cuts off the marked entries and nothing else.     *)
THEOREM PollServerCutsMarksOnly == Spec => []CommitGathers
BY PollServerIsConsistent, CommitGathersLemma, PTL

(* The read of a client that poll reported on never blocks: an entry that  *)
(* does was not among those poll covered, so it is the newcomer's, and the *)
(* whole report has been dealt with.                                       *)
THEOREM OnlyNewcomersBlock == Spec => []OnlyNewcomerBlocks
<1>1. PollInv => OnlyNewcomerBlocks
  <2> SUFFICES ASSUME PollInv, ReadBlocks
               PROVE  i = clientCount - 1 /\ readFd = readable
    BY DEF OnlyNewcomerBlocks
  <2>1. /\ pc = "read" /\ i < clientCount /\ clients[i].readable
        /\ sock[clients[i].fd] = {} /\ TypeOK
    BY DEF ReadBlocks, ReadLoopGuard, CurrentFd, PollInv
  <2>2. i \in Nat /\ clientCount \in Nat /\ readFd \in Nat
    BY <2>1, UsedFacts DEF PollInv, MarksAreBehind, TypeOK
  <2>3. PICK c \in {clientCount - 1, clientCount} : ReportHolds(c)
    BY <2>1 DEF PollInv, ReportIsGood
  <2>4. ~(i <= c - 1)
    <3>1. i \notin Reported(c)
      BY <2>1, <2>3 DEF ReportHolds
    <3> QED
      BY <2>1, <2>2, <2>3, <3>1 DEF Reported
  <2>5. i = c /\ c = clientCount - 1
    BY <2>1, <2>2, <2>3, <2>4
  <2>6. Reported(c) = {}
    BY <2>2, <2>5 DEF Reported
  <2>7. readable = readFd + 0
    BY <2>2, <2>3, <2>5, <2>6, FS_EmptySet DEF ReportHolds
  <2> QED
    BY <2>2, <2>5, <2>7
<1> QED
  BY <1>1, PollServerIsConsistent, PTL
====
