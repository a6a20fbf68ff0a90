---- MODULE AioServerProofs ----
(***************************************************************************)
(* Proofs about lab32's server, for every set of descriptors that is not   *)
(* larger than the array of control blocks.                                *)
(***************************************************************************)
EXTENDS AioServer, FiniteSetTheorems, FunctionTheorems,
        WellFoundedInduction, TLAPS

(* There is a first free control block whenever there is a free one (the   *)
(* order on Nat is well founded).                                          *)
LEMMA FirstExists ==
  ASSUME NEW free \in Blocks, ~Live(free)
  PROVE  \E b \in Blocks : FirstSuitable(b) /\ b <= free
<1> DEFINE S == {b \in Blocks : ~Live(b)}
<1>1. S \subseteq Nat /\ free \in S
  BY AioAssumption DEF Blocks
<1>2. PICK b \in S : \A c \in S : ~(<<c, b>> \in OpToRel(<, Nat))
  BY <1>1, WFMin, NatLessThanWellFounded
<1>3. \A c \in S : b <= c
  <2> SUFFICES ASSUME NEW c \in S, c < b
               PROVE  FALSE
    BY <1>1
  <2>1. <<c, b>> \in {p \in Nat \X Nat : p[1] < p[2]}
    BY <1>1
  <2> QED
    BY <1>2, <2>1 DEF OpToRel
<1> QED
  BY <1>1, <1>3 DEF FirstSuitable, Live, Blocks

(* While main holds a descriptor, a control block is free: the occupied    *)
(* ones hold different descriptors, and none of them that one.             *)
LEMMA BlockIsFree ==
  ASSUME AioInv, pc = "store"
  PROVE  \E b \in Blocks : ~Live(b)
<1> SUFFICES ASSUME \A b \in Blocks : Live(b)
             PROVE  FALSE
  OBVIOUS
<1> DEFINE others == Fds \ {clientFd}
<1>1. clientFd \in Fds
  BY DEF AioInv, Phases
<1>2. \A b \in Blocks : b \in UsedBlocks
  BY AioAssumption DEF AioInv, TypeOK, BlocksBeyondUnused, UsedBlocks, Blocks
<1>3. fildes \in [Blocks -> others]
  BY <1>2 DEF AioInv, TypeOK, FdsHeld, InHand, Live
<1>4. fildes \in Injection(Blocks, others)
  BY <1>2, <1>3, Fun_IsInj DEF AioInv, FdsHeld
<1>5. IsFiniteSet(others) /\ Cardinality(others) = Cardinality(Fds) - 1
  BY <1>1, FS_RemoveElement, AioAssumption
<1>6. Cardinality(Blocks) <= Cardinality(others)
  BY <1>4, <1>5, FS_Injection
<1>7. Cardinality(Blocks) = MaxClients
  <2>1. 0 \in Int /\ MaxClients - 1 \in Int
    BY AioAssumption
  <2> QED
    BY <2>1, FS_Interval, AioAssumption DEF Blocks
<1>8. Cardinality(Fds) \in Nat
  BY FS_CardinalityType, AioAssumption
<1> QED
  BY <1>5, <1>6, <1>7, <1>8, AioAssumption

(* So the search for a free control block ends in the array, at a block    *)
(* not beyond the used ones.                                               *)
LEMMA SearchLemma ==
  ASSUME AioInv
  PROVE  SearchEndsInBounds
<1> SUFFICES ASSUME pc = "store"
             PROVE  \E b \in Blocks : FirstSuitable(b) /\ b <= clientCount
  BY DEF SearchEndsInBounds
<1>1. PICK free \in Blocks : ~Live(free)
  BY BlockIsFree
<1>2. PICK b \in Blocks : FirstSuitable(b) /\ b <= free
  BY <1>1, FirstExists
<1>3. b <= clientCount
  <2> SUFFICES ASSUME b > clientCount
               PROVE  FALSE
    BY AioAssumption DEF AioInv, TypeOK, Blocks
  <2>1. clientCount \in Blocks /\ ~Live(clientCount)
    BY AioAssumption DEF AioInv, TypeOK, Blocks, BlocksBeyondUnused
  <2> QED
    BY <1>2, <2>1 DEF FirstSuitable, Live
<1> QED
  BY <1>2, <1>3

-----------------------------------------------------------------------------
(* Every step preserves the invariant. *)

LEMMA InitAioInv == Init => AioInv
<1> SUFFICES ASSUME Init PROVE AioInv
  OBVIOUS
<1> USE AioAssumption DEF Init
<1>1. TypeOK
  <2>1. fildes \in [Blocks -> Fds \cup {REMOVED_CLIENT}]
    OBVIOUS
  <2>2. status \in [Blocks -> Results \cup {"progress"}]
    BY DEF Results
  <2>3. sock \in [Fds -> SUBSET Conditions]
    OBVIOUS
  <2>4. masked \in BOOLEAN /\ scanning \in BOOLEAN /\ pending \in BOOLEAN
    OBVIOUS
  <2>5. clientCount \in 0 .. MaxClients /\ i \in 0 .. MaxClients /\ backlog \in 0 .. Backlog
    OBVIOUS
  <2>6. pc \in {"accept", "block", "store", "submit", "unblock", "exit"}
    OBVIOUS
  <2>7. /\ clientFd \in Fds \cup {REMOVED_CLIENT} /\ index \in Blocks \cup {MaxClients}
        /\ notifying \in SUBSET Fds /\ open \in SUBSET Fds
    OBVIOUS
  <2> QED
    BY <2>1, <2>2, <2>3, <2>4, <2>5, <2>6, <2>7 DEF TypeOK
<1>2. \A b \in Blocks : ~Live(b)
  BY DEF Live
<1>3. UsedBlocks = {}
  BY DEF UsedBlocks
<1>4. FdsHeld
  BY <1>3 DEF FdsHeld, InHand
<1>5. NoReadAfterRemove
  BY DEF NoReadAfterRemove
<1>6. Phases
  BY DEF Phases
<1> QED
  BY <1>1, <1>2, <1>4, <1>5, <1>6
     DEF AioInv, NoLostCompletion, BlocksBeyondUnused, EndsSeen

LEMMA AcceptInv ==
  ASSUME AioInv, Accept
  PROVE  AioInv'
<1> USE AioAssumption DEF Accept, Running, tableVars, mainVars, handlerVars, kernelVars, AioInv, TypeOK
<1>1. TypeOK'
  BY DEF TypeOK, Blocks, Conditions, Results
<1>2. FdsHeld'
  BY DEF FdsHeld, InHand, Live, UsedBlocks, Blocks, Phases
<1>3. NoReadAfterRemove'
  BY DEF NoReadAfterRemove, Live, BlocksBeyondUnused, Blocks
<1>4. NoLostCompletion'
  BY DEF NoLostCompletion, Live, BeingAdded, Phases, Blocks, BlocksBeyondUnused
<1>5. BlocksBeyondUnused'
  BY DEF BlocksBeyondUnused, Live, Blocks
<1>6. Phases'
  BY DEF Phases, Live, UsedBlocks, Blocks
<1>7. EndsSeen'
  BY DEF EndsSeen, Live, BeingAdded, Phases, FdsHeld, Blocks, BlocksBeyondUnused, UsedBlocks
<1> QED
  BY <1>1, <1>2, <1>3, <1>4, <1>5, <1>6, <1>7

LEMMA BlockSignalInv ==
  ASSUME AioInv, BlockSignal
  PROVE  AioInv'
<1> USE AioAssumption DEF BlockSignal, Running, tableVars, mainVars, handlerVars, kernelVars, AioInv, TypeOK
<1>1. TypeOK'
  BY DEF TypeOK, Blocks, Conditions, Results
<1>2. FdsHeld'
  BY DEF FdsHeld, InHand, Live, UsedBlocks, Blocks, Phases
<1>3. NoReadAfterRemove'
  BY DEF NoReadAfterRemove, Live, BlocksBeyondUnused, Blocks
<1>4. NoLostCompletion'
  BY DEF NoLostCompletion, Live, BeingAdded, Phases, Blocks, BlocksBeyondUnused
<1>5. BlocksBeyondUnused'
  BY DEF BlocksBeyondUnused, Live, Blocks
<1>6. Phases'
  BY DEF Phases, Live, UsedBlocks, Blocks
<1>7. EndsSeen'
  BY DEF EndsSeen, Live, BeingAdded, Phases, FdsHeld, Blocks, BlocksBeyondUnused, UsedBlocks
<1> QED
  BY <1>1, <1>2, <1>3, <1>4, <1>5, <1>6, <1>7

LEMMA StoreClientInv ==
  ASSUME AioInv, StoreClient
  PROVE  AioInv'
<1> USE AioAssumption DEF tableVars, mainVars, handlerVars, kernelVars, AioInv, TypeOK
<1>a. PICK b \in Blocks :
        /\ ~Live(b) /\ b <= clientCount
        /\ index' = b
        /\ fildes' = [fildes EXCEPT ![b] = clientFd]
        /\ clientCount' = IF b >= clientCount THEN clientCount + 1 ELSE clientCount
  <2>1. PICK b \in Blocks :
           /\ FirstSuitable(b)
           /\ index' = b
           /\ fildes' = [fildes EXCEPT ![b] = clientFd]
           /\ clientCount' = IF b >= clientCount THEN clientCount + 1 ELSE clientCount
    BY DEF StoreClient
  <2>2. b <= clientCount
    <3> SUFFICES ASSUME b > clientCount
                 PROVE  FALSE
      BY DEF Blocks
    <3>1. clientCount \in Blocks /\ ~Live(clientCount)
      BY DEF Blocks, BlocksBeyondUnused
    <3> QED
      BY <2>1, <3>1 DEF FirstSuitable, Live
  <2> QED
    BY <2>1, <2>2 DEF FirstSuitable, Live
<1>b. /\ pc = "store" /\ ~scanning /\ pc' = "submit"
      /\ UNCHANGED <<status, clientFd, masked, scanning, i, pending, notifying,
                     open, sock, backlog>>
  BY DEF StoreClient, Running
<1>c. /\ clientFd \in Fds
      /\ b \in UsedBlocks' /\ UsedBlocks' = UsedBlocks \cup {b}
      /\ clientCount' \in 0 .. MaxClients
  BY <1>a, <1>b DEF Phases, UsedBlocks, Blocks
<1>d. fildes' = [c \in Blocks |-> IF c = b THEN clientFd ELSE fildes[c]]
  BY <1>a
<1>1. TypeOK'
  BY <1>a, <1>b, <1>c DEF TypeOK, Blocks
<1>2. FdsHeld'
  <2>1. /\ open = {fildes[c] : c \in {x \in UsedBlocks : Live(x)}} \cup {clientFd}
        /\ \A c, d \in UsedBlocks : Live(c) /\ fildes[c] = fildes[d] => c = d
        /\ \A c \in UsedBlocks : fildes[c] # clientFd
        /\ UsedBlocks \subseteq Blocks
    BY <1>b DEF FdsHeld, InHand, UsedBlocks, Blocks
  <2>2. InHand' = {}
    BY <1>b DEF InHand
  <2>3. open' = {fildes'[c] : c \in {x \in UsedBlocks' : Live(x)'}}
    BY <1>a, <1>b, <1>c, <1>d, <2>1 DEF Live
  <2>4. \A c, d \in UsedBlocks' : Live(c)' /\ fildes'[c] = fildes'[d] => c = d
    BY <1>a, <1>c, <1>d, <2>1 DEF Live
  <2> QED
    BY <2>2, <2>3, <2>4 DEF FdsHeld
<1>3. NoReadAfterRemove'
  BY <1>a, <1>b, <1>c DEF NoReadAfterRemove, Live, Blocks
<1>4. NoLostCompletion'
  BY <1>a, <1>b, <1>d DEF NoLostCompletion, Live, BeingAdded
<1>5. BlocksBeyondUnused'
  BY <1>a, <1>c, <1>d DEF BlocksBeyondUnused, Live, UsedBlocks, Blocks
<1>6. Phases'
  BY <1>a, <1>b, <1>c, <1>d DEF Phases, Live
<1>7. EndsSeen'
  BY <1>a, <1>b, <1>d DEF EndsSeen, Live, BeingAdded
<1> QED
  BY <1>1, <1>2, <1>3, <1>4, <1>5, <1>6, <1>7

LEMMA SubmitFirstInv ==
  ASSUME AioInv, SubmitFirst
  PROVE  AioInv'
<1> USE AioAssumption DEF SubmitFirst, Running, tableVars, mainVars, handlerVars, kernelVars, AioInv, TypeOK
<1>1. TypeOK'
  BY DEF TypeOK, Blocks, Conditions, Results
<1>2. FdsHeld'
  BY DEF FdsHeld, InHand, Live, UsedBlocks, Blocks, Phases
<1>3. NoReadAfterRemove'
  BY DEF NoReadAfterRemove, Phases, Live, UsedBlocks, Blocks
<1>4. NoLostCompletion'
  BY DEF NoLostCompletion, Live, BeingAdded, Phases, Blocks, BlocksBeyondUnused
<1>5. BlocksBeyondUnused'
  BY DEF BlocksBeyondUnused, Live, Blocks
<1>6. Phases'
  BY DEF Phases, Live, UsedBlocks, Blocks
<1>7. EndsSeen'
  BY DEF EndsSeen, Live, BeingAdded, Phases, FdsHeld, Blocks, BlocksBeyondUnused, UsedBlocks
<1> QED
  BY <1>1, <1>2, <1>3, <1>4, <1>5, <1>6, <1>7

LEMMA UnblockSignalInv ==
  ASSUME AioInv, UnblockSignal
  PROVE  AioInv'
<1> USE AioAssumption DEF UnblockSignal, Running, tableVars, mainVars, handlerVars, kernelVars, AioInv, TypeOK
<1>1. TypeOK'
  BY DEF TypeOK, Blocks, Conditions, Results
<1>2. FdsHeld'
  BY DEF FdsHeld, InHand, Live, UsedBlocks, Blocks, Phases
<1>3. NoReadAfterRemove'
  BY DEF NoReadAfterRemove, Live, BlocksBeyondUnused, Blocks
<1>4. NoLostCompletion'
  BY DEF NoLostCompletion, Live, BeingAdded, Phases, Blocks, BlocksBeyondUnused
<1>5. BlocksBeyondUnused'
  BY DEF BlocksBeyondUnused, Live, Blocks
<1>6. Phases'
  BY DEF Phases, Live, UsedBlocks, Blocks
<1>7. EndsSeen'
  BY DEF EndsSeen, Live, BeingAdded, Phases, FdsHeld, Blocks, BlocksBeyondUnused, UsedBlocks
<1> QED
  BY <1>1, <1>2, <1>3, <1>4, <1>5, <1>6, <1>7

LEMMA ExitingInv ==
  ASSUME AioInv, Exiting
  PROVE  AioInv'
<1> USE AioAssumption DEF Exiting, tableVars, mainVars, handlerVars, kernelVars, AioInv, TypeOK
<1>1. TypeOK'
  BY DEF TypeOK, Blocks, Conditions, Results
<1>2. FdsHeld'
  BY DEF FdsHeld, InHand, Live, UsedBlocks, Blocks, Phases
<1>3. NoReadAfterRemove'
  BY DEF NoReadAfterRemove, Live, BlocksBeyondUnused, Blocks
<1>4. NoLostCompletion'
  BY DEF NoLostCompletion, Live, BeingAdded, Phases, Blocks, BlocksBeyondUnused
<1>5. BlocksBeyondUnused'
  BY DEF BlocksBeyondUnused, Live, Blocks
<1>6. Phases'
  BY DEF Phases, Live, UsedBlocks, Blocks
<1>7. EndsSeen'
  BY DEF EndsSeen, Live, BeingAdded, Phases, FdsHeld, Blocks, BlocksBeyondUnused, UsedBlocks
<1> QED
  BY <1>1, <1>2, <1>3, <1>4, <1>5, <1>6, <1>7

LEMMA HandlerEnterInv ==
  ASSUME AioInv, HandlerEnter
  PROVE  AioInv'
<1> USE AioAssumption DEF HandlerEnter, tableVars, mainVars, handlerVars, kernelVars, AioInv, TypeOK
<1>1. TypeOK'
  <2>1. i' \in 0 .. MaxClients
    OBVIOUS
  <2>2. scanning' \in BOOLEAN /\ pending' \in BOOLEAN
    OBVIOUS
  <2> QED
    BY <2>1, <2>2 DEF TypeOK
<1>2. FdsHeld'
  BY DEF FdsHeld, InHand, Live, UsedBlocks, Blocks, Phases
<1>3. NoReadAfterRemove'
  BY DEF NoReadAfterRemove, Live, BlocksBeyondUnused, Blocks
<1>4. NoLostCompletion'
  BY DEF NoLostCompletion, Live, BeingAdded, Phases, Blocks, BlocksBeyondUnused
<1>5. BlocksBeyondUnused'
  BY DEF BlocksBeyondUnused, Live, Blocks
<1>6. Phases'
  BY DEF Phases, Live, UsedBlocks, Blocks
<1>7. EndsSeen'
  BY DEF EndsSeen, Live, BeingAdded, Phases, FdsHeld, Blocks, BlocksBeyondUnused, UsedBlocks
<1> QED
  BY <1>1, <1>2, <1>3, <1>4, <1>5, <1>6, <1>7

LEMMA ScanSkipInv ==
  ASSUME AioInv, ScanSkip
  PROVE  AioInv'
<1> USE AioAssumption DEF ScanSkip, Scanned, tableVars, mainVars, handlerVars, kernelVars, AioInv, TypeOK
<1>1. TypeOK'
  BY DEF TypeOK, Blocks, Conditions, Results
<1>2. FdsHeld'
  BY DEF FdsHeld, InHand, Live, UsedBlocks, Blocks, Phases
<1>3. NoReadAfterRemove'
  BY DEF NoReadAfterRemove, Live, BlocksBeyondUnused, Blocks
<1>4. NoLostCompletion'
  BY DEF NoLostCompletion, Live, BeingAdded, Phases, Blocks, BlocksBeyondUnused
<1>5. BlocksBeyondUnused'
  BY DEF BlocksBeyondUnused, Live, Blocks
<1>6. Phases'
  BY DEF Phases, Live, UsedBlocks, Blocks
<1>7. EndsSeen'
  BY DEF EndsSeen, Live, BeingAdded, Phases, FdsHeld, Blocks, BlocksBeyondUnused, UsedBlocks
<1> QED
  BY <1>1, <1>2, <1>3, <1>4, <1>5, <1>6, <1>7

LEMMA ScanDataInv ==
  ASSUME AioInv, ScanData
  PROVE  AioInv'
<1> USE AioAssumption DEF ScanData, Scanned, NextBlock, tableVars, mainVars, handlerVars, kernelVars, AioInv, TypeOK
<1>1. TypeOK'
  BY DEF TypeOK, Blocks, Conditions, Results
<1>2. FdsHeld'
  BY DEF FdsHeld, InHand, Live, UsedBlocks, Blocks, Phases
<1>3. NoReadAfterRemove'
  BY DEF NoReadAfterRemove, Live, BlocksBeyondUnused, Blocks
<1>4. NoLostCompletion'
  BY DEF NoLostCompletion, Live, BeingAdded, Phases, Blocks, BlocksBeyondUnused
<1>5. BlocksBeyondUnused'
  BY DEF BlocksBeyondUnused, Live, Blocks
<1>6. Phases'
  BY DEF Phases, Live, UsedBlocks, Blocks
<1>7. EndsSeen'
  BY DEF EndsSeen, Live, BeingAdded, Phases, FdsHeld, Blocks, BlocksBeyondUnused, UsedBlocks
<1> QED
  BY <1>1, <1>2, <1>3, <1>4, <1>5, <1>6, <1>7

LEMMA ScanEndInv ==
  ASSUME AioInv, ScanEnd
  PROVE  AioInv'
<1> USE AioAssumption DEF ScanEnd, Scanned, Freed, tableVars, mainVars, handlerVars, kernelVars, AioInv, TypeOK
<1>1. TypeOK'
  BY DEF TypeOK, Blocks, Conditions, Results
<1>2. FdsHeld'
  BY DEF FdsHeld, InHand, Live, UsedBlocks, Blocks, Phases
<1>3. NoReadAfterRemove'
  BY DEF NoReadAfterRemove, Live, BlocksBeyondUnused, Blocks
<1>4. NoLostCompletion'
  BY DEF NoLostCompletion, Live, BeingAdded, Phases, Blocks, BlocksBeyondUnused
<1>5. BlocksBeyondUnused'
  BY DEF BlocksBeyondUnused, Live, Blocks
<1>6. Phases'
  BY DEF Phases, Live, UsedBlocks, Blocks
<1>7. EndsSeen'
  BY DEF EndsSeen, Live, BeingAdded, Phases, FdsHeld, Blocks, BlocksBeyondUnused, UsedBlocks
<1> QED
  BY <1>1, <1>2, <1>3, <1>4, <1>5, <1>6, <1>7

LEMMA HandlerReturnInv ==
  ASSUME AioInv, HandlerReturn
  PROVE  AioInv'
<1> USE AioAssumption DEF HandlerReturn, tableVars, mainVars, handlerVars, kernelVars, AioInv, TypeOK
<1>1. TypeOK'
  <2>1. i' \in 0 .. MaxClients
    OBVIOUS
  <2>2. scanning' \in BOOLEAN /\ pending' \in BOOLEAN
    OBVIOUS
  <2> QED
    BY <2>1, <2>2 DEF TypeOK
<1>2. FdsHeld'
  BY DEF FdsHeld, InHand, Live, UsedBlocks, Blocks, Phases
<1>3. NoReadAfterRemove'
  BY DEF NoReadAfterRemove, Live, BlocksBeyondUnused, Blocks
<1>4. NoLostCompletion'
  BY DEF NoLostCompletion, Live, BeingAdded, Phases, Blocks, BlocksBeyondUnused
<1>5. BlocksBeyondUnused'
  BY DEF BlocksBeyondUnused, Live, Blocks
<1>6. Phases'
  BY DEF Phases, Live, UsedBlocks, Blocks
<1>7. EndsSeen'
  BY DEF EndsSeen, Live, BeingAdded, Phases, FdsHeld, Blocks, BlocksBeyondUnused, UsedBlocks
<1> QED
  BY <1>1, <1>2, <1>3, <1>4, <1>5, <1>6, <1>7

LEMMA CompleteInv ==
  ASSUME AioInv, NEW fd \in Fds, Complete(fd)
  PROVE  AioInv'
<1> USE AioAssumption DEF Complete, ResultOf, tableVars, mainVars, handlerVars, kernelVars, AioInv, TypeOK
<1>1. TypeOK'
  BY DEF TypeOK, Blocks, Conditions, Results
<1>2. FdsHeld'
  BY DEF FdsHeld, InHand, Live, UsedBlocks, Blocks, Phases
<1>3. NoReadAfterRemove'
  BY DEF NoReadAfterRemove, Live, BlocksBeyondUnused, Blocks
<1>4. NoLostCompletion'
  BY DEF NoLostCompletion, Live, BeingAdded, Phases, Blocks, BlocksBeyondUnused
<1>5. BlocksBeyondUnused'
  BY DEF BlocksBeyondUnused, Live, Blocks
<1>6. Phases'
  BY DEF Phases, Live, UsedBlocks, Blocks
<1>7. EndsSeen'
  <2>1. PICK b \in UsedBlocks :
           /\ fildes[b] = fd /\ status[b] = "progress"
           /\ status' = [status EXCEPT ![b] = ResultOf(fd)]
    OBVIOUS
  <2>2. UsedBlocks \subseteq Blocks
    BY DEF UsedBlocks, Blocks
  <2>3. ResultOf(fd) = "eof" => "FIN" \in sock[fd]
    BY DEF Conditions
  <2>4. \A x \in Fds : "FIN" \in sock[x] => "FIN" \in sock'[x]
    OBVIOUS
  <2> HIDE DEF ResultOf, Complete
  <2>5. /\ pc # "exit" /\ UNCHANGED <<fildes, pc, index>>
        /\ \A c \in Blocks : status'[c] = IF c = b THEN ResultOf(fd) ELSE status[c]
    BY <2>1, <2>2 DEF Complete
  <2> QED
    BY <2>1, <2>2, <2>3, <2>4, <2>5 DEF EndsSeen, Live, BeingAdded
<1> QED
  BY <1>1, <1>2, <1>3, <1>4, <1>5, <1>6, <1>7

LEMMA NotifyInv ==
  ASSUME AioInv, NEW fd \in Fds, Notify(fd)
  PROVE  AioInv'
<1> USE AioAssumption DEF Notify, tableVars, mainVars, handlerVars, kernelVars, AioInv, TypeOK
<1>1. TypeOK'
  BY DEF TypeOK, Blocks, Conditions, Results
<1>2. FdsHeld'
  BY DEF FdsHeld, InHand, Live, UsedBlocks, Blocks, Phases
<1>3. NoReadAfterRemove'
  BY DEF NoReadAfterRemove, Live, BlocksBeyondUnused, Blocks
<1>4. NoLostCompletion'
  BY DEF NoLostCompletion, Live, BeingAdded, Phases, Blocks, BlocksBeyondUnused
<1>5. BlocksBeyondUnused'
  BY DEF BlocksBeyondUnused, Live, Blocks
<1>6. Phases'
  BY DEF Phases, Live, UsedBlocks, Blocks
<1>7. EndsSeen'
  BY DEF EndsSeen, Live, BeingAdded, Phases, FdsHeld, Blocks, BlocksBeyondUnused, UsedBlocks
<1> QED
  BY <1>1, <1>2, <1>3, <1>4, <1>5, <1>6, <1>7

LEMMA ConnectInv ==
  ASSUME AioInv, Connect
  PROVE  AioInv'
<1> USE AioAssumption DEF Connect, tableVars, mainVars, handlerVars, kernelVars, AioInv, TypeOK
<1>1. TypeOK'
  BY DEF TypeOK, Blocks, Conditions, Results
<1>2. FdsHeld'
  BY DEF FdsHeld, InHand, Live, UsedBlocks, Blocks, Phases
<1>3. NoReadAfterRemove'
  BY DEF NoReadAfterRemove, Live, BlocksBeyondUnused, Blocks
<1>4. NoLostCompletion'
  BY DEF NoLostCompletion, Live, BeingAdded, Phases, Blocks, BlocksBeyondUnused
<1>5. BlocksBeyondUnused'
  BY DEF BlocksBeyondUnused, Live, Blocks
<1>6. Phases'
  BY DEF Phases, Live, UsedBlocks, Blocks
<1>7. EndsSeen'
  BY DEF EndsSeen, Live, BeingAdded, Phases, FdsHeld, Blocks, BlocksBeyondUnused, UsedBlocks
<1> QED
  BY <1>1, <1>2, <1>3, <1>4, <1>5, <1>6, <1>7

LEMMA PeerDoesInv ==
  ASSUME AioInv, NEW fd \in Fds, PeerDoes(fd)
  PROVE  AioInv'
<1> USE AioAssumption DEF PeerDoes, tableVars, mainVars, handlerVars, kernelVars, AioInv, TypeOK
<1>1. TypeOK'
  BY DEF TypeOK, Blocks, Conditions, Results
<1>2. FdsHeld'
  BY DEF FdsHeld, InHand, Live, UsedBlocks, Blocks, Phases
<1>3. NoReadAfterRemove'
  BY DEF NoReadAfterRemove, Live, BlocksBeyondUnused, Blocks
<1>4. NoLostCompletion'
  BY DEF NoLostCompletion, Live, BeingAdded, Phases, Blocks, BlocksBeyondUnused
<1>5. BlocksBeyondUnused'
  BY DEF BlocksBeyondUnused, Live, Blocks
<1>6. Phases'
  BY DEF Phases, Live, UsedBlocks, Blocks
<1>7. EndsSeen'
  BY DEF EndsSeen, Live, BeingAdded, Phases, FdsHeld, Blocks, BlocksBeyondUnused, UsedBlocks
<1> QED
  BY <1>1, <1>2, <1>3, <1>4, <1>5, <1>6, <1>7

LEMMA UnchangedInv ==
  ASSUME AioInv, UNCHANGED vars
  PROVE  AioInv'
<1> USE AioAssumption DEF vars, tableVars, mainVars, handlerVars, kernelVars, AioInv, TypeOK
<1>1. TypeOK'
  BY DEF TypeOK, Blocks, Conditions, Results
<1>2. FdsHeld'
  BY DEF FdsHeld, InHand, Live, UsedBlocks, Blocks, Phases
<1>3. NoReadAfterRemove'
  BY DEF NoReadAfterRemove, Live, BlocksBeyondUnused, Blocks
<1>4. NoLostCompletion'
  BY DEF NoLostCompletion, Live, BeingAdded, Phases, Blocks, BlocksBeyondUnused
<1>5. BlocksBeyondUnused'
  BY DEF BlocksBeyondUnused, Live, Blocks
<1>6. Phases'
  BY DEF Phases, Live, UsedBlocks, Blocks
<1>7. EndsSeen'
  BY DEF EndsSeen, Live, BeingAdded, Phases, FdsHeld, Blocks, BlocksBeyondUnused, UsedBlocks
<1> QED
  BY <1>1, <1>2, <1>3, <1>4, <1>5, <1>6, <1>7

-----------------------------------------------------------------------------
LEMMA NextAioInv ==
  ASSUME AioInv, [Next]_vars
  PROVE  AioInv'
<1>1. CASE Main
  BY <1>1, AcceptInv, BlockSignalInv, StoreClientInv, SubmitFirstInv,
     UnblockSignalInv, ExitingInv DEF Main, AcceptFails
<1>2. CASE HandlerEnter
  BY <1>2, HandlerEnterInv
<1>3. CASE Handler
  BY <1>3, ScanSkipInv, ScanDataInv, ScanEndInv, HandlerReturnInv, ExitingInv
     DEF Handler, ScanError
<1>4. CASE Interrupt
  BY <1>4, ExitingInv DEF Interrupt
<1>5. CASE \E fd \in Fds : Complete(fd) \/ Notify(fd) \/ PeerDoes(fd)
  BY <1>5, CompleteInv, NotifyInv, PeerDoesInv
<1>6. CASE Connect
  BY <1>6, ConnectInv
<1>7. CASE UNCHANGED vars
  BY <1>7, UnchangedInv
<1> QED
  BY <1>1, <1>2, <1>3, <1>4, <1>5, <1>6, <1>7 DEF Next, Exited

(* The inductive invariant of lab32's server.                              *)
THEOREM AioIsConsistent == Spec => []AioInv
<1>1. Init => AioInv
  BY InitAioInv
<1>2. AioInv /\ [Next]_vars => AioInv'
  BY NextAioInv
<1> QED
  BY <1>1, <1>2, PTL DEF Spec

(* get_first_suitable_index never leaves the array, although it does not   *)
(* look at its end.                                                        *)
THEOREM SearchStaysInBounds == Spec => []SearchEndsInBounds
<1>1. AioInv => SearchEndsInBounds
  BY SearchLemma
<1> QED
  BY <1>1, AioIsConsistent, PTL

(* No finished read is forgotten, although SIGUSR1 is not queued.          *)
THEOREM NoCompletionIsLost == Spec => []NoLostCompletion
<1>1. AioInv => NoLostCompletion
  BY DEF AioInv
<1> QED
  BY <1>1, AioIsConsistent, PTL

(* A running server closes a connection only after its peer ended it.      *)
THEOREM AioClosesOnlyEnded == Spec => ClosesOnlyEnded
<1> DEFINE Ended == \A fd \in open : fd \notin open' /\ pc' # "exit" => "FIN" \in sock[fd]
<1>1. AioInv /\ [Next]_vars => Ended \/ UNCHANGED vars
  <2> SUFFICES ASSUME AioInv, Next, NEW fd \in open, fd \notin open', pc' # "exit"
               PROVE  "FIN" \in sock[fd]
    OBVIOUS
  <2>1. CASE ScanEnd
    BY <2>1, AioAssumption
       DEF ScanEnd, Scanned, AioInv, TypeOK, Phases, EndsSeen, Live, BeingAdded,
           Blocks
  <2>2. CASE ~ScanEnd
    <3>1. open' = open \cup {clientFd'} \/ UNCHANGED open
      BY <2>2 DEF Next, Main, Accept, AcceptFails, BlockSignal, StoreClient, SubmitFirst,
                  UnblockSignal, HandlerEnter, Handler, ScanSkip, ScanData, ScanError,
                  HandlerReturn, Interrupt, Exiting, Complete, Notify, PeerDoes, Connect,
                  Exited, vars, kernelVars
    <3> QED
      BY <3>1
  <2> QED
    BY <2>1, <2>2
<1>2. AioInv /\ [Next]_vars => [Ended]_vars
  BY <1>1
<1> QED
  BY <1>2, AioIsConsistent, PTL DEF Spec, ClosesOnlyEnded
====
