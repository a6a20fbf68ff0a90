---- MODULE AioServer ----
(***************************************************************************)
(* lab32's server (src/lab32/lab32-server.c).  main accepts connections    *)
(* and gives each a control block (aiocb) with a read in progress.  Reads  *)
(* are carried out by the C library's AIO threads, one per descriptor,     *)
(* which store the result in the control block and then send SIGUSR1.  Its *)
(* handler, run by main's own thread between any two of main's steps,      *)
(* scans all control blocks, prints what was read and reads again.         *)
(*                                                                         *)
(* SIGUSR1 is not queued: signals that arrive while one is pending are     *)
(* lost, and it is blocked inside the handler and around add_client's      *)
(* updates.  A control block keeps the status of its last request until    *)
(* the next one is submitted; aio_error and aio_return only look at it.    *)
(* One that was never used reads as if it had met the end of the file.     *)
(*                                                                         *)
(* The bytes and their upper-casing are left out, and reading takes all    *)
(* the data that waits.                                                    *)
(***************************************************************************)
EXTENDS Integers, FiniteSets

CONSTANTS
    MaxClients,     \* SOMAXCONN
    Fds,            \* descriptors accept may return (RLIMIT_NOFILE)
    REMOVED_CLIENT,
    Backlog         \* bound on connections waiting in the listen queue

(* get_first_suitable_index stops at a free control block without looking  *)
(* at the end of the array.  What keeps it inside is that the process runs *)
(* out of descriptors first (1024 by default; SOMAXCONN is 4096).          *)
ASSUME AioAssumption ==
    /\ MaxClients \in Nat
    /\ IsFiniteSet(Fds) /\ Cardinality(Fds) <= MaxClients
    /\ REMOVED_CLIENT \notin Fds
    /\ Backlog \in Nat

VARIABLES
    fildes,         \* clients[].aio_fildes
    status,         \* what aio_error and aio_return say of clients[]
    clientCount,    \* client_count: control blocks ever used
    pc,             \* where main is
    clientFd, index,    \* locals of main and add_client
    masked,         \* SIGUSR1 is blocked by add_client
    scanning, i,    \* in aio_handler, and its loop index
    pending,        \* SIGUSR1 is pending
    notifying,      \* descriptors whose AIO thread has yet to send SIGUSR1
    open,           \* client descriptors open in the kernel
    sock,           \* kernel: what waits on each of them
    backlog         \* kernel: connections waiting to be accepted

tableVars == <<fildes, status, clientCount>>
mainVars == <<pc, clientFd, index, masked>>
handlerVars == <<scanning, i>>
kernelVars == <<pending, notifying, open, sock, backlog>>
vars == <<tableVars, mainVars, handlerVars, kernelVars>>

Blocks == 0 .. MaxClients - 1

UsedBlocks == 0 .. clientCount - 1

Conditions == {"DATA", "FIN", "RST"}

Results == {"data", "eof", "error"}

TypeOK ==
    /\ fildes \in [Blocks -> Fds \cup {REMOVED_CLIENT}]
    /\ status \in [Blocks -> Results \cup {"progress"}]
    /\ clientCount \in 0 .. MaxClients
    /\ pc \in {"accept", "block", "store", "submit", "unblock", "exit"}
    /\ clientFd \in Fds \cup {REMOVED_CLIENT}
    /\ index \in Blocks \cup {MaxClients}
    /\ masked \in BOOLEAN
    /\ scanning \in BOOLEAN
    /\ i \in 0 .. MaxClients
    /\ pending \in BOOLEAN
    /\ notifying \in SUBSET Fds
    /\ open \in SUBSET Fds
    /\ sock \in [Fds -> SUBSET Conditions]
    /\ backlog \in 0 .. Backlog

Init ==
    /\ fildes = [b \in Blocks |-> REMOVED_CLIENT]
    /\ status = [b \in Blocks |-> "eof"]        \* memset
    /\ clientCount = 0
    /\ pc = "accept"
    /\ clientFd = REMOVED_CLIENT
    /\ index = MaxClients                       \* undefined outside add_client
    /\ masked = FALSE
    /\ scanning = FALSE
    /\ i = 0
    /\ pending = FALSE
    /\ notifying = {}
    /\ open = {}
    /\ sock = [fd \in Fds |-> {}]
    /\ backlog = 0

-----------------------------------------------------------------------------
(* main and add_client; they stand still while the handler runs.           *)

Running(at) == pc = at /\ ~scanning

Accept ==
    /\ Running("accept")
    /\ backlog > 0
    /\ \E fd \in Fds \ open :
          /\ clientFd' = fd
          /\ open' = open \cup {fd}
    /\ backlog' = backlog - 1
    /\ pc' = "block"
    /\ UNCHANGED <<tableVars, index, masked, handlerVars, pending, notifying, sock>>

(* A wrong add_client that does not block the signal. *)
BlockSignalNot ==
    /\ Running("block")
    /\ pc' = "store"
    /\ UNCHANGED <<tableVars, clientFd, index, masked, handlerVars, kernelVars>>

BlockSignal ==
    /\ Running("block")
    /\ masked' = TRUE
    /\ pc' = "store"
    /\ UNCHANGED <<tableVars, clientFd, index, handlerVars, kernelVars>>

FirstSuitable(b) ==
    /\ fildes[b] = REMOVED_CLIENT
    /\ \A c \in Blocks : c < b => fildes[c] # REMOVED_CLIENT

StoreClient ==
    /\ Running("store")
    /\ \E b \in Blocks :
          /\ FirstSuitable(b)
          /\ index' = b
          /\ fildes' = [fildes EXCEPT ![b] = clientFd]
          /\ clientCount' = IF b >= clientCount THEN clientCount + 1 ELSE clientCount
    /\ pc' = "submit"
    /\ UNCHANGED <<status, clientFd, masked, handlerVars, kernelVars>>

SubmitFirst ==
    /\ Running("submit")
    /\ status' = [status EXCEPT ![index] = "progress"]
    /\ pc' = "unblock"
    /\ UNCHANGED <<fildes, clientCount, clientFd, index, masked, handlerVars, kernelVars>>

UnblockSignal ==
    /\ Running("unblock")
    /\ masked' = FALSE
    /\ pc' = "accept"
    /\ clientFd' = REMOVED_CLIENT /\ index' = MaxClients       \* out of scope
    /\ UNCHANGED <<tableVars, handlerVars, kernelVars>>

(* What safe_cleanup leaves open: a descriptor not stored yet. *)
Exiting ==
    /\ pc' = "exit"
    /\ open' = open \ {fildes[b] : b \in UsedBlocks}
    /\ sock' = [fd \in Fds |-> IF fd \in open' THEN sock[fd] ELSE {}]
    /\ UNCHANGED <<tableVars, clientFd, index, masked, handlerVars, pending,
                   notifying, backlog>>

(* accept failed otherwise than by the handler's interruption (which makes *)
(* main call it again): the server gives up.                               *)
AcceptFails ==
    /\ Running("accept")
    /\ Fds \subseteq open \/ backlog > 0
    /\ Exiting

Main ==
    \/ Accept \/ AcceptFails
    \/ BlockSignal \/ StoreClient \/ SubmitFirst \/ UnblockSignal

-----------------------------------------------------------------------------
(* aio_handler *)

HandlerEnter ==
    /\ pc # "exit" /\ pending /\ ~masked /\ ~scanning
    /\ scanning' = TRUE
    /\ pending' = FALSE
    /\ i' = 0
    /\ UNCHANGED <<tableVars, mainVars, notifying, open, sock, backlog>>

Scanned == pc # "exit" /\ scanning /\ i < clientCount

ScanSkip ==
    /\ Scanned
    /\ fildes[i] = REMOVED_CLIENT \/ status[i] = "progress"
    /\ i' = i + 1
    /\ UNCHANGED <<tableVars, mainVars, scanning, kernelVars>>

(* A wrong loop that serves the one client it was sent for. *)
NextBlockNone == clientCount

NextBlock == i + 1

(* Data: print it and read again. *)
ScanData ==
    /\ Scanned
    /\ fildes[i] # REMOVED_CLIENT /\ status[i] = "data"
    /\ status' = [status EXCEPT ![i] = "progress"]
    /\ i' = NextBlock
    /\ UNCHANGED <<fildes, clientCount, mainVars, scanning, kernelVars>>

(* A wrong remove_client that leaves the control block occupied. *)
FreedKept == fildes

Freed == [fildes EXCEPT ![i] = REMOVED_CLIENT]

(* End of file: remove_client. *)
ScanEnd ==
    /\ Scanned
    /\ fildes[i] # REMOVED_CLIENT /\ status[i] = "eof"
    /\ open' = open \ {fildes[i]}
    /\ sock' = [sock EXCEPT ![fildes[i]] = {}]
    /\ fildes' = Freed
    /\ i' = i + 1
    /\ UNCHANGED <<status, clientCount, mainVars, scanning, pending, notifying, backlog>>

(* Any other error of any client ends the server. *)
ScanError ==
    /\ Scanned
    /\ fildes[i] # REMOVED_CLIENT /\ status[i] = "error"
    /\ Exiting

HandlerReturn ==
    /\ pc # "exit" /\ scanning /\ i >= clientCount
    /\ scanning' = FALSE
    /\ i' = 0                                   \* out of scope
    /\ UNCHANGED <<tableVars, mainVars, kernelVars>>

Handler == ScanSkip \/ ScanData \/ ScanEnd \/ ScanError \/ HandlerReturn

(* SIGINT, which is never blocked. *)
Interrupt == pc # "exit" /\ Exiting

-----------------------------------------------------------------------------
(* The AIO thread of a descriptor: it finishes the read in progress as     *)
(* soon as read() has something to report, and then sends the signal.      *)

ResultOf(fd) ==
    IF "DATA" \in sock[fd] THEN "data"
    ELSE IF "RST" \in sock[fd] THEN "error" ELSE "eof"

Complete(fd) ==
    /\ pc # "exit"
    /\ fd \in open \ notifying /\ sock[fd] # {}
    /\ \E b \in UsedBlocks :
          /\ fildes[b] = fd /\ status[b] = "progress"
          /\ status' = [status EXCEPT ![b] = ResultOf(fd)]
    /\ sock' = [sock EXCEPT ![fd] = @ \ {"DATA"}]
    /\ notifying' = notifying \cup {fd}
    /\ UNCHANGED <<fildes, clientCount, mainVars, handlerVars, pending, open, backlog>>

Notify(fd) ==
    /\ pc # "exit"
    /\ fd \in notifying
    /\ notifying' = notifying \ {fd}
    /\ pending' = TRUE
    /\ UNCHANGED <<tableVars, mainVars, handlerVars, open, sock, backlog>>

(* The peers. *)
Connect ==
    /\ pc # "exit" /\ backlog < Backlog
    /\ backlog' = backlog + 1
    /\ UNCHANGED <<tableVars, mainVars, handlerVars, pending, notifying, open, sock>>

PeerDoes(fd) ==
    /\ pc # "exit"
    /\ fd \in open /\ sock[fd] \cap {"FIN", "RST"} = {}
    /\ \E c \in Conditions : sock' = [sock EXCEPT ![fd] = @ \cup {c}]
    /\ UNCHANGED <<tableVars, mainVars, handlerVars, pending, notifying, open, backlog>>

Exited == pc = "exit" /\ UNCHANGED vars

Next ==
    \/ Main
    \/ HandlerEnter \/ Handler
    \/ Interrupt
    \/ \E fd \in Fds : Complete(fd) \/ Notify(fd) \/ PeerDoes(fd)
    \/ Connect
    \/ Exited

(* Threads run when they can.  A pending signal is delivered whenever the  *)
(* thread returns from the kernel with the signal unblocked, which it does *)
(* again and again: strong fairness.                                       *)
Spec ==
    /\ Init /\ [][Next]_vars
    /\ WF_vars(Main) /\ WF_vars(Handler) /\ SF_vars(HandlerEnter)
    /\ \A fd \in Fds : WF_vars(Complete(fd)) /\ WF_vars(Notify(fd))

-----------------------------------------------------------------------------
(* Properties. *)

Live(b) == fildes[b] # REMOVED_CLIENT

BeingAdded(b) == pc = "submit" /\ b = index

(* A client's descriptor sits in exactly one used control block, or in     *)
(* main's hands; none leaks and none is held after it was closed.          *)
InHand == IF pc \in {"block", "store"} THEN {clientFd} ELSE {}

FdsHeld ==
    pc # "exit" =>
        /\ open = {fildes[b] : b \in {c \in UsedBlocks : Live(c)}} \cup InHand
        /\ \A b, c \in UsedBlocks : Live(b) /\ fildes[b] = fildes[c] => b = c
        /\ \A b \in UsedBlocks : fildes[b] \notin InHand

(* The search for a free control block never runs off the array, and only  *)
(* blocks that have been given a buffer (those below client_count) are     *)
(* ever read into.                                                         *)
SearchEndsInBounds ==
    pc = "store" => \E b \in Blocks : FirstSuitable(b) /\ b <= clientCount

(* No request is in progress for a client that was removed: nothing writes *)
(* into its buffer or into its successor's.                                *)
NoReadAfterRemove ==
    \A b \in Blocks : status[b] = "progress" => b < clientCount /\ Live(b)

(* A finished read is never forgotten, although signals are lost: one is   *)
(* pending or about to be sent, or the running handler has yet to come by. *)
NoLostCompletion ==
    pc # "exit" =>
        \A b \in Blocks :
            Live(b) /\ ~BeingAdded(b) /\ status[b] # "progress" =>
                \/ pending
                \/ fildes[b] \in notifying
                \/ scanning /\ i <= b

(* A running server closes a connection only after its peer ended it: the  *)
(* handler never takes the old status of a control block for its new       *)
(* client's.                                                               *)
ClosesOnlyEnded ==
    [][\A fd \in open : fd \notin open' /\ pc' # "exit" => "FIN" \in sock[fd]]_vars

(* Whatever a registered client sends is eventually read from its          *)
(* connection.  (One that main has accepted but not yet registered may     *)
(* wait forever: handlers may follow one another without a break.)         *)
Registered(fd) == \E b \in Blocks : fildes[b] = fd

Served ==
    \A fd \in Fds :
        sock[fd] # {} /\ Registered(fd) ~> sock[fd] = {} \/ pc = "exit"
-----------------------------------------------------------------------------
(* The inductive invariant behind these properties. *)

BlocksBeyondUnused == \A b \in Blocks : b >= clientCount => ~Live(b)

Phases ==
    pc # "exit" =>
        /\ masked <=> pc \in {"store", "submit", "unblock"}
        /\ scanning => ~masked
        /\ pc \in {"block", "store"} => clientFd \in Fds
        /\ pc = "submit" => index \in UsedBlocks /\ Live(index)

(* A control block that reports the end of its file tells the truth.       *)
EndsSeen ==
    pc # "exit" =>
        \A b \in Blocks :
            Live(b) /\ ~BeingAdded(b) /\ status[b] = "eof" => "FIN" \in sock[fildes[b]]

AioInv ==
    /\ TypeOK
    /\ FdsHeld
    /\ NoReadAfterRemove
    /\ NoLostCompletion
    /\ BlocksBeyondUnused
    /\ Phases
    /\ EndsSeen
====
