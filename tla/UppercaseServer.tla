---- MODULE UppercaseServer ----
(***************************************************************************)
(* lab33's server (src/lab33/lab33-server.c): a single thread that polls   *)
(* its listener and its clients, accepts at most one connection per round  *)
(* and then reads every client poll reported ready.  Composes the client   *)
(* registry with the list of ids the loop walks; the peers' ends of the    *)
(* connections, the listen queue and the descriptor table are the          *)
(* environment and may change between any two steps of the loop.           *)
(*                                                                         *)
(* A descriptor in `Fds` may be one client's now and another's later.  The *)
(* kernel's view of it is the set of conditions a read would meet: data    *)
(* waiting, the peer's end closed, the connection reset.  The server never *)
(* writes to a client, so its send buffers are empty and POLLOUT is always *)
(* reported.  The bytes, their upper-casing and the copy to stdout are     *)
(* left out; reading takes all the data that waits (the next send makes    *)
(* the descriptor readable again).                                         *)
(***************************************************************************)
EXTENDS ClientRegistry, IdList

CONSTANT Backlog            \* bound on connections waiting in the listen queue

ASSUME ServerAssumption == Backlog \in Nat /\ Events = {"POLLIN", "POLLOUT", "POLLERR"}

VARIABLES
    pc,                     \* where the loop is
    i, processed,           \* try_read's locals
    ioable,                 \* its argument ioable_count
    hasPending,             \* POLLIN reported for the listener
    fdCount,                \* poll's result
    sock,                   \* kernel: what waits on every client descriptor
    backlog                 \* kernel: connections waiting to be accepted

loopVars == <<pc, i, processed, ioable, hasPending, fdCount>>
kernelVars == <<sock, backlog>>
vars == <<registryVars, listVars, loopVars, kernelVars>>

Conditions == {"DATA", "FIN", "RST"}

TypeOK ==
    /\ RegistryTypeOK
    /\ ListTypeOK
    /\ pc \in {"poll", "accept", "read", "commit", "exit"}
    /\ i \in 0 .. MaxClients
    /\ processed \in 0 .. MaxClients
    /\ ioable \in 0 .. MaxClients + 1
    /\ hasPending \in BOOLEAN
    /\ fdCount \in 0 .. MaxClients + 1
    /\ sock \in [Fds -> SUBSET Conditions]
    /\ backlog \in 0 .. Backlog

Init ==
    /\ RegistryInit
    /\ ListInit
    /\ pc = "poll"
    /\ i = 0 /\ processed = 0 /\ ioable = 0
    /\ hasPending = FALSE
    /\ fdCount = 0
    /\ sock = [fd \in Fds |-> {}]
    /\ backlog = 0

-----------------------------------------------------------------------------
(* What poll reports for an open client descriptor. *)
Revents(fd) ==
    {"POLLOUT"}
      \cup (IF sock[fd] # {} THEN {"POLLIN"} ELSE {})
      \cup (IF "RST" \in sock[fd] THEN {"POLLERR"} ELSE {})

(* What the kernel keeps when the descriptors in S are closed. *)
Closing(S) == [fd \in Fds |-> IF fd \in S THEN {} ELSE sock[fd]]

(* main_loop: poll returns once the listener or a client is ready. *)
Poll ==
    /\ pc = "poll"
    /\ backlog > 0 \/ clientCount > 0
    /\ PollClients([fd \in Fds |-> Revents(fd)])
    /\ hasPending' = (backlog > 0)
    /\ fdCount' = Cardinality({s \in UsedSlots : clients'[s].revents # {}})
                    + (IF backlog > 0 THEN 1 ELSE 0)
    /\ pc' = "accept"
    /\ UNCHANGED <<listVars, i, processed, ioable, kernelVars>>

(* "continue", or the loop's end: poll again. *)
EndRound ==
    /\ pc' = "poll"
    /\ i' = 0 /\ processed' = 0 /\ ioable' = 0
    /\ hasPending' = FALSE /\ fdCount' = 0

EnterTryRead(count) ==
    /\ pc' = "read"
    /\ i' = 0
    /\ processed' = 0
    /\ ioable' = count
    /\ hasPending' = FALSE /\ fdCount' = 0     \* not used again

NothingPending ==
    /\ pc = "accept"
    /\ ~hasPending
    /\ EnterTryRead(fdCount)
    /\ UNCHANGED <<registryVars, listVars, kernelVars>>

AcceptClient ==
    /\ pc = "accept"
    /\ hasPending /\ backlog > 0
    /\ \E fd \in Fds \ open : AddClient(fd)
    /\ AppendId(NextId)
    /\ backlog' = backlog - 1
    /\ EnterTryRead(fdCount - 1)
    /\ UNCHANGED sock

(* accept gave a descriptor, add_client had no id for it: it is closed and *)
(* the round ends ("continue").                                            *)
RefuseClient ==
    /\ pc = "accept"
    /\ hasPending /\ backlog > 0
    /\ Fds \ open # {}
    /\ NextId = NO_ID
    /\ backlog' = backlog - 1
    /\ EndRound
    /\ UNCHANGED <<registryVars, listVars, sock>>

(* accept returned -1, either because the connection was aborted or because *)
(* the descriptor table is full: the round ends here, too.                  *)
AcceptFails ==
    /\ pc = "accept"
    /\ hasPending
    /\ \/ Fds \subseteq open /\ UNCHANGED backlog
       \/ backlog > 0 /\ backlog' = backlog - 1
    /\ EndRound
    /\ UNCHANGED <<registryVars, listVars, sock>>

-----------------------------------------------------------------------------
(* One iteration of try_read's loop. *)

(* Two wrong loop conditions: lab31's, and one that stops a client short. *)
ReadLoopGuardInclusive == processed <= ioable /\ i < listCount

ReadLoopGuardShort == processed + 1 < ioable /\ i < listCount

ReadLoopGuard == processed < ioable /\ i < listCount

Current == GetClient(list[i])

CountIoable(revents) == processed + (IF revents # {} THEN 1 ELSE 0)

(* has_errors, or a read that returned -1 or 0: the client is removed from *)
(* the registry and marked in the list.                                    *)
DropCurrent ==
    /\ RemoveClient(list[i])
    /\ MarkRemoved(i)
    /\ sock' = Closing({Current.fd})

KeepCurrent ==
    /\ sock' = [sock EXCEPT ![Current.fd] =
                  IF "POLLIN" \in Current.revents THEN @ \ {"DATA"} ELSE @]
    /\ UNCHANGED <<registryVars, listVars>>

(* try_transfer fails when nothing is left to read from a connection that  *)
(* ended.  read() on a descriptor where nothing at all waits blocks.       *)
TransferFails ==
    /\ "POLLIN" \in Current.revents
    /\ "DATA" \notin sock[Current.fd]

ReadWouldBlock ==
    /\ "POLLERR" \notin Current.revents
    /\ "POLLIN" \in Current.revents
    /\ sock[Current.fd] = {}

TryReadNext ==
    /\ pc = "read"
    /\ ReadLoopGuard
    /\ ~ReadWouldBlock
    /\ processed' = CountIoable(Current.revents)
    /\ i' = i + 1
    /\ IF "POLLERR" \in Current.revents \/ TransferFails
         THEN DropCurrent
         ELSE KeepCurrent
    /\ UNCHANGED <<pc, ioable, hasPending, fdCount, backlog>>

TryReadEnd ==
    /\ pc = "read"
    /\ ~ReadLoopGuard
    /\ CommitBegin
    /\ pc' = "commit"
    /\ i' = 0 /\ processed' = 0 /\ ioable' = 0
    /\ UNCHANGED <<registryVars, hasPending, fdCount, kernelVars>>

CommitLoop ==
    /\ pc = "commit"
    /\ CommitStep
    /\ UNCHANGED <<registryVars, loopVars, kernelVars>>

CommitDone ==
    /\ pc = "commit"
    /\ CommitEnd
    /\ EndRound
    /\ UNCHANGED <<registryVars, kernelVars>>

Loop ==
    \/ Poll
    \/ NothingPending \/ AcceptClient \/ RefuseClient \/ AcceptFails
    \/ TryReadNext \/ TryReadEnd
    \/ CommitLoop \/ CommitDone

(* SIGINT at any moment, or poll failing: clean up and exit. *)
Interrupt ==
    /\ pc # "exit"
    /\ SafeCleanup
    /\ sock' = Closing({clients[s].fd : s \in UsedSlots})
    /\ pc' = "exit"
    /\ UNCHANGED <<listVars, i, processed, ioable, hasPending, fdCount, backlog>>

-----------------------------------------------------------------------------
(* The peers. *)

Connect ==
    /\ pc # "exit"
    /\ backlog < Backlog
    /\ backlog' = backlog + 1
    /\ UNCHANGED <<registryVars, listVars, loopVars, sock>>

PeerDoes(fd) ==
    \/ /\ sock[fd] \cap {"FIN", "RST"} = {}
       /\ \E c \in {"DATA", "FIN"} : sock' = [sock EXCEPT ![fd] = @ \cup {c}]
    \/ sock' = [sock EXCEPT ![fd] = @ \cup {"RST"}]

PeerStep ==
    /\ pc # "exit"
    /\ \E fd \in open : PeerDoes(fd)
    /\ UNCHANGED <<registryVars, listVars, loopVars, backlog>>

Exited == pc = "exit" /\ UNCHANGED vars

Next == Loop \/ Interrupt \/ Connect \/ PeerStep \/ Exited

(* The loop is the process's only thread: it runs whenever it is not       *)
(* blocked in poll or read.                                                *)
Spec == Init /\ [][Next]_vars /\ WF_vars(Loop)

-----------------------------------------------------------------------------
(* Properties. *)

(* The list the loop walks and the registry always name the same clients,  *)
(* each once; between two rounds the list has no holes.                    *)
ListMatchesRegistry ==
    /\ Members = Live
    /\ NoDuplicates
    /\ pc \in {"poll", "accept"} => listCount = clientCount

(* try_read only visits clients that are still there (get_client never     *)
(* returns NULL), and never acts on readiness poll did not report in this  *)
(* round for this connection: neither for a client accepted in this round, *)
(* whose entry still holds what its predecessor left there, nor for one    *)
(* whose entry moved when another client was removed.                      *)
ReadinessIsFresh ==
    pc = "read" /\ ReadLoopGuard =>
        /\ IsValidId(list[i])
        /\ Current.fd \in open
        /\ Current.revents \subseteq Revents(Current.fd)

(* So the only thread never blocks in read while others wait. *)
ReadNeverBlocks == pc = "read" /\ ReadLoopGuard => ~ReadWouldBlock

(* A connection is only ever closed by a running server after its peer     *)
(* ended it: never in place of another client.                             *)
ClosesOnlyEnded ==
    [][\A fd \in open : fd \notin open' /\ up' => sock[fd] \cap {"FIN", "RST"} # {}]_vars

(* Every client whose connection has something to read is served, provided *)
(* that rounds eventually stop being cut short by an accept that failed or *)
(* had to be undone (main_loop skips try_read then).                       *)
RoundCutShort == RefuseClient \/ AcceptFails

Served ==
    <>[][~RoundCutShort]_vars =>
        \A fd \in Fds : sock[fd] # {} ~> sock[fd] = {} \/ pc = "exit"
-----------------------------------------------------------------------------
(* The inductive invariant behind these properties. *)

(* Poll's report about a live client still describes its connection: what  *)
(* was readable stays readable until this thread reads it.                 *)
IsFresh(id) ==
    /\ id \in Live
    /\ GetClient(id).fd \in open
    /\ "POLLOUT" \in GetClient(id).revents
    /\ GetClient(id).revents \subseteq Revents(GetClient(id).fd)

(* The clients poll reported on are the first `ioable` of the list, and    *)
(* every one of them is ioable, so try_read counts as many clients as it   *)
(* visits and stops right before a client accepted in this round.          *)
RoundIsFresh ==
    /\ pc = "accept" =>
         /\ fdCount = clientCount + (IF hasPending THEN 1 ELSE 0)
         /\ \A id \in Live : IsFresh(id)
    /\ pc = "read" =>
         /\ ioable <= listCount /\ i <= ioable
         /\ processed = i
         /\ \A p \in MarkedPositions : p < i
         /\ \A p \in UsedPositions : i <= p /\ p < ioable => IsFresh(list[p])

PhaseOfCommit ==
    /\ pc \in {"poll", "accept"} => removedCount = 0
    /\ pc \in {"poll", "accept", "read"} => ~committing
    /\ pc = "commit" => committing
    /\ up <=> pc # "exit"

ServerInv ==
    /\ TypeOK
    /\ RegistryInv
    /\ ListInv
    /\ Members = Live
    /\ \A s \in UsedSlots : clients[s].fd # REMOVED_CLIENT
    /\ PhaseOfCommit
    /\ RoundIsFresh
====
