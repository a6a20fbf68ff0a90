---- MODULE ProxyServer ----
(***************************************************************************)
(* lab33's proxy (src/lab33/lab33-proxy.c): the loop of lab33's server     *)
(* over sessions of two connections.  Every ready session moves bytes from *)
(* its client to its destination and back through two buffers, with        *)
(* blocking reads and writes.                                              *)
(*                                                                         *)
(* The kernel's view of a descriptor is what a read would meet (nothing,   *)
(* data, the peer's end closed, the connection reset) and whether its send *)
(* buffer has room.  A write fits whenever poll has reported POLLOUT.      *)
(***************************************************************************)
EXTENDS ProxyRegistry, IdList

CONSTANTS
    Backlog,                \* bound on connections waiting in the listen queue
    PeerActs                \* bound on what peers do: "data", "end", "reset",
                            \* and "slow", not to read for a while

ASSUME ProxyAssumption ==
    /\ Backlog \in Nat
    /\ Events = {"POLLIN", "POLLOUT", "POLLERR"}
    /\ PeerActs \subseteq {"data", "end", "reset", "slow"}

VARIABLES
    pc,                     \* where the loop is
    i, processed,           \* try_read's locals
    ioable,                 \* its argument ioable_count
    hasPending,             \* POLLIN reported for the listener
    fdCount,                \* poll's result
    incoming,               \* kernel: what a read of a descriptor meets
    sendFull,               \* kernel: descriptors whose send buffer is full
    backlog                 \* kernel: connections waiting to be accepted

loopVars == <<pc, i, processed, ioable, hasPending, fdCount>>
kernelVars == <<incoming, sendFull, backlog>>
vars == <<proxyRegistryVars, listVars, loopVars, kernelVars>>

Conditions == {"quiet", "data", "end", "reset"}

TypeOK ==
    /\ RegistryTypeOK
    /\ SessionTypeOK
    /\ ListTypeOK
    /\ pc \in {"poll", "accept", "ctos", "stoc", "commit", "exit"}
    /\ i \in 0 .. MaxClients
    /\ processed \in 0 .. 2 * MaxClients + 1
    /\ ioable \in 0 .. 2 * MaxClients + 1
    /\ hasPending \in BOOLEAN
    /\ fdCount \in 0 .. 2 * MaxClients + 1
    /\ incoming \in [Fds -> Conditions]
    /\ sendFull \in SUBSET Fds
    /\ backlog \in 0 .. Backlog

Init ==
    /\ ProxyRegistryInit
    /\ ListInit
    /\ pc = "poll"
    /\ i = 0 /\ processed = 0 /\ ioable = 0
    /\ hasPending = FALSE
    /\ fdCount = 0
    /\ incoming = [fd \in Fds |-> "quiet"]
    /\ sendFull = {}
    /\ backlog = 0

-----------------------------------------------------------------------------
(* What poll reports for an open descriptor. *)
Revents(fd) ==
    (IF incoming[fd] # "quiet" THEN {"POLLIN"} ELSE {})
      \cup (IF fd \notin sendFull \/ incoming[fd] = "reset" THEN {"POLLOUT"} ELSE {})
      \cup (IF incoming[fd] = "reset" THEN {"POLLERR"} ELSE {})

Ready(entries) == Cardinality({s \in UsedSlots : entries[s].revents # {}})

AnyReady ==
    \E s \in UsedSlots : \E entry \in {clients[s], servers[s]} :
        entry.fd # REMOVED_CLIENT /\ Revents(entry.fd) # {}

Poll ==
    /\ pc = "poll"
    /\ backlog > 0 \/ AnyReady
    /\ PollSessions([fd \in Fds |-> Revents(fd)])
    /\ hasPending' = (backlog > 0)
    /\ fdCount' = Ready(clients') + Ready(servers') + (IF backlog > 0 THEN 1 ELSE 0)
    /\ pc' = "accept"
    /\ UNCHANGED <<listVars, i, processed, ioable, kernelVars>>

(* try_read(proxy, count). *)
EnterTryRead(count) ==
    /\ pc' = "ctos"
    /\ i' = 0
    /\ processed' = 0
    /\ ioable' = count
    /\ fdCount' = 0                             \* not used again
    /\ UNCHANGED hasPending

(* "continue", or the loop's end: poll again. *)
EndRound ==
    /\ pc' = "poll"
    /\ i' = 0 /\ processed' = 0 /\ ioable' = 0
    /\ hasPending' = FALSE /\ fdCount' = 0

NothingPending ==
    /\ pc = "accept"
    /\ ~hasPending
    /\ EnterTryRead(fdCount)
    /\ UNCHANGED <<proxyRegistryVars, listVars, kernelVars>>

AcceptSession ==
    /\ pc = "accept"
    /\ hasPending /\ backlog > 0
    /\ \E clientFd, serverFd \in Unused :
          clientFd # serverFd /\ AddSession(clientFd, serverFd)
    /\ AppendId(NextId)
    /\ backlog' = backlog - 1
    /\ EnterTryRead(fdCount - 1)
    /\ UNCHANGED <<incoming, sendFull>>

(* The connection is closed again and the round ends ("continue"): the     *)
(* destination cannot be reached or there is no descriptor for it, or the  *)
(* table is full.                                                          *)
AcceptUndone ==
    /\ pc = "accept"
    /\ hasPending /\ backlog > 0
    /\ Unused # {}
    /\ backlog' = backlog - 1
    /\ EndRound
    /\ UNCHANGED <<proxyRegistryVars, listVars, incoming, sendFull>>

(* accept returned -1: aborted, or no descriptors left. *)
AcceptFails ==
    /\ pc = "accept"
    /\ hasPending
    /\ \/ Unused = {} /\ UNCHANGED backlog
       \/ backlog > 0 /\ backlog' = backlog - 1
    /\ EndRound
    /\ UNCHANGED <<proxyRegistryVars, listVars, incoming, sendFull>>

-----------------------------------------------------------------------------
(* try_transfer.  A result says how it ends, how many bytes the buffer     *)
(* holds then, and what the kernel then keeps of the two connections.      *)

Result(how, count, in, full) ==
    [how |-> how, count |-> count, incoming |-> in, sendFull |-> full]

Failed(count) == Result("fail", count, incoming, sendFull)

(* iob_recv: any part of what waits; reading nothing, or into no space, is *)
(* an error.  When nothing waits read blocks, and there is no result.      *)
Received(sender, count) ==
    LET fd == sender.fd
        Filled(left) == [incoming EXCEPT ![fd] = left]
        Some(left) == {Result("ok", c, Filled(left), sendFull) : c \in count + 1 .. BufferSize}
        Full(left) == {Result("ok", BufferSize, Filled(left), sendFull)}
    IN  IF fd = REMOVED_CLIENT \/ count = BufferSize \/ incoming[fd] = "end"
          THEN {Failed(count)}
        ELSE IF incoming[fd] = "data" THEN Some("quiet") \cup Full("data")
        ELSE IF incoming[fd] = "reset" THEN Some("reset") \cup {Failed(count)}
        ELSE {}

(* iob_send, after a receive that ended in r: everything is written, which *)
(* may fill the send buffer.  Writing to a reset connection fails or, when *)
(* the peer had closed its end before, raises SIGPIPE.  Writing to one     *)
(* that has no room blocks.                                                *)
Sent(receiver, r) ==
    LET fd == receiver.fd IN
    IF fd = REMOVED_CLIENT THEN {[r EXCEPT !.how = "fail"]}
    ELSE IF r.incoming[fd] = "reset" THEN {[r EXCEPT !.how = h] : h \in {"fail", "killed"}}
    ELSE IF fd \in r.sendFull THEN {}
    ELSE {[r EXCEPT !.count = 0, !.sendFull = f] :
             f \in {r.sendFull} \cup (IF "slow" \in PeerActs THEN {r.sendFull \cup {fd}} ELSE {})}

WantsRecv(sender, count) == count < BufferSize /\ "POLLIN" \in sender.revents

(* A wrong try_transfer that writes without asking whether there is room.  *)
WantsSendAlways(count, receiver) == count > 0

WantsSend(count, receiver) == count > 0 /\ "POLLOUT" \in receiver.revents

TransferResults(sender, count, receiver) ==
    UNION { IF r.how = "ok" /\ WantsSend(r.count, receiver) THEN Sent(receiver, r) ELSE {r} :
            r \in IF WantsRecv(sender, count) THEN Received(sender, count)
                  ELSE {Result("ok", count, incoming, sendFull)} }

-----------------------------------------------------------------------------
(* try_read *)

ReadLoopGuard == processed < ioable /\ i < listCount

CurrentClient == GetClient(list[i])

CurrentServer == GetServer(list[i])

CountIoable(entry) == IF entry.revents # {} THEN 1 ELSE 0

HasErrors == "POLLERR" \in CurrentClient.revents \cup CurrentServer.revents

CloseConnections(in, full) ==
    LET closed == {CurrentClient.fd, CurrentServer.fd} IN
    /\ incoming' = [fd \in Fds |-> IF fd \in closed THEN "quiet" ELSE in[fd]]
    /\ sendFull' = full \ closed

(* A wrong pr_remove_client that takes the index for the id. *)
DropCurrentByIndex(in, full) ==
    /\ RemoveSession(i)
    /\ MarkRemoved(i)
    /\ CloseConnections(in, full)
    /\ pc' = "ctos"
    /\ i' = i + 1

(* pr_remove_client, then on to the next entry. *)
DropCurrent(in, full) ==
    /\ RemoveSession(list[i])
    /\ MarkRemoved(i)
    /\ CloseConnections(in, full)
    /\ pc' = "ctos"
    /\ i' = i + 1

(* SIGPIPE's default action. *)
Killed ==
    /\ pc' = "exit"
    /\ up' = FALSE
    /\ open' = {} /\ openServers' = {}
    /\ incoming' = [fd \in Fds |-> "quiet"] /\ sendFull' = {}
    /\ UNCHANGED <<idTable, indexToId, clientCount, clients, servers, ctos,
                   stoc, destination, listVars, i>>

Kept(r) == incoming' = r.incoming /\ sendFull' = r.sendFull

UpToServer ==
    \E r \in TransferResults(CurrentClient, ctos[list[i]], CurrentServer) :
        \/ /\ r.how = "ok"
           /\ ctos' = [ctos EXCEPT ![list[i]] = r.count]
           /\ Kept(r)
           /\ pc' = "stoc"
           /\ UNCHANGED <<registryVars, servers, stoc, openServers, destination,
                          listVars, i>>
        \/ r.how = "fail" /\ DropCurrent(r.incoming, r.sendFull)
        \/ r.how = "killed" /\ Killed

(* An iteration up to its first try_transfer. *)
TryReadClient ==
    /\ pc = "ctos"
    /\ ReadLoopGuard
    /\ processed' = processed + CountIoable(CurrentClient) + CountIoable(CurrentServer)
    /\ IF HasErrors THEN DropCurrent(incoming, sendFull) ELSE UpToServer
    /\ UNCHANGED <<ioable, hasPending, fdCount, backlog>>

(* The second try_transfer. *)
TryReadServer ==
    /\ pc = "stoc"
    /\ \E r \in TransferResults(CurrentServer, stoc[list[i]], CurrentClient) :
        \/ /\ r.how = "ok"
           /\ stoc' = [stoc EXCEPT ![list[i]] = r.count]
           /\ Kept(r)
           /\ pc' = "ctos"
           /\ i' = i + 1
           /\ UNCHANGED <<registryVars, servers, ctos, openServers, destination,
                          listVars>>
        \/ r.how = "fail" /\ DropCurrent(r.incoming, r.sendFull)
        \/ r.how = "killed" /\ Killed
    /\ UNCHANGED <<processed, ioable, hasPending, fdCount, backlog>>

TryReadEnd ==
    /\ pc = "ctos"
    /\ ~ReadLoopGuard
    /\ CommitBegin
    /\ pc' = "commit"
    /\ i' = 0 /\ processed' = 0 /\ ioable' = 0
    /\ UNCHANGED <<proxyRegistryVars, hasPending, fdCount, kernelVars>>

CommitLoop ==
    /\ pc = "commit"
    /\ CommitStep
    /\ UNCHANGED <<proxyRegistryVars, loopVars, kernelVars>>

CommitDone ==
    /\ pc = "commit"
    /\ CommitEnd
    /\ EndRound
    /\ UNCHANGED <<proxyRegistryVars, kernelVars>>

Loop ==
    \/ Poll
    \/ NothingPending \/ AcceptSession \/ AcceptUndone \/ AcceptFails
    \/ TryReadClient \/ TryReadServer \/ TryReadEnd
    \/ CommitLoop \/ CommitDone

(* SIGINT between two steps, or poll failing. *)
Interrupt ==
    /\ pc # "exit"
    /\ CleanupSessions
    /\ pc' = "exit"
    /\ incoming' = [fd \in Fds |-> "quiet"] /\ sendFull' = {}
    /\ UNCHANGED <<listVars, i, processed, ioable, hasPending, fdCount, backlog>>

-----------------------------------------------------------------------------
(* The peers of both sides. *)

Connect ==
    /\ pc # "exit"
    /\ backlog < Backlog
    /\ backlog' = backlog + 1
    /\ UNCHANGED <<proxyRegistryVars, listVars, loopVars, incoming, sendFull>>

PeerSends(fd) ==
    /\ incoming[fd] = "quiet"
    /\ \E c \in {"data", "end"} \cap PeerActs : incoming' = [incoming EXCEPT ![fd] = c]
    /\ UNCHANGED sendFull

PeerResets(fd) ==
    /\ "reset" \in PeerActs
    /\ incoming' = [incoming EXCEPT ![fd] = "reset"]
    /\ UNCHANGED sendFull

PeerReads(fd) ==
    /\ fd \in sendFull
    /\ sendFull' = sendFull \ {fd}
    /\ UNCHANGED incoming

PeerStep ==
    /\ pc # "exit"
    /\ \E fd \in open \cup openServers : PeerSends(fd) \/ PeerResets(fd) \/ PeerReads(fd)
    /\ UNCHANGED <<proxyRegistryVars, listVars, loopVars, backlog>>

Exited == pc = "exit" /\ UNCHANGED vars

Next == Loop \/ Interrupt \/ Connect \/ PeerStep \/ Exited

Spec == Init /\ [][Next]_vars

-----------------------------------------------------------------------------
(* Properties. *)

(* The session try_read is about to look at. *)
Visiting == pc = "stoc" \/ (pc = "ctos" /\ ReadLoopGuard)

(* Every registered session is in the list once and conversely, although   *)
(* they are updated at different times: get_client, get_server and the     *)
(* buffers are never NULL in try_read.                                     *)
ListMatchesSessions ==
    pc # "exit" =>
        /\ Members = Live /\ NoDuplicates
        /\ pc \in {"poll", "accept"} => listCount = clientCount
        /\ Visiting => list[i] \in Live

(* The last of the list, when a connection was accepted in this round.     *)
AcceptedThisRound == hasPending /\ i = listCount - 1

(* The only thread never blocks in a read or a write of a session that     *)
(* poll has looked at, in spite of the removals that move entries under    *)
(* its hands.  (Of the session accepted in this round no such thing can be *)
(* said: with four sessions or more it may be visited with the readiness   *)
(* its slot's last user left behind.)                                      *)
Blocked ==
    \/ pc = "ctos" /\ ReadLoopGuard /\ ~HasErrors
         /\ TransferResults(CurrentClient, ctos[list[i]], CurrentServer) = {}
    \/ pc = "stoc"
         /\ TransferResults(CurrentServer, stoc[list[i]], CurrentClient) = {}

PolledNeverBlock == Blocked => AcceptedThisRound

(* A running proxy ends a session only after one of its peers ended its    *)
(* connection, or after a removal has taken the session's destination.     *)
Broken(client, server) ==
    \/ incoming[client] \in {"end", "reset"}
    \/ server = REMOVED_CLIENT
    \/ incoming[server] \in {"end", "reset"}

DropsOnlyBroken ==
    [][\A id \in Live : ~(id \in Live') /\ up' =>
          Broken(GetClient(id).fd, GetServer(id).fd) \/ AcceptedThisRound]_vars

-----------------------------------------------------------------------------
(* The inductive invariant behind these properties. *)

(* What poll reported about one end of a session, but for what has been    *)
(* used of it, still holds.  There is nothing to say of a lost end.        *)
StillReported(entry, used) ==
    entry.fd # REMOVED_CLIENT => entry.revents \ used \subseteq Revents(entry.fd)

SessionIsFresh(id) ==
    StillReported(GetClient(id), {}) /\ StillReported(GetServer(id), {})

Newcomer(p) == hasPending /\ p = listCount - 1

(* The report holds for every session still to be visited, except for the  *)
(* one accepted in this round.  Between a session's two transfers what it  *)
(* takes for the second one is left of it.                                 *)
RoundIsFresh ==
    /\ pc = "accept" => \A id \in Live : SessionIsFresh(id)
    /\ pc \in {"ctos", "stoc"} => \A p \in UsedPositions :
         p > i \/ (p = i /\ pc = "ctos") => SessionIsFresh(list[p]) \/ Newcomer(p)
    /\ pc = "stoc" =>
         \/ Newcomer(i)
         \/ /\ StillReported(CurrentClient, {"POLLIN"})
            /\ StillReported(CurrentServer, {"POLLOUT"})

(* Marks only appear behind try_read, and what it counts with stays within *)
(* two entries for each session and one for the listener.                  *)
PhaseOfRound ==
    /\ up <=> pc # "exit"
    /\ pc \in {"poll", "accept"} => removedCount = 0
    /\ pc # "exit" => (committing <=> pc = "commit")
    /\ pc \in {"ctos", "stoc"} => \A p \in MarkedPositions : p < i
    /\ pc = "stoc" => i < listCount /\ processed <= 2 * i + 2
    /\ pc = "ctos" => processed <= 2 * i
    /\ pc = "accept" => /\ fdCount <= 2 * clientCount + 1
                        /\ hasPending => fdCount >= 1

(* The loop's own tables agree with the registry's: the list, its marks    *)
(* and the progress of its compaction with the sessions; and the loop only *)
(* acts on what poll reported in this round about this very session.       *)
ProxyInv ==
    /\ TypeOK
    /\ ListInv
    /\ ListMatchesSessions
    /\ \A s \in UsedSlots : clients[s].fd # REMOVED_CLIENT
    /\ PhaseOfRound
    /\ RoundIsFresh
====
