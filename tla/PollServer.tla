---- MODULE PollServer ----
(***************************************************************************)
(* lab31's single-threaded server (src/lab31/lab31-server.c): the dense    *)
(* array of pollfds is its only table.  Entry 0 is the listener; clients   *)
(* that ended are marked in their entry while a round walks over the array *)
(* and swapped out of it afterwards.                                       *)
(*                                                                         *)
(* Only the descriptors are swapped: the revents stay with the entry until *)
(* the next poll covers it again, and mx_add does not clear them.  A       *)
(* client accepted in this round may thus be read although nothing waits   *)
(* there; the read then blocks the server until that client sends or ends. *)
(*                                                                         *)
(* The kernel's view of a descriptor is the set of conditions a read would *)
(* meet, as in UppercaseServer; bytes and their upper-casing are left out. *)
(***************************************************************************)
EXTENDS Integers, FiniteSets, FiniteSetsExt

CONSTANTS
    SOMAXCONN,              \* the array's size
    Fds,                    \* descriptors accept may return
    Backlog                 \* bound on connections waiting in the listen queue

(* mx_add has no check of its own: the descriptor limit stands in for it. *)
ASSUME PollServerAssumption ==
    /\ SOMAXCONN \in Nat /\ Backlog \in Nat
    /\ IsFiniteSet(Fds) /\ Cardinality(Fds) < SOMAXCONN
    /\ -1 \notin Fds                   \* which marks a removed client

VARIABLES
    clients,                \* the array: [fd, readable] of every client entry
    clientCount,            \* used entries, the listener's included
    toRemove,               \* clients_to_remove_count
    firstToRemove,          \* first_client_to_remove; 0: none
    pc,
    i, readFd,              \* try_read's locals; i is also the commit's
    readable,               \* its argument readable_count
    j, removedCount,        \* commit_remove_clients' locals
    sock, open, backlog     \* kernel

tableVars == <<clients, clientCount, toRemove, firstToRemove>>
localVars == <<i, readFd, readable, j, removedCount>>
kernelVars == <<sock, open, backlog>>
vars == <<tableVars, pc, localVars, kernelVars>>

REMOVED_CLIENT == -1

Slots == 1 .. SOMAXCONN - 1

Used == 1 .. clientCount - 1

Marked == {s \in Used : clients[s].fd = REMOVED_CLIENT}

Conditions == {"DATA", "FIN", "RST"}

TypeOK ==
    /\ clients \in [Slots -> [fd : Fds \cup {REMOVED_CLIENT}, readable : BOOLEAN]]
    /\ clientCount \in 1 .. SOMAXCONN
    /\ toRemove \in 0 .. SOMAXCONN - 1
    /\ firstToRemove \in 0 .. SOMAXCONN - 1
    /\ pc \in {"poll", "accept", "read", "commit", "exit"}
    /\ i \in 0 .. SOMAXCONN /\ j \in 0 .. SOMAXCONN - 1
    /\ readFd \in Nat /\ readable \in Nat /\ removedCount \in Nat
    /\ sock \in [Fds -> SUBSET Conditions]
    /\ open \subseteq Fds
    /\ backlog \in 0 .. Backlog

(* init_server; an unused entry's fd is 0, which nothing looks at. *)
Init ==
    /\ clients = [s \in Slots |-> [fd |-> REMOVED_CLIENT, readable |-> FALSE]]
    /\ clientCount = 1
    /\ toRemove = 0 /\ firstToRemove = 0
    /\ pc = "poll"
    /\ i = 1 /\ readFd = 0 /\ readable = 0
    /\ j = 0 /\ removedCount = 0
    /\ sock = [fd \in Fds |-> {}]
    /\ open = {}
    /\ backlog = 0

(* The locals of try_read and commit_remove_clients go out of scope. *)
RoundLocalsDie ==
    /\ i' = 1 /\ j' = 0
    /\ readFd' = 0 /\ readable' = 0 /\ removedCount' = 0

-----------------------------------------------------------------------------
(* A round of main's loop: poll, accept, try_read, commit_remove_clients. *)

(* poll returns once the listener or a client is ready and rewrites the    *)
(* revents of the used entries.  It never reports POLLIN for a marked one: *)
(* there is none between two rounds.                                       *)
PolledOneShort == Used \ {clientCount - 1}  \* wrong: does not count the listener

Polled == Used

ReadableSlots == {s \in Polled : sock[clients[s].fd] # {}}

Poll ==
    /\ pc = "poll"
    /\ backlog > 0 \/ ReadableSlots # {}
    /\ clients' = [s \in Slots |->
         IF s \in Polled THEN [clients[s] EXCEPT !.readable = s \in ReadableSlots]
         ELSE clients[s]]
    /\ readable' = Cardinality(ReadableSlots)
    /\ pc' = IF backlog > 0 THEN "accept" ELSE "read"
    /\ UNCHANGED <<clientCount, toRemove, firstToRemove, i, j, readFd, removedCount, kernelVars>>

(* accept, then mx_add: the entry keeps the revents it had. *)
Accept(fd) ==
    /\ pc = "accept"
    /\ backlog > 0 /\ fd \notin open
    /\ open' = open \cup {fd}
    /\ backlog' = backlog - 1
    /\ clients' = [clients EXCEPT ![clientCount].fd = fd]
    /\ clientCount' = clientCount + 1
    /\ pc' = "read"
    /\ UNCHANGED <<toRemove, firstToRemove, localVars, sock>>

(* accept fails, for want of a descriptor or because the connection was    *)
(* aborted: cleanup_server and return from main, which closes everything.  *)
AcceptFails ==
    /\ pc = "accept"
    /\ \/ Fds \subseteq open /\ UNCHANGED backlog
       \/ backlog > 0 /\ backlog' = backlog - 1
    /\ open' = {}
    /\ sock' = [fd \in Fds |-> {}]
    /\ pc' = "exit"
    /\ UNCHANGED <<tableVars, localVars>>

(* A wrong loop condition that stops before the last client poll reported. *)
ReadLoopGuardShort == readFd + 1 < readable /\ i < clientCount

(* The condition of the code lets one client more than poll reported pass. *)
ReadLoopGuard == readFd <= readable /\ i < clientCount

Skip ==
    /\ pc = "read" /\ ReadLoopGuard
    /\ ~clients[i].readable
    /\ i' = i + 1
    /\ UNCHANGED <<tableVars, pc, readFd, readable, j, removedCount, kernelVars>>

(* A wrong remove_client that does not keep the smallest index. *)
MarkEntryLast(s) ==
    /\ clients' = [clients EXCEPT ![s].fd = REMOVED_CLIENT]
    /\ toRemove' = toRemove + 1
    /\ firstToRemove' = s

(* remove_client, but for the close; indices from 1 on, so 0 is "none". *)
MarkEntry(s) ==
    /\ clients' = [clients EXCEPT ![s].fd = REMOVED_CLIENT]
    /\ toRemove' = toRemove + 1
    /\ firstToRemove' = IF firstToRemove = 0 \/ firstToRemove > s THEN s
                        ELSE firstToRemove

(* The read of a readable entry blocks while nothing waits on it. *)
CurrentFd == clients[i].fd

ReadBlocks == pc = "read" /\ ReadLoopGuard /\ clients[i].readable /\ sock[CurrentFd] = {}

EndOfStream == "DATA" \notin sock[CurrentFd]

(* read takes the data that waits; 0 at the end of the stream. *)
Read ==
    /\ pc = "read" /\ ReadLoopGuard
    /\ clients[i].readable
    /\ sock[CurrentFd] # {} /\ "RST" \notin sock[CurrentFd]
    /\ readFd' = readFd + 1
    /\ i' = i + 1
    /\ \/ /\ ~EndOfStream
          /\ sock' = [sock EXCEPT ![CurrentFd] = @ \ {"DATA"}]
          /\ UNCHANGED <<tableVars, open>>
       \/ /\ EndOfStream
          /\ MarkEntry(i)
          /\ open' = open \ {CurrentFd}
          /\ sock' = [sock EXCEPT ![CurrentFd] = {}]
          /\ UNCHANGED clientCount
    /\ UNCHANGED <<pc, readable, j, removedCount, backlog>>

(* read returns -1.  The loop that upper-cases the bytes compares a size_t *)
(* with it, runs as if there were SIZE_MAX of them and out of the buffer:  *)
(* the process dies before it gets to remove_client.                       *)
ReadFails ==
    /\ pc = "read" /\ ReadLoopGuard
    /\ clients[i].readable
    /\ "RST" \in sock[CurrentFd]
    /\ open' = {}
    /\ sock' = [fd \in Fds |-> {}]
    /\ pc' = "exit"
    /\ UNCHANGED <<tableVars, localVars, backlog>>

(* commit_remove_clients' first lines. *)
CommitBegin ==
    /\ pc = "read" /\ ~ReadLoopGuard
    /\ IF toRemove = 0 \/ firstToRemove = 0
         THEN pc' = "poll" /\ RoundLocalsDie
         ELSE /\ pc' = "commit"
              /\ i' = firstToRemove /\ j' = clientCount - 1
              /\ removedCount' = 0 /\ readFd' = 0 /\ readable' = 0
    /\ UNCHANGED <<tableVars, kernelVars>>

CommitLoopGuard == removedCount < toRemove /\ i < j

(* A wrong condition of the inner while that does not look at i. *)
LastKeptAnywhere == Max({s \in Slots : s <= j /\ clients[s].fd # REMOVED_CLIENT} \cup {1})

(* Where the inner while stops: at the last kept entry behind i, or at i. *)
LastKept == Max({s \in i .. j : clients[s].fd # REMOVED_CLIENT} \cup {i})

CommitStep ==
    /\ pc = "commit" /\ CommitLoopGuard
    /\ IF clients[i].fd = REMOVED_CLIENT
         THEN /\ clients' = [clients EXCEPT ![i].fd = clients[LastKept].fd,
                                            ![LastKept].fd = clients[i].fd]
              /\ j' = LastKept - 1
              /\ removedCount' = removedCount + (j - LastKept) + 1
         ELSE UNCHANGED <<clients, j, removedCount>>
    /\ i' = i + 1
    /\ UNCHANGED <<clientCount, toRemove, firstToRemove, pc, readFd, readable, kernelVars>>

CommitEnd ==
    /\ pc = "commit" /\ ~CommitLoopGuard
    /\ clientCount' = clientCount - toRemove
    /\ toRemove' = 0 /\ firstToRemove' = 0
    /\ pc' = "poll"
    /\ RoundLocalsDie
    /\ UNCHANGED <<clients, kernelVars>>

Loop ==
    \/ Poll
    \/ \E fd \in Fds : Accept(fd)
    \/ AcceptFails
    \/ Skip \/ Read \/ ReadFails
    \/ CommitBegin \/ CommitStep \/ CommitEnd

(* SIGINT: safe_cleanup closes what the array holds and unlinks the path. *)
Interrupt ==
    /\ pc # "exit"
    /\ open' = open \ {clients[s].fd : s \in Used}
    /\ sock' = [fd \in Fds |-> IF fd \in open' THEN sock[fd] ELSE {}]
    /\ pc' = "exit"
    /\ UNCHANGED <<tableVars, localVars, backlog>>

Connect ==
    /\ pc # "exit"
    /\ backlog < Backlog
    /\ backlog' = backlog + 1
    /\ UNCHANGED <<tableVars, pc, localVars, sock, open>>

PeerDoes(fd) ==
    \/ /\ sock[fd] \cap {"FIN", "RST"} = {}
       /\ \E c \in {"DATA", "FIN"} : sock' = [sock EXCEPT ![fd] = @ \cup {c}]
    \/ sock' = [sock EXCEPT ![fd] = {"RST"}]

PeerStep ==
    /\ \E fd \in open : PeerDoes(fd)
    /\ pc # "exit"
    /\ UNCHANGED <<tableVars, pc, localVars, open, backlog>>

Exited == pc = "exit" /\ UNCHANGED vars

Next == Loop \/ Interrupt \/ Connect \/ PeerStep \/ Exited

(* The loop is the process's only thread: it runs unless it is blocked. *)
Spec == Init /\ [][Next]_vars /\ WF_vars(Loop)

-----------------------------------------------------------------------------
(* Properties. *)

(* The used entries hold the open descriptors, each once, and otherwise    *)
(* marks that are all counted, the first of them at firstToRemove; between *)
(* two rounds there is no mark.  So no connection is leaked or held twice, *)
(* and mx_add never writes behind the array.                               *)
TableInv ==
    /\ TypeOK
    /\ pc # "exit" =>
         /\ {clients[s].fd : s \in Used} \ {REMOVED_CLIENT} = open
         /\ \A s, t \in Used \ Marked : s # t => clients[s].fd # clients[t].fd
         /\ Cardinality(Marked) = toRemove
    /\ pc \in {"poll", "accept"} => Marked = {}
    /\ pc = "read" /\ Marked # {} => firstToRemove = Min(Marked)

(* The compaction stays among the used entries, and when it ends every     *)
(* mark is behind the entries it keeps, where the new count cuts it off.   *)
CommitGathers ==
    pc = "commit" =>
        /\ i \in 1 .. clientCount /\ j < clientCount
        /\ ~CommitLoopGuard => Marked = clientCount - toRemove .. clientCount - 1

(* Only the read of the client accepted last can block the server, and it  *)
(* does so only after poll's whole report was dealt with up to that entry: *)
(* a client poll reported on is never read without something waiting.      *)
OnlyNewcomerBlocks == ReadBlocks => i = clientCount - 1 /\ readFd = readable

(* Whoever has something to read is read or closed, unless the server is   *)
(* blocked for ever by a newcomer that stays silent.                       *)
ServedUnlessBlocked ==
    []<>~ReadBlocks =>
        \A fd \in Fds : sock[fd] # {} ~> sock[fd] = {} \/ pc = "exit"
====
