---- MODULE Multiplexer ----
(***************************************************************************)
(* lab31's multithreaded server (src/lab31/multithreading).  The main      *)
(* thread accepts connections and appends them to the multiplexer's array; *)
(* a reading thread polls the array, reads what is ready and compacts away *)
(* the clients that ended.                                                 *)
(*                                                                         *)
(* client_size_lock protects client_count (and main's append); a section   *)
(* under it is one step here.  reading_lock is only ever tried: the reader *)
(* holds it while it reads, and main, when it gets it, knows that the      *)
(* reader is waiting in poll or about to pause, cancels it and starts      *)
(* another one, which polls the new client, too.  When main does not get   *)
(* it, the new client has to wait for the next restart.                    *)
(*                                                                         *)
(* mx_add sets O_NONBLOCK with F_SETFD, which knows no such flag: reads    *)
(* block.  Bytes, the buffer and failures of the pthread functions are     *)
(* left out.                                                               *)
(***************************************************************************)
EXTENDS Integers, FiniteSets

CONSTANTS
    MaxClients,     \* SOMAXCONN
    Fds,            \* descriptors accept may return (RLIMIT_NOFILE)
    REMOVED_CLIENT,
    STDIN           \* 0, what mx_init's memset leaves in every entry

(* mx_add looks at no bound.  Clients already closed but not yet compacted *)
(* away count as well, so there can be twice as many as descriptors.       *)
ASSUME MultiplexerAssumption ==
    /\ MaxClients \in Nat \ {0}
    /\ IsFiniteSet(Fds) /\ 2 * Cardinality(Fds) <= MaxClients
    /\ REMOVED_CLIENT # STDIN /\ {REMOVED_CLIENT, STDIN} \cap Fds = {}

VARIABLES
    clients,            \* index -> [fd, revents], where revents is POLLIN or not
    clientCount,
    toRemove,           \* clients_to_remove_count
    firstToRemove,      \* first_client_to_remove
    readingLock,        \* its owner
    mpc, clientFd,      \* the main thread and its local
    quit,               \* quit_flag
    rpc,                \* the reading thread
    cancelled,          \* pthread_cancel has been called for it
    polled,             \* read_from_clients' local_client_count
    asked,              \* the descriptors poll copied from the array when it was called
    readable,           \* try_read's argument
    visited,            \* try_read's local_client_count
    readFd, i,          \* and its other locals
    j, removed,         \* commit_remove_clients' locals
    counted,            \* the count it started from (j = counted - 1 at first)
    open, sock          \* kernel: descriptors in use, what their peers did

tableVars == <<clients, clientCount, toRemove, firstToRemove>>
mainVars == <<mpc, clientFd, quit>>
loopVars == <<asked, readable, visited, readFd, i, j, removed, counted>>
readerVars == <<rpc, polled, loopVars>>
kernelVars == <<open, sock>>
vars == <<tableVars, readingLock, mainVars, readerVars, cancelled, kernelVars>>

Entries == 0 .. MaxClients - 1

Counts == 0 .. MaxClients

Descriptors == Fds \cup {REMOVED_CLIENT, STDIN}

NothingAsked == [k \in Entries |-> REMOVED_CLIENT]

TypeOK ==
    /\ clients \in [Entries -> [fd : Descriptors, revents : BOOLEAN]]
    /\ {clientCount, toRemove, firstToRemove} \subseteq Counts
    /\ readingLock \in {"free", "main", "reader"}
    /\ mpc \in {"loop", "accept", "add", "trylock", "cancel", "join", "start", "unlock",
                "cleanup", "joinlast", "exit"}
    /\ clientFd \in Fds \cup {REMOVED_CLIENT}
    /\ quit \in BOOLEAN /\ cancelled \in BOOLEAN
    /\ rpc \in {"count", "call", "poll", "trylock", "pause", "enter", "scan", "read",
                "commit", "compact", "subtract", "unlock", "dead"}
    /\ asked \in [Entries -> Descriptors]
    /\ {polled, readable, visited, readFd, i, removed, counted} \subseteq Counts
    /\ j \in Counts \cup {-1}
    /\ open \in SUBSET Fds
    /\ sock \in [Fds -> {"quiet", "data", "end"}]

Init ==
    /\ clients = [k \in Entries |-> [fd |-> STDIN, revents |-> FALSE]]
    /\ clientCount = 0 /\ toRemove = 0 /\ firstToRemove = 0
    /\ readingLock = "free"
    /\ mpc = "loop" /\ clientFd = REMOVED_CLIENT /\ quit = FALSE
    /\ rpc = "count" /\ cancelled = FALSE
    /\ asked = NothingAsked
    /\ polled = 0 /\ readable = 0 /\ visited = 0
    /\ readFd = 0 /\ i = 0 /\ j = 0 /\ removed = 0 /\ counted = 0
    /\ open = {} /\ sock = [fd \in Fds |-> "quiet"]

-----------------------------------------------------------------------------
(* The main thread: main, mx_add, restart_if_waits, mx_cleanup.            *)

(* The condition of the loop in main.                                      *)
Loop ==
    /\ mpc = "loop"
    /\ mpc' = IF quit THEN "cleanup" ELSE "accept"
    /\ UNCHANGED <<tableVars, readingLock, clientFd, quit, readerVars, cancelled,
                   kernelVars>>

(* A connection arrived.                                                   *)
Accept ==
    /\ mpc = "accept"
    /\ \E fd \in Fds \ open : clientFd' = fd /\ open' = open \cup {fd}
    /\ mpc' = "add"
    /\ UNCHANGED <<tableVars, readingLock, quit, readerVars, cancelled, sock>>

(* mx_add's section under client_size_lock.                                *)
Append ==
    /\ mpc = "add"
    /\ clients' = [clients EXCEPT ![clientCount].fd = clientFd]
    /\ clientCount' = clientCount + 1
    /\ clientFd' = REMOVED_CLIENT               \* not used again
    /\ mpc' = "trylock"
    /\ UNCHANGED <<toRemove, firstToRemove, readingLock, quit, readerVars,
                   cancelled, kernelVars>>

(* Wrong forms of restart_if_waits: it restarts without the lock, or waits *)
(* for it.                                                                 *)
RestartUnlocked ==
    /\ mpc = "trylock"
    /\ mpc' = "cancel"
    /\ UNCHANGED readingLock

RestartLock ==
    /\ mpc = "trylock"
    /\ readingLock = "free"
    /\ mpc' = "cancel" /\ readingLock' = "main"

RestartTryLock ==
    /\ mpc = "trylock"
    /\ IF readingLock = "free"
         THEN mpc' = "cancel" /\ readingLock' = "main"
         ELSE mpc' = "loop" /\ UNCHANGED readingLock

TryLock ==
    /\ RestartTryLock
    /\ UNCHANGED <<tableVars, clientFd, quit, readerVars, cancelled, kernelVars>>

Cancel ==
    /\ mpc \in {"cancel", "cleanup"}
    /\ cancelled' = TRUE
    /\ mpc' = IF mpc = "cancel" THEN "join" ELSE "joinlast"
    /\ UNCHANGED <<tableVars, readingLock, clientFd, quit, readerVars, kernelVars>>

Join ==
    /\ mpc = "join" /\ rpc = "dead"
    /\ mpc' = "start"
    /\ UNCHANGED <<tableVars, readingLock, clientFd, quit, readerVars, cancelled,
                   kernelVars>>

(* mx_start: a new thread with locals of its own.                          *)
Start ==
    /\ mpc = "start"
    /\ rpc' = "count" /\ cancelled' = FALSE
    /\ polled' = 0 /\ asked' = NothingAsked
    /\ mpc' = "unlock"
    /\ UNCHANGED <<tableVars, readingLock, clientFd, quit, readable, visited, readFd,
                   i, j, removed, counted, kernelVars>>

(* A wrong restart_if_waits that forgets to unlock.                        *)
LockKept == readingLock

LockReleased == "free"

Unlock ==
    /\ mpc = "unlock"
    /\ readingLock' = LockReleased
    /\ mpc' = "loop"
    /\ UNCHANGED <<tableVars, clientFd, quit, readerVars, cancelled, kernelVars>>

(* SIGINT's handler.  accept fails with EINTR, unless main has not entered *)
(* it yet or the uninitialized sa_flags hold SA_RESTART.                   *)
Interrupt ==
    /\ mpc # "exit"
    /\ quit' = TRUE
    /\ mpc' \in IF mpc = "accept" THEN {"accept", "cleanup"} ELSE {mpc}
    /\ UNCHANGED <<tableVars, readingLock, clientFd, readerVars, cancelled, kernelVars>>

Exiting ==
    /\ mpc' = "exit"
    /\ sock' = [fd \in Fds |-> "quiet"] /\ open' = {}
    /\ UNCHANGED <<tableVars, readingLock, clientFd, quit, readerVars, cancelled>>

(* The end of mx_cleanup, after pthread_join.                              *)
JoinLast == mpc = "joinlast" /\ rpc = "dead" /\ Exiting

(* accept failed (no descriptor is left, the connection is gone already):  *)
(* main returns without cleaning up.                                       *)
AcceptFails ==
    /\ mpc = "accept"
    /\ Exiting

(* What main does by itself, without a connection.                         *)
Main ==
    \/ Loop \/ Append \/ TryLock \/ Cancel \/ Join \/ Start \/ Unlock \/ JoinLast

-----------------------------------------------------------------------------
(* The reading thread.  A cancelled thread ends at its next cancellation   *)
(* point.                                                                  *)

Alive(at) == mpc # "exit" /\ rpc = at

AtCancellationPoint == rpc \in {"poll", "pause", "read"}

Die ==
    /\ mpc # "exit" /\ cancelled /\ AtCancellationPoint
    /\ rpc' = "dead"
    /\ UNCHANGED <<tableVars, readingLock, mainVars, polled, loopVars, cancelled,
                   kernelVars>>

(* Read once, before the loop.                                             *)
CountClients ==
    /\ Alive("count")
    /\ polled' = clientCount
    /\ rpc' = "call"
    /\ UNCHANGED <<tableVars, readingLock, mainVars, loopVars, cancelled, kernelVars>>

(* The kernel copies the array, waits, and writes the results to the array,*)
(* where main may have put another client by then.                         *)
PollCall ==
    /\ Alive("call")
    /\ asked' = [k \in Entries |-> IF k < polled THEN clients[k].fd ELSE REMOVED_CLIENT]
    /\ rpc' = "poll"
    /\ UNCHANGED <<tableVars, readingLock, mainVars, polled, readable, visited, readFd,
                   i, j, removed, counted, cancelled, kernelVars>>

Ready == {k \in Entries : asked[k] \in Fds /\ sock[asked[k]] # "quiet"}

PollReturn ==
    /\ Alive("poll") /\ ~cancelled
    /\ Ready # {}
    /\ clients' = [k \in Entries |->
         IF k < polled THEN [clients[k] EXCEPT !.revents = k \in Ready] ELSE clients[k]]
    /\ readable' = Cardinality(Ready)
    /\ asked' = NothingAsked
    /\ rpc' = "trylock"
    /\ UNCHANGED <<clientCount, toRemove, firstToRemove, readingLock, mainVars,
                   polled, visited, readFd, i, j, removed, counted, cancelled, kernelVars>>

ReaderTryLock ==
    /\ Alive("trylock")
    /\ IF readingLock = "free"
         THEN rpc' = "enter" /\ readingLock' = "reader"
         ELSE rpc' = "pause" /\ UNCHANGED readingLock
    /\ UNCHANGED <<tableVars, mainVars, polled, loopVars, cancelled, kernelVars>>

EnterTryRead ==
    /\ Alive("enter")
    /\ visited' = clientCount
    /\ readFd' = 0 /\ i' = 0
    /\ rpc' = "scan"
    /\ UNCHANGED <<tableVars, readingLock, mainVars, polled, asked, readable, j,
                   removed, counted, cancelled, kernelVars>>

(* The loop skips entries that are not ready: nobody else writes revents.  *)
Scan ==
    /\ Alive("scan")
    /\ LET ready == {k \in i .. visited - 1 : clients[k].revents}
       IN  IF readFd < readable /\ ready # {}
             THEN /\ \E k \in ready : i' = k /\ \A l \in ready : k <= l
                  /\ readFd' = readFd + 1
                  /\ rpc' = "read"
             ELSE rpc' = "commit" /\ UNCHANGED <<readFd, i>>
    /\ UNCHANGED <<tableVars, readingLock, mainVars, polled, asked, readable, visited, j,
                   removed, counted, cancelled, kernelVars>>

(* One read of the inner loop that returns data: read again.               *)
ReadData ==
    /\ Alive("read") /\ ~cancelled
    /\ clients[i].fd # REMOVED_CLIENT /\ sock[clients[i].fd] = "data"
    /\ sock' = [sock EXCEPT ![clients[i].fd] = "quiet"]
    /\ UNCHANGED <<tableVars, readingLock, mainVars, readerVars, cancelled, open>>

OneMore == toRemove + 1

RemoveClient(k) ==
    IF clients[k].fd = REMOVED_CLIENT
      THEN UNCHANGED <<open, sock, clients, toRemove, firstToRemove>>
      ELSE /\ open' = open \ {clients[k].fd}
           /\ sock' = [sock EXCEPT ![clients[k].fd] = "quiet"]
           /\ clients' = [clients EXCEPT ![k].fd = REMOVED_CLIENT]
           /\ toRemove' = OneMore
           /\ firstToRemove' =
                IF firstToRemove = 0 \/ firstToRemove > k THEN k ELSE firstToRemove

(* End of file or an error, which is what a removed entry gives: the loop  *)
(* goes on with the next entry.                                            *)
ReadEnd ==
    /\ Alive("read") /\ ~cancelled
    /\ clients[i].fd # REMOVED_CLIENT => sock[clients[i].fd] = "end"
    /\ RemoveClient(i)
    /\ i' = i + 1
    /\ rpc' = "scan"
    /\ UNCHANGED <<clientCount, readingLock, mainVars, polled, asked, readable, visited,
                   readFd, j, removed, counted, cancelled>>

(* commit_remove_clients                                                   *)
CommitBegin ==
    /\ Alive("commit")
    /\ IF toRemove = 0
         THEN rpc' = "unlock" /\ UNCHANGED <<i, j, removed, counted>>
         ELSE /\ rpc' = "compact"
              /\ i' = firstToRemove
              /\ j' = clientCount - 1
              /\ removed' = 0 /\ counted' = clientCount
    /\ UNCHANGED <<tableVars, readingLock, mainVars, polled, asked, readable, visited,
                   readFd, cancelled, kernelVars>>

(* A wrong loop that stops too early.                                      *)
CompactGuardEarly == removed < toRemove /\ i + 1 < j

(* j is unsigned: -1 stands for SIZE_MAX.                                  *)
CompactGuard == removed < toRemove /\ (i < j \/ j = -1)

IsRemoved(k) == clients[k].fd = REMOVED_CLIENT

(* A wrong swap that only copies.                                          *)
CopyFd(k, l) == [clients EXCEPT ![k].fd = clients[l].fd]

(* swap exchanges the descriptors only.                                    *)
SwapFds(k, l) == [clients EXCEPT ![k].fd = clients[l].fd, ![l].fd = clients[k].fd]

Compact ==
    /\ Alive("compact")
    /\ CompactGuard
    /\ i' = i + 1
    /\ IF IsRemoved(i)
         THEN \E k \in i .. j :
                /\ k = i \/ ~IsRemoved(k)
                /\ \A l \in k + 1 .. j : IsRemoved(l)
                /\ clients' = SwapFds(i, k)
                /\ j' = k - 1
                /\ removed' = removed + (j - k) + 1
         ELSE UNCHANGED <<clients, j, removed>>
    /\ UNCHANGED <<clientCount, toRemove, firstToRemove, readingLock, mainVars, rpc,
                   polled, asked, readable, visited, readFd, counted, cancelled,
                   kernelVars>>

CompactEnd ==
    /\ Alive("compact")
    /\ ~CompactGuard
    /\ rpc' = "subtract"
    /\ UNCHANGED <<tableVars, readingLock, mainVars, polled, loopVars, cancelled,
                   kernelVars>>

(* inc_client_count, then the counters for the next time.                  *)
Subtract ==
    /\ Alive("subtract")
    /\ clientCount' = clientCount - toRemove
    /\ toRemove' = 0 /\ firstToRemove' = 0
    /\ rpc' = "unlock"
    /\ UNCHANGED <<clients, readingLock, mainVars, polled, loopVars, cancelled,
                   kernelVars>>

ReaderUnlock ==
    /\ Alive("unlock")
    /\ readingLock' = "free"
    /\ readable' = 0 /\ visited' = 0 /\ readFd' = 0
    /\ i' = 0 /\ j' = 0 /\ removed' = 0 /\ counted' = 0
    /\ rpc' = "call"
    /\ UNCHANGED <<tableVars, mainVars, polled, asked, cancelled, kernelVars>>

Reader ==
    \/ Die \/ CountClients \/ PollCall \/ PollReturn \/ ReaderTryLock
    \/ EnterTryRead \/ Scan \/ ReadData \/ ReadEnd
    \/ CommitBegin \/ Compact \/ CompactEnd \/ Subtract \/ ReaderUnlock

-----------------------------------------------------------------------------
(* The clients. *)

PeerDoes(fd) ==
    /\ mpc # "exit" /\ fd \in open /\ sock[fd] = "quiet"
    /\ \E c \in {"data", "end"} : sock' = [sock EXCEPT ![fd] = c]
    /\ UNCHANGED <<tableVars, readingLock, mainVars, readerVars, cancelled, open>>

Exited == mpc = "exit" /\ UNCHANGED vars

Next ==
    \/ Main \/ Accept \/ AcceptFails \/ Interrupt \/ Reader
    \/ \E fd \in Fds : PeerDoes(fd)
    \/ Exited

(* Both threads run when they can; nobody has to connect.                  *)
Spec == Init /\ [][Next]_vars /\ WF_vars(Main) /\ WF_vars(Reader)

-----------------------------------------------------------------------------
(* Properties. *)

InTryRead == rpc \in {"enter", "scan", "read", "commit", "compact", "subtract", "unlock"}

InRestart == mpc \in {"cancel", "join", "start", "unlock"}

CleaningUp == mpc \in {"joinlast", "exit"}

(* Only the owner of reading_lock reads, removes and compacts, or restarts *)
(* the reader; a reader that is cancelled while it reads never comes back. *)
(* Nobody dies without having been cancelled, and main only goes on with a *)
(* restart when the old reader is dead.                                    *)
LockOwned ==
    /\ InTryRead => readingLock = "reader"
    /\ readingLock = "reader" => InTryRead \/ (rpc = "dead" /\ CleaningUp)
    /\ InRestart <=> readingLock = "main"
    /\ mpc # "exit" => (cancelled <=> mpc \in {"join", "start", "joinlast"})
    /\ rpc = "dead" => cancelled
    /\ mpc = "start" => rpc = "dead"

(* Every descriptor in the array is open and occurs once, although the two *)
(* threads write to it under different locks, and none of the clients is   *)
(* an entry nobody has written yet, which would be standard input.  What   *)
(* the reader reads from is the descriptor of a client, never a removed   *)
(* one.                                                                    *)
EntriesOpen ==
    mpc # "exit" =>
        /\ \A k \in Entries : clients[k].fd \in (open \ {clientFd}) \cup {REMOVED_CLIENT, STDIN}
        /\ \A k, l \in Entries : clients[k].fd = clients[l].fd /\ k # l => clients[k].fd \notin Fds
        /\ \A k \in 0 .. clientCount - 1 : clients[k].fd # STDIN
        /\ rpc = "read" => clients[i].fd \in open

(* client_count agrees with the connections although both threads change   *)
(* it: the clients that are open, and those closed in this round.          *)
CountIsRight ==
    mpc # "exit" => clientCount = Cardinality(open \ {clientFd}) + toRemove

(* The entries poll reported in this round. *)
Reported == {k \in Entries : k < polled /\ clients[k].revents}

(* What main appends under poll's and try_read's hands leaves the report   *)
(* true of entries that are still to be visited: a client is there, if not *)
(* always the one poll was asked about.  try_read stops before it comes to *)
(* an entry behind those that poll was given, whose report is an old one,  *)
(* and no more clients are removed in a round than there are descriptors.  *)
RoundAgrees ==
    mpc # "exit" =>
        /\ IF mpc = "add" THEN clientFd \in open ELSE clientFd = REMOVED_CLIENT
        /\ rpc = "poll" =>
             /\ \A k \in Entries : asked[k] \in Fds => k < polled /\ clients[k].fd \in Fds
             /\ \A k, l \in Entries : asked[k] = asked[l] /\ k # l => asked[k] \notin Fds
        /\ rpc \in {"trylock", "enter", "scan", "read"} => readable = Cardinality(Reported)
        /\ rpc \in {"trylock", "enter"} => \A k \in Reported : clients[k].fd \in Fds
        /\ rpc \in {"scan", "read"} =>
             /\ visited <= clientCount
             /\ \A k \in Reported : k >= i => clients[k].fd \in Fds
        /\ rpc = "scan" => readFd = Cardinality({k \in Reported : k < i})
        /\ rpc = "read" => /\ i \in Reported /\ i < visited
                           /\ readFd = Cardinality({k \in Reported : k <= i})

RemovedFew ==
    mpc # "exit" =>
        /\ toRemove # 0 => rpc \in {"scan", "read", "commit", "compact", "subtract"}
                             \/ (rpc = "dead" /\ mpc = "joinlast")
        /\ InTryRead \/ rpc = "trylock" => readable <= Cardinality(Fds)
        /\ rpc = "scan" => toRemove <= readFd
        /\ rpc = "read" => toRemove < readFd
        /\ rpc \in {"commit", "compact", "subtract"} => toRemove <= readable

(* What both threads rely on: all the array and its counts promise.        *)
TableInv ==
    /\ TypeOK
    /\ EntriesOpen
    /\ CountIsRight
    /\ RoundAgrees
    /\ RemovedFew

(* The indices the compaction compares and swaps are clients', whatever    *)
(* first_client_to_remove says and main appends in the meantime, and j     *)
(* never wraps around while the loop goes on.                              *)
CompactsInBounds ==
    rpc = "compact" /\ CompactGuard => {i, j} \subseteq 0 .. clientCount - 1

Holes == {k \in 0 .. clientCount - 1 : IsRemoved(k)}

(* commit_remove_clients gathers the removed entries at the end of the     *)
(* array as it found it: no client it counted is cut off with them, and    *)
(* only clients main appends after the count was read are behind them.  It *)
(* does so when it is told the truth: first_client_to_remove, where 0 also *)
(* means "none yet", is not behind a removed entry, and                    *)
(* clients_to_remove_count counts them all.                                *)
HolesGathered ==
    rpc = "subtract" /\ Cardinality(Holes) = toRemove /\ (\A k \in Holes : k >= firstToRemove) =>
        Holes = counted - toRemove .. counted - 1

(* How far the compaction is: all behind j is removed and counted, nothing *)
(* from where it started up to i is, and main has appended clients only.   *)
CompactProgress ==
    /\ rpc \in {"compact", "subtract"} =>
         /\ toRemove <= counted /\ counted <= clientCount
         /\ removed = counted - 1 - j
         /\ firstToRemove <= i
         /\ \A k \in j + 1 .. counted - 1 : IsRemoved(k)
         /\ \A k \in firstToRemove .. i - 1 : k <= j => ~IsRemoved(k)
         /\ \A k \in counted .. clientCount - 1 : ~IsRemoved(k)
    /\ rpc = "subtract" => ~CompactGuard

(* The compaction stays among the clients and gathers what was removed.    *)
CommitGathers == CompactsInBounds /\ HolesGathered /\ CompactProgress

(* Whatever the clients and the reader do, even one blocked in read with   *)
(* reading_lock held, main finishes adding a client and accepts again.     *)
AcceptsAgain == mpc # "accept" ~> mpc \in {"accept", "exit"}

(* A reader that found reading_lock taken waits in pause() for a signal    *)
(* nobody sends; the next client main adds replaces it.                    *)
NextClientRestarts == rpc = "pause" /\ mpc = "add" ~> rpc # "pause"
====
