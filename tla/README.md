# A verification development for the lab programs

The repository holds the solutions of some twenty system programming exercises.
Most are a page of system calls; the later ones (`lab31` to `lab34`) are
servers with tables, buffers and event loops that grow from one lab to the
next. This directory models those: TLA+ modules translated from the C code, TLC
configurations that check them on small instances, and TLAPS proofs of the
results that should hold for every capacity and every buffer size.

## 1. The system: an inventory

| Component | State | Operations | Talks to |
|---|---|---|---|
| client registry, `lab33/usual_server_management.c` | `id_table`, `index_to_id`, `client_count`, the dense `pollfd` array | `add_client`, `disconnect_client`, `remove_client`, `next_id`, `get_client`, `safe_cleanup` | called by the server's loop and by its SIGINT handler; `poll` writes into its array |
| id list with deferred removal, `lab33-server.c`, `lab33-proxy.c` | `id_table` (a list of ids here), `client_count`, `removed_count` | append in `main_loop`, `pr_remove_client`, `commit_remove` | walks the registry's clients |
| uppercase server, `lab33-server.c` | the two above, the progress of a round | `poll`, `accept`, `try_read`, `commit_remove`, `interrupt` | peers over sockets |
| ring buffer, `lab34/cyclic_buffer.c` | `buf`, `size`, `start`, `count` | `cb_putc`, `cb_getc`, `cb_peek`, `cb_gets`, `cb_skip`, `cb_skip_right`, `cb_shift`, `cb_recv`, `cb_send`, `cb_clear` | the tunnel's sender and its encoder, which also write and read its memory directly |
| linear buffer, `lab33/iobuffer.c`, `lab34/iobuffer.c` | `buf`, `size`, `count` | `iob_recv`, `iob_send`, `iob_shift`, `iob_puts`, `iob_putc`, `iob_getc`, `iob_clear` | the proxy; the message code |
| proxy, `lab33-proxy.c`, `lab33/server_management.c` | a registry of sessions (two descriptors each), two buffers per session | `add_client`, `remove_client`, `try_transfer`, the same loop | clients and the destination |
| tunnel encoder, `lab34/transport_protocol_buffer.c`, `protocol.c` | a ring buffer, the open frame's `order` | `tpb_put_order`, `tpb_contol_message`, `tpb_encapsulate`, `tpb_send` | the sender |
| tunnel sender, `lab34-sender.c`, `lab34/server_management.c` | a registry, `id_table`, `remove_flag`, `add_queue`, per-client ring buffers, `send_order`, `send_count` | `ts_add_client`, `ts_remove_client`, `ts_actual_remove`, `fill_message`, `perform_client_io`, `perform_protocol_io` | many clients, one tunnel |
| message codec, `lab34/message_buffer.c`, `message_receiver.c` | partial frame, pending escape | `encapsulate`, `get_current_order`, `decapsulate`, `skip` | nobody: the callers are commented out |
| AIO server, `lab32-server.c` | an array of `aiocb`, `client_count` | `add_client`, `aio_handler`, `remove_client`, `interrupt` | the AIO threads, by a signal |
| multiplexer, `lab31/multithreading` | the `pollfd` array, `client_count`, two mutexes, the reading thread | `mx_add`, `restart_if_waits`, `try_read`, `commit_remove_clients`, `mx_cleanup` | two threads |
| lab31 server, `lab31-server.c` | the `pollfd` array, `first_client_to_remove` | the loop, deferred removal | peers |
| line tables, `lab5`, `lab6`, `lab7` | offsets and lengths of a file's lines, a mapped window | build, look up, grow | a file and a prompt with a timeout |
| line editor, `lab17` | one line of 40 columns | insert, erase, kill, word erase, wrap | the terminal |
| pipes, signals, lock, and the rest | see `PROJECT.json` | | |

What is hard here, and where unit tests do not reach:

* **Moving entries.** `remove_client` fills a hole with the last entry. Anybody
  who holds an index, a pointer or a readiness bit across a removal may now be
  looking at somebody else's. The callers do hold such things: a round of
  `try_read` removes clients while it walks over them, after `poll` has
  reported on all of them.
* **Deferred removal.** Marks in a list, a count of marks, and a compaction loop
  with two indices closing in, one of which is unsigned and wraps.
* **One thread, blocking reads.** A read of a descriptor where nothing waits
  stops the whole server.
* **Partial transfers.** `read` and `write` move any part of what was asked
  for; ring buffers are rotated in place in between.
* **Asynchrony.** Peers send, end and reset at any moment; SIGINT arrives
  anywhere; in `lab31/multithreading` and `lab32` threads and signal handlers
  share the tables.
* **Interrupted encoding.** Framing and escaping stop wherever a buffer is full or
  input ends, and go on there in a later call, with other data.
* **Two names for one thing.** An index into a list and an id into a table are
  both small integers, and lab34's sender passes one for the other.
* **Boundaries.** The end of a ring, of a file, of a page, of a table that grows by
  half; lines cut by the pieces they are read in.
* **Limits.** Full tables, full descriptor table, full buffers.

What makes each component correct:

* registry: a map from ids to connections that survives every sequence of calls;
  no descriptor leaks out of the polled prefix; capacity is never lost;
* id list: compaction keeps exactly the unmarked ids, inside the bounds;
* server: acts only on fresh readiness, never blocks in `read`, closes only what
  its peer ended, serves everybody;
* buffers: bounded FIFO queues, whose raw pieces of memory are safe to use;
* proxy: bytes of one session reach the other end of the same session, in order;
* encoder and codec: what is decoded at the far end is what was encoded, per client;
* sender: announcements precede data, every client gets its turn;
* line tables: the table is that of the file's lines, a number prints its line;
* AIO server and multiplexer: no completed read and no new client is forgotten.

## 2. Plan

Order of the modules, most important behaviour first.

1. `ClientRegistry` with `ClientMap` as its abstract specification, `IdList`,
   and `UppercaseServer` composing both: **done**, checked and proved.
2. `CyclicBuffer` and `IOBuffer` with `Fifo` as their abstract specification, and
   `Buffers`, which compares the two: **done**, checked and proved.
3. `ProxyRegistry` (sessions of two descriptors, on top of `ClientRegistry`) and
   `ProxyServer`, composing it with `IdList`: **done**, checked and proved.
4. `AioServer` (`lab32`): completions, one pending signal, handler against
   accept loop: **done**, checked; the safety part proved.
5. `Multiplexer` (`lab31/multithreading`), two threads with the two mutexes and
   cancellation, and `PollServer` (`lab31`), the same compaction with one thread:
   **done**, checked; the safety part proved.
6. `MessageCodec`, encoder, transport and decoder as a `MessageQueue`, and
   `TunnelSender`, the sender with its own encoding, on top of `ClientRegistry`:
   **done**, checked; the sender's invariants and the safety of the codec proved.
7. `LineTable` (`lab5` to `lab7`): growth of the table ("Reserves space so that
   at least one more record can be written", `lab6.c:144`), the table against a
   reference definition of the file's lines, the mapped window: **done**,
   checked and proved.
8. `LineEditor` (`lab17`), the pipe programs, the signal counter.
9. `RegistrySteps`: `add_client` and `remove_client` statement by statement,
   with SIGINT's `safe_cleanup` between any two of them.

Abstract specifications worth stating: `ClientMap` (done), `Fifo` (done, used by
both buffers), `MessageQueue` (done, the codec's), one FIFO pair per session for the proxy. Every
invariant, every action property and every refinement that a run checks is a
theorem. Worth proving beyond those below: that each session of the proxy is such a
pair, once that is stated.

## 3. Modules and code

### `ServerTypes`, `ClientRegistry`, `ClientMap`

`ServerTypes` has what the servers share: `MaxClients` (`MAX_CLIENTS`), ids, and
the two sentinels. `ClientRegistry` keeps the names of the C struct: `idTable`
is `id_table`, `indexToId` is `index_to_id`, `clients` the array of `pollfd`
from index 1 on (index 0 is the listener and never moves). `open` is the
kernel's side. One action per operation: `AddClient`, `DisconnectClient`,
`RemoveClient` (with the early `disconnect_client`, the swap and both branches),
`PollClients` (what `poll` writes), `SafeCleanup`. The `events` fields never
differ and are left out.

`ClientMap` says what a user of the registry relies on: a map from handles to
a connection and its last reported readiness; removing a handle touches no
other. `ImplementsMap` is the refinement, reading the abstract map through
`idTable`.

### `IdList`

The list `ProxyServer.id_table` with its two counts, and `commit_remove` as one
action per iteration of its `for` loop (`CommitStep`), between `CommitBegin` and
`CommitEnd`. The inner `while` changes nothing but `j` and a counter, so it is a
choice of where it stops (`WhileStopsAt`). `j` is a `size_t`: `Decrement` wraps
to `SizeMax`. `lab33-proxy.c` has the same function.

### `UppercaseServer`

The loop of `lab33-server.c` over these two modules. `pc` names where it is:
`Poll`, one of `NothingPending`, `AcceptClient`, `RefuseClient`, `AcceptFails`,
then `TryReadNext` once per client, `TryReadEnd`, `CommitLoop`, `CommitDone`.
`RefuseClient` and `AcceptFails` are the two `continue`s that skip `try_read`.
The environment: `sock` is what a read of a descriptor would meet (data, end,
reset), `backlog` the listen queue; `Connect` and `PeerStep` may happen between
any two steps; `Interrupt` is SIGINT (or `poll` failing) between two steps. A
read takes all that waits; the bytes themselves are left out. Locals that are written
before they are read again are reset where a step or a round ends (`EndRound`): their old
values would only multiply the states.

### `BufferTypes`, `CyclicBuffer`, `IOBuffer`, `Buffers`, `Fifo`

`buf` is the array, so overlapping moves and rotations are real. `taken` is what
the last operation handed out. Besides the functions of `cyclic_buffer.c` there
are the two ways its callers touch the memory directly: `WriteAtEnd`
(`tpb_encapsulate` writes at `cb_data_end`) and `ReadAtData` (`fill_message`
shifts, reads at `cb_data`, skips). `Fifo` is a bounded queue; the content read
from `start` on is the refinement mapping. `Buffers` gives a ring and a linear
buffer the same calls, with the operations each of them offers for the purpose;
lab34 replaced the one by the other in its sender.

### `ProxyRegistry`, `ProxyServer`

`server_management.c` repeats `usual_server_management.c` with a second
descriptor and two buffers per client, so `ProxyRegistry` extends
`ClientRegistry`: each of its actions is the client action and the server half.
`servers` holds the entries at `SERVER_INDEX`, `ctos` and `stoc` the fill levels
of the buffers, indexed by id as in the code. `destination` remembers which
connection was made for which client and is read by the properties only.
`RemoveSession` is faithful to line 128: the last session's server entry stays
where it was. It lies behind the polled prefix then, and the next `add_client`
overwrites it without closing it.

`ProxyServer` is the loop of `lab33-proxy.c`. It has the shape of
`UppercaseServer`, with two steps per session: `TryReadClient` (count, errors,
first `try_transfer`) and `TryReadServer` (second `try_transfer`).
`TransferResults` gives the possible outcomes of a transfer: a read fails on the
end of the connection, a write on a reset one may raise SIGPIPE (`Killed`), and
when the call would block there is no outcome, so the thread is stuck until a
peer acts. `PeerActs` bounds what the peers do.

Two weaknesses of the code are in the model and delimit its properties. A
session that was moved has lost its destination: it stays registered, its bytes
pile up in `ctos`, and it ends only with its client. And the session accepted in a
round may be visited in it: with four sessions A, B, C and the new N, where A and
B are removed in the round, C moves into B's slot and is counted with the
readiness of B's server entry; if that was empty, the count stays behind
`ioable_count`, the loop goes on to N, and N's entry still has the readiness of
the slot's former user. A `POLLIN` there makes the proxy block in a read of N's
client.

### `AioServer`

`lab32-server.c`. `fildes` and `status` are the control blocks: the descriptor,
and what `aio_error` and `aio_return` say of the last request. `status` outlives
its request, which is why a reused block is dangerous until `aio_read` has been
called again. `main` is cut at every point where the signal handler can get in:
`Accept`, then `BlockSignal`, `StoreClient` (search and store), `SubmitFirst`,
`UnblockSignal`. The handler is `HandlerEnter`, one of the `Scan...` actions per
control block, `HandlerReturn`; it runs in main's thread, so main stands still
meanwhile. The C library's threads are the environment: `Complete` writes the
status, `Notify` sends the signal some time later; `pending` is one bit, as
SIGUSR1 is not queued. A failing `accept` (`AcceptFails`), a client's read error
(`ScanError`) and SIGINT (`Interrupt`) end the server. `cleanup_server` closes
every descriptor a second time, which no longer matters.

### `Multiplexer`

`lab31/multithreading`. `mpc` is where main is (the accept loop, `mx_add`,
`restart_if_waits`, `mx_cleanup`), `rpc` where the reading thread is. The
variables between them are the struct's: `clients`, `clientCount`, `toRemove`
and `firstToRemove` (`clients_to_remove_count`, `first_client_to_remove`), and
`readingLock`, which both threads only try. A section under `client_size_lock`
is one step, as is one iteration of the compaction; `counted` remembers the
count the compaction started from, for `HolesGathered`. `poll` is two steps,
because the kernel copies the array when it is called (`asked`) and writes the
results into it when it returns, when main may have put another client there.
`pthread_cancel` takes effect at the next cancellation point (`Die`). SIGINT may
or may not interrupt `accept`: it can arrive just before it, and `sa_flags` is
uninitialized. `mx_add` sets `O_NONBLOCK` with `F_SETFD`, which has no such flag,
so the reads of the inner loop block: a reader stays with its client until that
ends, and holds `reading_lock` all the time.

The model shows what the code does not achieve, and the properties are stated
around it. (1) `restart_if_waits` starts the new reader before it unlocks. A
reader that finds a readable client before main gets to line 190 calls `pause()`
and stays there with its clients unserved until another connection arrives
(`NextClientRestarts`), or for ever if none does. (2) `first_client_to_remove`
uses 0 for "none": when client 0 and then a later one end in the same round, the
compaction starts behind the first hole and the subtraction cuts off live
clients. (3) A client appended between the reading of the count and the
subtraction in `commit_remove_clients` ends up behind the new count, is never
polled, and the next client overwrites its entry. (4) A new client is not polled
when `restart_if_waits` meets a reader at work: that reader's count is from its
start.

### `PollServer`

`lab31-server.c`, the ancestor of the two above: one table of `pollfd`s, direct
indices, marks in the entries and a compaction that starts at
`first_client_to_remove`. `clients`, `clientCount`, `toRemove` and
`firstToRemove` are the struct's fields, `i`, `j`, `readFd` and `removedCount`
the functions' locals; entry 0, the listener, is left out of the array, and
0 is therefore an unambiguous "none" here, other than in the multiplexer. The
compaction swaps descriptors and leaves the `revents` where they are; `mx_add`
does not clear them either, and the loop's bound is `<=`, so it visits one client
more than `poll` reported. A client accepted in this round may so be read on the
strength of its entry's former user, and the read blocks the server until it
says something. That weakness is in the model, and `OnlyNewcomerBlocks` says that
there is no other. `ReadFails` is a read that returns -1: the upper-casing loop
compares a `size_t` with it, runs out of the buffer, and the process dies.

### `MessageCodec`, `MessageQueue`, `EagerFold`, `Framing`

`mb` and `mr` are the structs of `message_buffer.h` and `message_receiver.h`,
with the linear buffer of each as a bounded sequence. An encoder's call is a
fold over its data of a record `a` (the encoder so far, whether everything has
fitted, how many bytes were consumed): a `put` after one that failed changes
nothing, which is what the chain of early returns comes to. `Encapsulate` is the
whole function with its result, `NO_SPACE` (which consumed nothing) when the other
client's frame could not be closed, else the count. `Transfer` is `iob_send` and
`iob_recv`. Nobody calls this code any more, so every sequence of calls is possible:
data is whatever a caller may offer, the bytes that were not consumed among it, and
a call reads as many bytes as it likes. `call` is the last call and the bytes it
consumed or handed out. `EagerFold` is a left fold that TLC evaluates in linear time,
`Framing` the two reserved bytes, which `protocol.h` and the codec define alike.

Bytes are signed chars (`Char`). `try_read_char` returns a byte or, below zero,
the reason why there is none, so a client's byte of 128 or more makes
`decapsulate`'s loop end as the end of the buffer does (`message_receiver.c:113`);
the byte has been taken out of the buffer and is never handed out. `skip` ends there,
too. That is in the model and in what it promises. A client whose order is 255 or 254,
-1 or -2 as a char, is worse off: `try_parse_order` takes the order for
`END_OF_BUFFER` or `MESSAGE_BOUNDARY` and parses the first data byte as the
order (line 75). The theorems exclude these two clients (`OrdersAreNamed`), as a run
with one of them only repeats what the line says.

The abstract specification is `MessageQueue`, pairs of client and byte. A `Put` appends
exactly the bytes `encapsulate` says it consumed, under the order it was given;
nothing else puts anything into it. So a caller that offers the rest again sends every
byte once. A `Take` hands out the oldest bytes and may lose one behind them, only if
it is below zero. `Meaning`, the reference decoding of a byte stream, reads the
queue off the bytes under way.

### `TunnelSender`

`lab34-sender.c` with `transport_protocol_buffer.c` and `protocol.c`, on top of
`ClientRegistry`, whose code `lab34/server_management.c` repeats. `tsTable` and
`tsCount` are the struct's `id_table` and `client_count`, `removeFlag`, `addQueue`,
`sendOrder` and `sendCount` have its names. One action per client in `perform_client_io` (`ClientPasses`,
`ClientReads`, `ClientEnds`), one per removal and per announcement, one per
iteration of `fill_message`'s loop, and `TpbSend`. What a client does is chosen when
the loop looks at it, what the tunnel does when it is written to. The ring is its
start and its count; its content is not kept, because `DataStructureProofs` shows
that it comes out as it went in. `rx` is a far end that has already received
everything that was put; it takes frames apart as the sender means them, and is
garbled by a byte of an unknown client or out of the client's sequence.

`message_length` has no return statement. An unoptimised build by gcc, which is
what the repository's scripts make, leaves `data_len` in the return register; the
model takes that. Another value would change which data is put when, and with it
everything that follows.

The code has five gaps, and `faults` remembers which of them a behaviour has met:

* `wrongIndex`: `process_empty_removed` gives `ts_actual_remove`, which expects an
  index of the list, an id (`lab34-sender.c:168`). Once the two differ another
  client is removed under the first one's name.
* `unfinished`: a removal moves the client whose message is half sent, and
  `send_order` and `send_count` no longer speak of the same client (line 148).
* `dropped`: a control message that continues an open control frame is put without
  asking for space (`transport_protocol_buffer.c:43`).
* `reserved`: a client sends a byte that needs escaping, and the count of data
  bytes is taken for that of encoded bytes (line 66).
* `reservedId`: ids are put into headers and control messages as they are (lines 29
  and 44), and two of the program's 255 ids, 125 and 126, are reserved bytes.

The properties say what holds until then; what a gap leads to is in the model and
not the subject of a property, as nothing in the repository says what should happen.
Each of them stops where it has to: `TablesInBounds` never, `MessageIsBacked` at a
removal, `TurnsAreFair` at every gap but `reservedId`. One more weakness is no fault but part of
what `TurnsAreFair` says: with four clients or more, a removal that fills the hole
with the last entry can move a client behind `send_order` that was about to be
reached. It keeps its bytes but not its place, and waits from there for up to
another lap; `bypassed` starts anew for it.

`Followed` is a bound: after a fault that
is not in it there is one round to the end and no other. The process itself
promises no liveness (`POLLOUT` is switched off with bytes left in the clients'
buffers, line 305), so there is no fairness. The direction from the tunnel to the
clients is commented out in the source.

### `LineTable`

`lab5`, `lab6`, `lab7` and `lab7-1`, which `program` tells apart: what a piece of the
file is (`ChunkSizes`), what a record of the table holds (`LtAddLength`,
`LtAddEnd`), and where a line comes from (`ReadLine`, `MappedLine` in the `window`).
A file is a sequence of text, newline and zero bytes. `NewlineFound` is one iteration of
the `memchr` loop, `ChunkEnds` its end. `Answer` is one number at the prompt,
`DumpLine` a line of the whole file after five seconds, `MapFails` the one error
path that leaves a window unmapped. `lab6` prints the terminating zero of a string
literal behind a last line without newline (`lab6.c:100`), and so does the model.
`lab5` prints a line with `"%s"`, which ends at the line's first zero byte
(`CString`). Neither `lab5` nor `lab6` looks at the result of `lseek` or `read` in
`print_line`: when one fails or less is read, they print memory that nobody has
filled. `PrintUnread` is that answer, and it may be given instead of the right one to
any request and for any line of the listing. What is printed is what is handed to
`printf` or `write`; that standard output takes it is not modelled.
`Starts`, `EndOf` and `Text` are the reference: lines as sets of offsets.

## 4. Runs

| Run | Bounds | Shows |
|---|---|---|
| `client_registry` | 4 clients, 5 descriptors, one readiness bit | every sequence of registry calls: consistent tables, no leak, no lost capacity, refinement of the map |
| `uppercase_server` | 3 clients, 4 descriptors, listen queue of 1 | the safety properties of the server and of its list, every iteration of the compaction |
| `uppercase_live` | 2 clients, 3 descriptors, listen queue of 1 | `Served` |
| `buffers` | 4 cells, 2 byte values | every rotation and fill level of both buffers: FIFO, safe pieces, the same content |
| `proxy_server` | 2 sessions, 4 descriptors, buffers of one unit, listen queue of 1; peers send, end, reset | the proxy's safety properties, no crosstalk, no buffer leaks |
| `proxy_slow` | the same; peers send and stop reading, at most two of them at a time (`FewSlow`) | no write blocks |
| `aio_server` | 2 control blocks, 2 descriptors, listen queue of 1 | completions, signals and accepts in any order: the safety properties and `Served` |
| `multiplexer` | 2 descriptors, 4 entries | who touches the table when, no duplicate or closed descriptor in it, the count, the compaction; main accepts again, a paused reader is replaced |
| `poll_server` | 3 descriptors, 4 entries (the listener's included), listen queue of 1 | the table, the compaction, what may block, `ServedUnlessBlocked` |
| `message_codec` | buffers of 5 bytes, calls of up to 2 bytes, 2 clients, one with an order to be escaped, 2 byte values, one to be escaped and one below zero (`MCChars`) | encoder, transport and decoder are a queue of labelled bytes, of which exactly what `encapsulate` counts is put, interrupted after any byte |
| `tunnel_sender` | 2 clients, 2 descriptors, client buffers of 2, ring of 6, bytes modulo 3; a reserved byte waits alone (`ReservedAlone`) | tables, list, unfinished messages, delivery in order, turns |
| `line_table` | files of up to 7 bytes, zero bytes among them, reads of up to 3, pieces of 4, pages of 2, 2 entries at first | the table, its growth, the window, what is printed, in all four programs |

Why the bounds suffice. The registry's operations involve at most the first, the
last and one other slot, and one descriptor more than slots makes the table fill up
before the descriptors run out; four slots have all these cases and every aliasing
between them. In `IdList` the interesting configurations are a marked head, a marked
run at the tail that the inner loop skips, everything marked (the index wraps), and
the indices crossing. In the server three clients let one be removed while a second
moves and a third was just accepted, and four descriptors against three slots make
both refusals happen; the compaction then runs over up to three marks, which
includes all four of the configurations. Two byte values tell two cells apart, and
four cells have wraps with more than one byte on each side. `SizeMax` is a number
larger than any count. Where symmetry is used, descriptors are never compared by
order. Two sessions of the proxy and four descriptors have a move in the middle of a
round, a session without destination and a leaked descriptor that keeps `accept`
from finding two more; a buffer of one unit is empty or full, which is all
`try_transfer` asks; what the registry does with more sessions is proved. `reset`
and `slow` are split into two runs to keep them small; sessions of `proxy_slow`
therefore end by SIGINT only. Two send buffers may be full at once there: both ends
of one session, or one end of each. In the AIO server two control blocks have one that the
handler has passed or one that it has still to reach, both may finish while a signal
is pending, and as many descriptors as blocks fill the array to its end; the safety
part is proved for every number of them. In the multiplexer two descriptors make up
to four entries: both may be closed in a round and accepted again before the reader
compacts, so there are two holes in front of live clients, an append in the middle
of a compaction, and every order of the two. The reader compacts before main can do
it a third time, hence twice as many entries as descriptors
(`MultiplexerAssumption`; the program has 4096 entries and 1024 descriptors by
default). `PollServer` has one descriptor less than entries for the same reason
(`PollServerAssumption`), and three clients give a mark in front of, between and
behind kept entries and a newcomer. The codec's buffers of five bytes hold one frame
with an escaped order and an escaped byte, or parts of two frames, and are full
after every byte of them; two calls of escaped bytes never fit at once. The
byte below zero is -1, which is also `END_OF_BUFFER`; an ordinary byte differs from it
in nothing but that it is handed out, as the ordinary client's order 0 is. The sender's
ring of six cells takes a control message with its frame and a bit more, so that
data is put in pieces, wraps, and announcements do not fit; a client's buffer of two
bytes can be filled while its message is half sent; three consecutive bytes are told
apart, and what is under way of a client is never more than that allows to confuse.
A reserved byte that a client sends multiplies what its buffer may hold; while one waits,
only that client has bytes (`ReservedAlone`), behind, in front of or next to the reserved
one, and the other may still join and leave. Once it is escaped the known gap is met and
the run ends there. All four invariants of the sender are proved for every value of these
constants, reserved bytes of several clients at once included. Clients with the ids 125 and 126
exist only there: no instance TLC can finish has that many.
In `LineTable` a file of seven bytes has up to seven lines, which are eight entries and
the first four growths of the table (2, 3, 4, 6, 9), lines longer than a piece, a read and a page, and
windows in front of, across and at the end of the file.

The properties with the hazards they are aimed at:

* `RegistryInv` / `ImplementsMap`: entries moved by `remove_client`
  (`usual_server_management.c:100`). `ImplementsMap` fails if `revents` is not
  swapped along, which is the difference to lab31's removal.
* `RefusedOnlyWhenFull`: `next_id` and `is_full` use different data.
* `ServerInv` and `CommitKeepsMembers`: the list, its registry, and the compaction
  loop with its mark count and its wrapping index. That the list and the registry
  name the same clients, that no hole survives (`Compacted`) and that the loop stays
  inside the list (`CommitInBounds`) follow from `ServerInv`, by theorems.
* `ReadinessIsFresh`: a new client gets a slot whose `revents` are left over from
  the slot's last user (`add_client` does not reset them). It is saved by the loop's
  bound: every polled client is ioable, because `POLLOUT` is always reported for a
  connection nobody writes to, so `try_read` visits exactly as many clients as
  `poll` counted and stops in front of the new one.
* `ClosesOnlyEnded`: the consequence for the peers; that the server never blocks in
  `read` (`ReadNeverBlocks`) follows from `ReadinessIsFresh`, by a theorem.
* `Served`: under its premise that rounds eventually are not cut short. Without it
  the code does starve its clients: a full descriptor table makes `accept` fail in
  every round, and each such round ends before anybody is read.
* `PiecesInBounds`, `ImplementsFifo`, `SameContent`: what the buffers' users rely
  on, through partial writes and rotations. With its content always that of the ring
  the linear buffer is a bounded FIFO queue, too.
* `ProxyRegistryInv`, `ServerClosedWithClient`: what is left of a session's
  integrity after a move (`server_management.c:128`): its destination or none, never
  another's, and no destination is closed under somebody else's feet.
* `ProxyInv`: the loop's list, its marks and its registry; in `RoundIsFresh` that
  the report of this round still holds for every session to be visited, and between
  a session's two transfers for what the second one asks about; in `PhaseOfRound`
  that the count compared with `poll`'s result runs over two entries per session.
* `PolledNeverBlock`, `DropsOnlyBroken`: the consequences for the loop. Both exempt
  the session accepted in this round, for the reason given in section 3, and a
  session without destination may be dropped.
* `AioInv`, in it `NoLostCompletion`: a finished read is either announced by a
  signal that is pending or still to be sent, or lies in front of the running
  handler's index. It holds because the handler looks at every block, not at the one
  the signal was sent for, and because a signal that arrives while it runs stays
  pending.
* `ClosesOnlyEnded` of the AIO server: with the signal blocked from before the store
  until after `aio_read`, the handler never sees the `eof` that the block's last
  user left behind (or that `memset` left in a fresh one).
* `SearchEndsInBounds`: the search of `get_first_suitable_index` has no bound; the
  process runs out of descriptors first (`AioAssumption`: RLIMIT_NOFILE is at most
  SOMAXCONN, 1024 against 4096 by default).
* `Served` of the AIO server is about registered clients. One that was accepted may
  wait: signals that arrive fast enough keep main from ever reaching `add_client`'s
  `sigprocmask`.
* `LockOwned` of the multiplexer: `reading_lock` is never held by a reader that is
  gone, except at the exit, restarting and reading exclude each other, and nobody
  dies without having been cancelled and joined by the one who holds the lock.
* `TableInv` (`EntriesOpen`, `CountIsRight`, `RoundAgrees`, `RemovedFew`): the two
  threads' writes to one array under different locks never leave a closed, a doubled
  or an unwritten descriptor (0, standard input) among those that are polled; what
  `poll` reported is about a client, if not always the one it was asked about; and a
  round removes no more clients than there are descriptors.
* `CommitGathers` (`CompactsInBounds`, `HolesGathered`, `CompactProgress`): the
  compaction, whatever main appends meanwhile, and what each of its iterations keeps.
* `AcceptsAgain`: main never waits for a reader that is blocked in a read, because
  it only tries the lock. `NextClientRestarts`: see section 3.
* `TableInv`, `CommitGathers`: the compaction of lab31, which starts at an index
  kept by `remove_client` and cuts off as many entries as were marked.
* `OnlyNewcomerBlocks`, `ServedUnlessBlocked`: what is left of freshness and service
  although `revents` do not move along with the descriptors.
* `ImplementsQueue` of the codec: what `encapsulate` counts as consumed, and nothing
  else, is under way once, in order, under the client's label; a byte that was not
  counted and is offered again is not doubled, one that was counted is not lost before
  `decapsulate` has seen it. `EventuallyOut`: nor does one get stuck, except the byte
  whose escape alone has been put.
  `LeavesOfOneOrder`: a call that takes bytes out stays within the frame it was
  asked about.
* `TablesAgree`: even after a wrong removal the two tables never exceed their arrays
  (`TablesInBounds`); before one they name the same clients (`ListMatchesRegistry`).
  `MessageIsBacked`, `DeliveredInOrder`, `TurnsAreFair`: see section 3 for the gaps
  they stop at, and for the moved client that `TurnsAreFair` lets wait anew.
* `TableOfFile`: against the definition of a line, wherever the pieces cut. In it
  `EntriesInBounds`: growing by a half, once per record, is enough from two entries
  on, with two entries per record. `WindowInFile`, `LinesShown`: the window after
  any sequence of requests.

Fairness. The servers of `lab31` and `lab33` are one thread; `WF_vars(Loop)` says
that it runs whenever it is not blocked in `poll` or `read`, which is what a
scheduler gives a runnable process. In the AIO server main, the handler and each AIO
thread run when they can (weak fairness), and a pending signal that is unblocked
again and again is eventually delivered (strong fairness of `HandlerEnter`): the
kernel looks for pending signals at every return to user mode. In the multiplexer
each thread runs when it can, which includes that a cancelled thread ends; `accept`
is under no fairness, as nobody has to connect. The codec's caller sends what the
encoder holds and asks for as many bytes as it can take. `TunnelSender` and
`LineTable` state no liveness and assume no fairness. Peers are under no fairness at
all.

Every property has a mutant in `PROJECT.json`: an operator that stands for a
plausible bug (a forgotten swap, a loop bound off by one, an unclamped count)
and under which TLC finds that property violated.

## 5. Proofs

Assumptions: sizes (of tables, buffers, reads, pieces and pages) are positive, and the
bounds of the models are numbers; the sentinels are no descriptors, nor is -1 one of
lab31's server or standard input one of the multiplexer's; `SizeMax` is at least
`MaxClients`; the readiness bits are the three the servers look at; the table of
offsets starts with at least two entries. The sender has at most 255 clients, as the program does
(`CONTROL_ORDER` is 255 and no client's number), and its plain data bytes (`Cycle`) are
below the reserved ones, which are the set `Reserved`. The codec's clients and data are
any chars; its theorems exclude the two orders the decoder takes for no byte
(`OrdersAreNamed`). Three assumptions relate descriptors to
arrays, as the limits of a process do: no more than the control blocks of lab32,
fewer than the entries of lab31's array, and at most half as many as the entries of
the multiplexer's. What follows from these three is only as true as they are: that
the search of `SearchEndsInBounds` ends, and that no append goes past the array in
`TableInv` of lab31's server and of the multiplexer. The code compares its counts with
neither limit. Nothing else is assumed; TLC evaluates all of them.

* `ServerTablesProofs`, the registry: `RegistryInv` is inductive as it stands. Its
  core is that the two tables are inverse on the used slots; `RegistryImplementsMap`
  maps each action to the action of `ClientMap` of the same name, and
  `NoCapacityIsLost` needs in addition that a bijection between live ids and
  used slots leaves no id free exactly when every slot is used.
* `ServerTablesProofs`, the list: `ListInv` contains what the compaction loop keeps
  true (`CommitProgress`): everything before `i` and not behind `j` is kept,
  everything behind `j` is marked and counted in `removed`. At the end of the
  loop either the indices met or all marks were counted; both put the marks
  exactly behind the survivors, so the subtraction cuts the list there. Both parts
  have a lemma per operation, what it does to each id, for the two loops to cite.
* `UppercaseServerProofs`: `ServerInv` adds to both the link between list and
  registry and `RoundIsFresh`: in a round the first `ioable` clients of the list
  are the polled ones, `processed` equals `i`, and marks lie behind `i`.
  Readiness stays fresh because only this thread reads: peers only add
  conditions. The other safety properties follow from it.
* `DataStructureProofs`, the ring: the arithmetic of `%` on `start + k`, then one lemma per
  way an operation changes the array (an append, a removal at the head, a rotation
  that leaves the content alone), from which `RingImplementsFifo` takes its steps.
  `BuffersHoldTheSame` compares ring and linear buffer: as long as both contents are
  the same sequence, the same call has the same result in both. So the linear buffer
  is the same FIFO queue.
* `ProxyServerProofs`: `ProxyRegistryInv` is inductive. The client half is
  cited from `ServerTablesProofs`; the rest needs that a destination stays open
  as long as its client does, moved or not, so its number cannot be handed out
  again (`DestinationsDistinct`). The loop's inductive invariant, `LoopInv`, is this
  one together with `ProxyInv`. A transfer uses up readiness at its two ends and at no
  other descriptor (`TransferFacts`, `OthersStayFresh`), and a session that is dropped
  moves the last one into its slot with its report (`RemoveSessionOthers`). That no
  polled session blocks, and that only broken ones are dropped, follow from it.
* `AioServerProofs`: `AioInv` consists of what the properties say plus `Phases`
  (the signal is blocked exactly from `store` to `unblock`, and never while the
  handler runs) and `EndsSeen` (outside that window a status of end of file is
  true). `NoLostCompletion` is inductive given these. The search stays in
  bounds by a pigeonhole argument: live blocks hold distinct descriptors, and
  the one in main's hands is none of them, so fewer blocks than descriptors
  are live; the first free one is not behind `client_count`, because blocks
  beyond it are free.
* `PollServerProofs`: `PollInv` has a part for each thing a round does with the
  array. `MarksAreBehind` says that `firstToRemove` is the least mark and that
  marks lie in front of the loop's index; `ReportHolds` that what `poll` reported
  still waits in the entries not yet visited, either all or all but the newcomer's,
  and that `readable` counts them, which is why only the newcomer can block;
  `CommitProgress` is the one of the list, with a start that is not 0.
* `MultiplexerProofs`: `MxInv` is `LockOwned`, `TableInv` and `CompactProgress`.
  The lock alone does not keep the array in order, because main appends without it.
  Room for one more client (`RoomForOne`) is counted: the clients are those that are
  open and those removed in this round, which are no more than `poll` reported, and
  each of both is at most the number of descriptors. The reader finds a client at
  every entry that was reported (`ScanFindsReported`) although the entries may hold
  other clients by then. For the compaction the entries in front of the count it
  started from are the holes and the kept ones, a swap is a permutation of them, and
  at the end of the loop the holes are as many as the cells behind the survivors
  (`GatheredAtTheEnd`).
* `DataStructureProofs`, the line tables: `LineInv` describes the scan (`ScanHolds`: the piece boundaries
  are inside the line that starts at `offset`), the table, the window and what was
  printed. A line is identified by the number of starts in front of it, which is
  one-to-one (`SmallerRank`), so an entry written when its newline is found is the
  line the reference means (`LineIs`) although later bytes were not seen yet. What a
  dump has printed after m lines is the file up to the end of line m
  (`DumpGoesOn`), hence at its end the file.
* `TunnelProofs`: four inductive invariants. `SenderTables` is `TablesAgree` and
  that the tables exist exactly until the process exits; the registry's half is cited
  from `ServerTablesProofs`, and the sender's table has no more entries than the
  registry because the removal of a wrong client shrinks both by one all the same.
  `SenderBacked` adds that the message under way is that of an entry of the table, so
  that a removal either leaves it alone or sets the fault; both other invariants
  are on top of it. `SenderFair` bounds what a client has waited by the places
  between it and the one whose turn it is, the other way round the table (`InTurn`),
  and says that everybody's count starts from 0 when no message is under way.
  `SenderInOrder` follows the far end: it is inside a frame exactly when the encoder
  has one open, of the same order (`Framed`), and what a client's buffer holds goes
  on where the far end stopped (`Continues`, `Consecutive`). The escaping and the far
  end are recursive functions over sequences. Their values are shown without
  induction, by looking at the least position where one is wrong (`LeastOf`, from the
  library's theorem that the order of the naturals is well founded), and that the
  recursion has a value at all by the same argument about how far it can be
  defined (`RecursionExists`).
* `TunnelProofs`, the codec: both sides are compared with `Meaning`, the reference
  decoding, and never with each other. `Decoded` folds it over a stream, and cutting a
  stream anywhere makes no difference to it (`DecodedConcat`). A receiver's call that
  takes bytes out takes the first of what decoding its buffer yields (`Reads`, one
  lemma per function of `message_receiver.c`, with every early return for a missing
  byte). The encoder is `Coherent` with a decoder that has read all it ever wrote: each
  of its flags says what that decoder is in the middle of, and a byte whose escape
  alone was put counts as sent (`Sent`). `CodecSound`, the inductive invariant
  (`CodecIsSound`), puts the two together: the encoder is coherent with what the
  decoder's state becomes by the bytes still under way. Type correctness
  (`CodecTypes`), the refinement (`CodecImplementsQueue`) and `CodecLeavesOfOneOrder`
  follow, because a step of the encoder appends to `InTransit`, one of the
  transport leaves it alone, and one of the decoder takes a prefix of one client's.

Only model-checked: the liveness properties, `Served` (of two servers),
`ServedUnlessBlocked`, `AcceptsAgain`, `NextClientRestarts` and `EventuallyOut`, which
need fairness and `ENABLED` (beyond the prover used here).

## 6. What is not modelled

The components with status `not_modelled` in `PROJECT.json`: the line editor, the
pipe programs and the signal counter (part 8 of the plan; small sequential
programs), and those without state to speak of (option processing, directory
listing, prompts, one-shot system calls), socket set-up and address parsing, and
scripts. Within modelled components: bytes and their upper-casing in the server,
logging, `perror`, memory allocation failures, `cb_puts`, `reserve` and `resize`,
which nobody calls, failing pthread functions, the clean-up after a failing `poll`
in the sender, stdio's buffering of the typed numbers, failing and short writes to
standard output in the line programs, files that change while they are read, and
SIGINT in the middle of a registry operation (part 9 of the plan).
