---- MODULE TunnelSender ----
(***************************************************************************)
(* lab34's sender (src/lab34/lab34-sender.c, server_management.c,          *)
(* transport_protocol_buffer.c, protocol.c): the bytes of many clients     *)
(* share one tunnel.  Every round polls, accepts, reads every ready client *)
(* into a buffer of its own, and then fills the tunnel's ring with frames: *)
(* first the removals of clients that ended, then the additions, then      *)
(* data, client after client.                                              *)
(*                                                                         *)
(* The registry is ClientRegistry's code again; tsTable, the list, is the  *)
(* sender's own id_table.  The ring is its start and its count: only one   *)
(* contiguous piece of it is filled at a time, so where it starts matters. *)
(* What it holds reaches the far end as it was put (CyclicBuffer shows     *)
(* that the ring is a queue), so `rx`, the far end, is kept at the point   *)
(* it reaches when all that was put has arrived.                           *)
(*                                                                         *)
(* A round chooses what the clients do when it looks at them: a connected  *)
(* client may have nothing to say, have an error, or be readable, and then *)
(* a read finds any number of bytes, or the end.                           *)
(*                                                                         *)
(* Client bytes are numbers modulo Cycle, so that the far end can tell a   *)
(* byte lost, repeated or moved to another client, or the two bytes the    *)
(* framing reserves.  message_length has no return statement: without      *)
(* optimisation, as lab33/compile.sh builds, gcc leaves data_len in the    *)
(* register, so that is what it returns here.                              *)
(*                                                                         *)
(* `faults` remembers which of the code's known gaps a run has met:        *)
(*   wrongIndex  ts_actual_remove, which takes an index of the list, was   *)
(*               given an id that is not the client's index                *)
(*   unfinished  the client whose message was being sent has moved in the  *)
(*               list                                                      *)
(*   dropped     a byte did not fit where the code does not ask            *)
(*   reserved    a client sent a byte that has to be escaped, and the      *)
(*               count of data bytes was taken for that of encoded bytes   *)
(*   reservedId  the id of a client is itself a reserved byte, and ids are *)
(*               put as they are                                           *)
(***************************************************************************)
EXTENDS ClientRegistry, EagerFold, Framing

CONSTANTS
    BufferSize,         \* of a client's buffer, 1024 in the source
    MessageSize,        \* of the tunnel's ring, 2 * BUFFER_SIZE + 3
    Cycle,              \* plain data bytes are 0 .. Cycle - 1
    Reserved,           \* reserved bytes clients may send
    Followed            \* bound: after other faults than these, no more rounds

CONTROL_ORDER == 255
CLIENT_ADD == 1
CLIENT_REMOVE == 2
NO_ORDER == -1

ASSUME SenderAssumption ==
    /\ BufferSize \in Nat \ {0} /\ MessageSize \in Nat \ {0}
    /\ MaxClients <= CONTROL_ORDER      \* 255 in the source
    /\ Events = {"POLLIN", "POLLOUT", "POLLERR"}
    /\ Cycle \in 2 .. MESSAGE_ESCAPE
    /\ Reserved \subseteq {MESSAGE_EDGE, MESSAGE_ESCAPE}

VARIABLES
    tsTable, tsCount,       \* id_table and client_count
    removeFlag,             \* remove_flag
    addQueue,               \* add_queue
    buffers, allocated,     \* client_buffers: contents, and whether cb_init ran
    sendOrder, sendCount,   \* whose bytes are being sent, how many are left
    tunnelCount, tunnelStart,   \* tunnel_tpb.buffer
    tunnelOrder,            \* tunnel_tpb.order, of the open frame
    tunnelOut,              \* POLLOUT among the tunnel's events
    pc, i,                  \* position in a round, index of its loops
    left,                   \* ioable_count - ioable_processed
    sent,                   \* the next byte each client sends
    rx,                     \* the far end of the tunnel
    faults,
    bypassed                \* per client: messages of others since it has bytes
                            \* and stands where it is in the list

tsVars == <<tsTable, tsCount, removeFlag, addQueue>>
ringVars == <<tunnelCount, tunnelStart, tunnelOrder>>
sendVars == <<sendOrder, sendCount>>
bufferVars == <<buffers, allocated>>
pollVars == <<tunnelOut, left>>
vars == <<registryVars, tsVars, ringVars, sendVars, bufferVars, pollVars, pc, i,
          sent, rx, faults, bypassed>>

Plain == 0 .. Cycle - 1

Octets == 0 .. 255

Listed == {tsTable[k] : k \in 0 .. tsCount - 1}

RxInit == [phase |-> "idle", order |-> NO_ORDER, known |-> {},
           next |-> [id \in Ids |-> 0]]

TypeOK ==
    /\ RegistryTypeOK
    /\ tsTable \in [Ids -> Ids] /\ tsCount \in 0 .. MaxClients
    /\ removeFlag \in [Ids -> BOOLEAN]
    /\ addQueue \in Seq(Ids) /\ Len(addQueue) <= MaxClients
    /\ buffers \in [Ids -> Seq(Octets)] /\ allocated \in [Ids -> BOOLEAN]
    /\ \A id \in Ids : Len(buffers[id]) <= IF allocated[id] THEN BufferSize ELSE 0
    /\ sendOrder \in Ids \cup {NO_ORDER} /\ sendCount \in 0 .. BufferSize
    /\ tunnelCount \in 0 .. MessageSize
    /\ tunnelStart \in 0 .. MessageSize - 1
    /\ tunnelOrder \in Ids \cup {NO_ORDER, CONTROL_ORDER}
    /\ pc \in {"poll", "accept", "io", "fill", "data", "send", "undefined", "exit"}
    /\ i \in 0 .. MaxClients /\ left \in 0 .. MaxClients
    /\ sent \in [Ids -> Plain]

(* init_tserver: all zero, so send_order is the first index, not NO_ORDER. *)
Init ==
    /\ RegistryInit
    /\ pc = "poll"
    /\ sent = [id \in Ids |-> 0]
    /\ tsTable = [k \in Ids |-> 0] /\ tsCount = 0
    /\ removeFlag = [id \in Ids |-> FALSE]
    /\ addQueue = <<>>
    /\ buffers = [id \in Ids |-> <<>>] /\ allocated = [id \in Ids |-> FALSE]
    /\ sendOrder = 0 /\ sendCount = 0
    /\ tunnelCount = 0 /\ tunnelStart = 0 /\ tunnelOrder = NO_ORDER
    /\ tunnelOut = TRUE
    /\ i = 0 /\ left = 0
    /\ rx = RxInit
    /\ faults = {}
    /\ bypassed = [id \in Ids |-> 0]

Fault(name, happened) == IF happened THEN {name} ELSE {}

ReservedByte(c) == c \in {MESSAGE_EDGE, MESSAGE_ESCAPE}

ReservedId(id) == Fault("reservedId", ReservedByte(id))

-----------------------------------------------------------------------------
(* poll and accept. *)

(* Connected clients always have room to write: poll returns at once as    *)
(* long as there is one.  What else it reports of a client is chosen when  *)
(* the client is looked at.  The tunnel counts on both sides of the loop's *)
(* bound, so `left` counts the ready clients only; whether it is writeable *)
(* is chosen by TpbSend.                                                   *)
Poll ==
    /\ pc = "poll" /\ faults \subseteq Followed
    /\ PollClients([fd \in Fds |-> {"POLLOUT"}])
    /\ \E pending \in BOOLEAN :
        /\ pending \/ tunnelOut \/ open # {}
        /\ pc' = IF pending THEN "accept" ELSE "io"
    /\ left' = Cardinality(open)
    /\ i' = 0
    /\ UNCHANGED <<tsVars, ringVars, sendVars, bufferVars, tunnelOut, sent, rx, faults, bypassed>>

(* ts_add_client, if add_client gave an id. *)
Accept ==
    /\ pc = "accept"
    /\ ~IsFull
    /\ \E fd \in Fds \ open : AddClient(fd)
    /\ buffers' = [buffers EXCEPT ![NextId] = <<>>]
    /\ allocated' = [allocated EXCEPT ![NextId] = TRUE]
    /\ addQueue' = IF Len(addQueue) < MaxClients THEN Append(addQueue, NextId) ELSE addQueue
    /\ faults' = faults \cup Fault("dropped", Len(addQueue) = MaxClients)
    /\ tsTable' = [tsTable EXCEPT ![tsCount] = NextId]
    /\ tsCount' = tsCount + 1
    /\ sent' = [sent EXCEPT ![NextId] = 0]
    /\ pc' = "io"
    /\ UNCHANGED <<removeFlag, ringVars, sendVars, pollVars, i, rx, bypassed>>

Refuse ==
    /\ pc = "accept"
    /\ IsFull /\ Fds \ open # {}
    /\ pc' = "io"
    /\ UNCHANGED <<registryVars, tsVars, ringVars, sendVars, bufferVars, pollVars, i,
                   sent, rx, faults, bypassed>>

(* accept fails: the round ends here. *)
AcceptFails ==
    /\ pc = "accept"
    /\ pc' = "poll" /\ left' = 0
    /\ UNCHANGED <<registryVars, tsVars, ringVars, sendVars, bufferVars, tunnelOut, i,
                   sent, rx, faults, bypassed>>

-----------------------------------------------------------------------------
(* perform_client_io, one client at a time. *)

Current == tsTable[i]

Reported(id) == IsValidId(id) /\ GetClient(id).revents # {}

CbFull(id) == Len(buffers[id]) = IF allocated[id] THEN BufferSize ELSE 0

IoGuard == pc = "io" /\ left > 0 /\ i < tsCount

IoNext ==
    /\ left' = left - (IF Reported(Current) THEN 1 ELSE 0)
    /\ i' = i + 1
    /\ UNCHANGED <<tsTable, tsCount, addQueue, ringVars, sendVars, allocated, tunnelOut,
                   pc, rx, faults, bypassed>>

(* disconnect_client does nothing to a client that is disconnected. *)
TsRemoveClient(id) ==
    /\ removeFlag' = [removeFlag EXCEPT ![id] = TRUE]
    /\ IF GetClient(id).fd = REMOVED_CLIENT THEN UNCHANGED registryVars
       ELSE DisconnectClient(id)

(* Nothing to read, or no room for it. *)
ClientPasses ==
    /\ IoGuard
    /\ IoNext
    /\ UNCHANGED <<registryVars, removeFlag, buffers, sent>>

(* What a read of at most `room` bytes may find. *)
Arriving(next, room) ==
    {[k \in 1 .. n |-> (next + k - 1) % Cycle] : n \in 1 .. room} \cup {<<c>> : c \in Reserved}

ClientReads ==
    /\ IoGuard
    /\ Reported(Current) /\ GetClient(Current).fd # REMOVED_CLIENT
    /\ ~CbFull(Current)
    /\ \E bytes \in Arriving(sent[Current], BufferSize - Len(buffers[Current])) :
        /\ buffers' = [buffers EXCEPT ![Current] = @ \o bytes]
        /\ sent' = [sent EXCEPT ![Current] =
                        IF Head(bytes) \in Plain THEN (@ + Len(bytes)) % Cycle ELSE @]
    /\ IoNext
    /\ UNCHANGED <<registryVars, removeFlag>>

(* POLLERR, whatever room there is, or a read that fails. *)
ClientEnds ==
    /\ IoGuard
    /\ Reported(Current)
    /\ TsRemoveClient(Current)
    /\ IoNext
    /\ UNCHANGED <<buffers, sent>>

IoEnd ==
    /\ pc = "io" /\ ~(left > 0 /\ i < tsCount)
    /\ pc' = "fill" /\ i' = 0
    /\ left' = 0
    /\ UNCHANGED <<registryVars, tsVars, ringVars, sendVars, bufferVars, tunnelOut,
                   sent, rx, faults, bypassed>>

-----------------------------------------------------------------------------
(* The tunnel's ring. *)

(* The far end: frames are taken apart as the sender means them; a byte    *)
(* of an unknown client, or out of its sequence, garbles the stream, and   *)
(* so does a reserved byte where an id belongs.                            *)
Deliver(r, id, c) ==
    IF id \in r.known /\ c = r.next[id]
      THEN [r EXCEPT !.next[id] = (c + 1) % Cycle]
      ELSE [r EXCEPT !.phase = "garbled"]

Misread(r, c) == r.phase \in {"order", "add", "remove"} /\ ReservedByte(c)

Receive(r, c) ==
    CASE Misread(r, c) -> [r EXCEPT !.phase = "garbled"]
      [] r.phase = "idle" -> [r EXCEPT !.phase = IF c = MESSAGE_EDGE THEN "order" ELSE "garbled"]
      [] r.phase = "order" /\ ~Misread(r, c) -> [r EXCEPT !.phase = "frame", !.order = c]
      [] r.phase = "frame" /\ c = MESSAGE_EDGE -> [r EXCEPT !.phase = "idle"]
      [] r.phase = "frame" /\ c # MESSAGE_EDGE ->
           IF r.order # CONTROL_ORDER THEN Deliver(r, r.order, c)
           ELSE [r EXCEPT !.phase = IF c = CLIENT_ADD THEN "add" ELSE "remove"]
      [] r.phase = "add" /\ ~Misread(r, c) ->
           [r EXCEPT !.phase = "frame", !.known = @ \cup {c}, !.next[c] = 0]
      [] r.phase = "remove" /\ ~Misread(r, c) ->
           [r EXCEPT !.phase = "frame", !.known = @ \ {c}, !.next[c] = 0]
      [] OTHER -> r

FreeSpace == MessageSize - tunnelCount

(* cb_putc of every byte of s: what does not fit is dropped. *)
Put(s) ==
    LET n == IF Len(s) < FreeSpace THEN Len(s) ELSE FreeSpace
    IN  /\ tunnelCount' = tunnelCount + n
        /\ rx' = IF faults' = {} THEN Folded(Receive, rx, s) ELSE RxInit
        /\ UNCHANGED tunnelStart

(* cb_free_contiguous_space when the ring holds `filled` bytes. *)
FreeContiguousSpace(filled) ==
    IF tunnelStart + filled <= MessageSize THEN MessageSize - (tunnelStart + filled)
    ELSE MessageSize - filled

(* tpb_put_order: closes the open frame, which the wrong one forgets, and  *)
(* opens another.                                                          *)
OrderHeaderUnclosed(order) == <<MESSAGE_EDGE, order>>

OrderHeader(order) ==
    (IF tunnelOrder # NO_ORDER THEN <<MESSAGE_EDGE>> ELSE <<>>) \o <<MESSAGE_EDGE, order>>

(* tpb_contol_message.  The room is not checked if a control frame is open. *)
ControlFits == tunnelOrder = CONTROL_ORDER \/ 2 + Len(OrderHeader(0)) <= FreeSpace

ControlBytes(op, id) ==
    (IF tunnelOrder = CONTROL_ORDER THEN <<>> ELSE OrderHeader(CONTROL_ORDER)) \o <<op, id>>

ControlMessage(op, id) ==
    /\ Put(ControlBytes(op, id))
    /\ tunnelOrder' = CONTROL_ORDER

ControlFaults(op, id) ==
    Fault("dropped", Len(ControlBytes(op, id)) > FreeSpace) \cup ReservedId(id)

(* pr_encapsulate: as many bytes of the data as fit into `room`, escaped. *)
EscapeByte(encoded, c) ==
    IF ReservedByte(c) THEN encoded \o <<MESSAGE_ESCAPE, c>>
    ELSE Append(encoded, c)

Escaped(s) == Folded(EscapeByte, <<>>, s)

Consumed(s, room) ==
    CHOOSE n \in 0 .. Len(s) :
        /\ Len(Escaped(SubSeq(s, 1, n))) <= room
        /\ \A m \in n + 1 .. Len(s) : Len(Escaped(SubSeq(s, 1, m))) > room

-----------------------------------------------------------------------------
(* fill_message. *)

(* The list after a removal, and wrongly when the last entry is not moved  *)
(* into the hole.                                                          *)
ListCutShort(index) == tsTable

ListWithout(index) == [tsTable EXCEPT ![index] = tsTable[tsCount - 1]]

(* ts_actual_remove(index); process_empty_removed passes an id. *)
TsActualRemove(index) ==
    LET victim == tsTable[index] IN
    /\ IF IsValidId(victim)
         THEN RemoveClient(victim)
         ELSE UNCHANGED registryVars
    /\ buffers' = [buffers EXCEPT ![victim] = <<>>]
    /\ allocated' = [allocated EXCEPT ![victim] = FALSE]
    /\ tsTable' = ListWithout(index)
    /\ tsCount' = tsCount - 1

EmptyRemoved(id) == removeFlag[id] /\ buffers[id] = <<>>

(* The clients process_empty_removed has still to say goodbye to: its loop *)
(* is at index i, and stays there after a removal.                         *)
Leaving == {k \in i .. tsCount - 1 : EmptyRemoved(tsTable[k])}

RemoveEmpty ==
    /\ pc = "fill" /\ ControlFits
    /\ \E k \in Leaving :
        /\ \A m \in Leaving : k <= m
        /\ faults' = faults \cup ControlFaults(CLIENT_REMOVE, tsTable[k])
              \cup Fault("wrongIndex", tsTable[k] # k)
              \cup Fault("unfinished", sendCount > 0 /\ sendOrder \in {k, tsCount - 1})
        /\ ControlMessage(CLIENT_REMOVE, tsTable[k])
        /\ removeFlag' = [removeFlag EXCEPT ![tsTable[k]] = FALSE]
        /\ TsActualRemove(tsTable[k])
        /\ i' = k
    /\ bypassed' = [bypassed EXCEPT ![tsTable[tsCount - 1]] = 0]    \* it has moved
    /\ UNCHANGED <<addQueue, sendVars, pollVars, pc, sent>>

(* process_added *)
Announce ==
    /\ pc = "fill" /\ Leaving = {}
    /\ addQueue # <<>> /\ ControlFits
    /\ faults' = faults \cup ControlFaults(CLIENT_ADD, Head(addQueue))
    /\ ControlMessage(CLIENT_ADD, Head(addQueue))
    /\ addQueue' = Tail(addQueue)
    /\ UNCHANGED <<registryVars, tsTable, tsCount, removeFlag, sendVars, bufferVars,
                   pollVars, pc, i, sent, bypassed>>

(* A control message that does not fit ends fill_message. *)
FillStops ==
    /\ pc = "fill"
    /\ Leaving # {} \/ addQueue # <<>>
    /\ ~ControlFits
    /\ pc' = "send" /\ i' = 0
    /\ UNCHANGED <<registryVars, tsVars, ringVars, sendVars, bufferVars, pollVars,
                   sent, rx, faults, bypassed>>

ControlSent ==
    \/ pc = "data"
    \/ pc = "fill" /\ Leaving = {} /\ addQueue = <<>>

(* next_message_client: the first index behind `previous`, cyclically,     *)
(* whose client has something to send.  The wrong one always starts from   *)
(* the first.                                                              *)
Candidates(first) ==
    {k \in 0 .. tsCount - 1 : buffers[tsTable[(first + k) % tsCount]] # <<>>}

NextFrom(first) ==
    IF tsCount = 0 \/ Candidates(first) = {} THEN NO_ORDER
    ELSE LET k == CHOOSE k \in Candidates(first) : \A m \in Candidates(first) : k <= m
         IN  (first + k) % tsCount

NextMessageClientFirst(previous) == NextFrom(0)

NextMessageClient(previous) == NextFrom(previous + 1)

(* The turn of one iteration: who sends, and how many bytes of its message *)
(* are left.  The wrong turn goes to the next client in the middle of a    *)
(* message.                                                                *)
TurnOrderAlwaysNext == NextMessageClient(sendOrder)

TurnOrder == IF sendOrder = NO_ORDER \/ sendCount = 0 THEN NextMessageClient(sendOrder)
             ELSE sendOrder

TurnId == tsTable[TurnOrder]

TurnCount == IF sendCount = 0 THEN Len(buffers[TurnId]) ELSE sendCount

(* A message begins: the clients that have bytes, too, wait once more. *)
CountTurn ==
    bypassed' = IF sendCount # 0 THEN bypassed
                ELSE [id \in Ids |->
                        IF id = TurnId \/ buffers[id] = <<>> THEN 0 ELSE bypassed[id] + 1]

NothingToSend ==
    /\ ControlSent /\ TurnOrder = NO_ORDER
    /\ sendOrder' = NO_ORDER
    /\ pc' = "send" /\ i' = 0
    /\ UNCHANGED <<registryVars, tsVars, ringVars, sendCount, bufferVars, pollVars,
                   sent, rx, faults, bypassed>>

(* The message is longer than what the buffer holds: what is sent is       *)
(* whatever the memory behind the content holds, and a buffer that was     *)
(* freed is read through a null pointer.                                   *)
DataUndefined ==
    /\ ControlSent /\ TurnOrder # NO_ORDER
    /\ TurnCount > Len(buffers[TurnId])
    /\ pc' = "undefined" /\ i' = 0
    /\ UNCHANGED <<registryVars, tsVars, ringVars, sendVars, bufferVars, pollVars,
                   sent, rx, faults, bypassed>>

HeaderFits == tunnelOrder = TurnId \/ 1 + Len(OrderHeader(0)) <= FreeSpace

NoRoomForData ==
    /\ ControlSent /\ TurnOrder # NO_ORDER
    /\ TurnCount <= Len(buffers[TurnId])
    /\ ~HeaderFits
    /\ sendOrder' = TurnOrder /\ sendCount' = TurnCount /\ CountTurn
    /\ pc' = "send" /\ i' = 0
    /\ UNCHANGED <<registryVars, tsVars, ringVars, bufferVars, pollVars, sent,
                   rx, faults>>

(* tpb_encapsulate.  Its second iteration finds the contiguous space used  *)
(* up and adds nothing.  The number of data bytes consumed is also the     *)
(* number of encoded bytes that are kept.                                  *)
EncapsulateData ==
    /\ ControlSent /\ TurnOrder # NO_ORDER
    /\ TurnCount <= Len(buffers[TurnId])
    /\ HeaderFits
    /\ faults' = faults \cup ReservedId(TurnId) \cup
          Fault("reserved", \E k \in 1 .. TurnCount : buffers[TurnId][k] \notin Plain)
    /\ LET header == IF tunnelOrder = TurnId THEN <<>> ELSE OrderHeader(TurnId)
           position == (tunnelStart + tunnelCount + Len(header)) % MessageSize
           space == FreeContiguousSpace(tunnelCount + Len(header))
           message == SubSeq(buffers[TurnId], 1, TurnCount)
           n == Consumed(message, IF TurnCount < space THEN TurnCount ELSE space)
       IN  /\ Put(header \o SubSeq(Escaped(message), 1, n))
           /\ buffers' = [buffers EXCEPT ![TurnId] = SubSeq(@, n + 1, Len(@))]
           /\ sendCount' = TurnCount - n
           /\ pc' = CASE position + n > MessageSize -> "undefined"
                      [] position + n <= MessageSize /\ n = TurnCount -> "data"
                      [] OTHER -> "send"
    /\ tunnelOrder' = TurnId
    /\ sendOrder' = TurnOrder /\ CountTurn
    /\ i' = 0
    /\ UNCHANGED <<registryVars, tsVars, allocated, pollVars, sent>>

-----------------------------------------------------------------------------
(* tpb_send, on a blocking socket that reported POLLOUT: all of the        *)
(* content is written, rotated to the front first if it was wrapped.       *)

TpbSend(writeable) ==
    /\ pc = "send"
    /\ IF writeable
         THEN /\ tunnelOut
              /\ tunnelStart' = (IF tunnelStart + tunnelCount > MessageSize THEN tunnelCount
                                 ELSE tunnelStart + tunnelCount) % MessageSize
              /\ tunnelCount' = 0
         ELSE UNCHANGED <<tunnelCount, tunnelStart>>
    /\ tunnelOut' = (tunnelCount' # 0)
    /\ pc' = "poll"
    /\ UNCHANGED <<registryVars, tsVars, tunnelOrder, sendVars, bufferVars, left, i,
                   sent, rx, faults, bypassed>>

Loop ==
    \/ Poll
    \/ Accept \/ Refuse \/ AcceptFails
    \/ ClientPasses \/ ClientReads \/ ClientEnds \/ IoEnd
    \/ RemoveEmpty \/ Announce \/ FillStops
    \/ NothingToSend \/ DataUndefined \/ NoRoomForData \/ EncapsulateData
    \/ TpbSend(TRUE) \/ TpbSend(FALSE)

(* SIGINT.  What the process kept in memory is gone. *)
Interrupt ==
    /\ pc \notin {"undefined", "exit"}
    /\ SafeCleanup
    /\ pc' = "exit" /\ i' = 0 /\ left' = 0
    /\ tsTable' = [k \in Ids |-> 0] /\ tsCount' = 0
    /\ removeFlag' = [id \in Ids |-> FALSE] /\ addQueue' = <<>>
    /\ buffers' = [id \in Ids |-> <<>>] /\ allocated' = [id \in Ids |-> FALSE]
    /\ sendOrder' = 0 /\ sendCount' = 0
    /\ tunnelCount' = 0 /\ tunnelStart' = 0 /\ tunnelOrder' = NO_ORDER
    /\ tunnelOut' = TRUE
    /\ sent' = [id \in Ids |-> 0]
    /\ rx' = RxInit /\ faults' = {}
    /\ bypassed' = [id \in Ids |-> 0]

Stopped ==
    /\ pc \in {"undefined", "exit"} \/ ~(faults \subseteq Followed)
    /\ UNCHANGED vars

Next == Loop \/ Interrupt \/ Stopped

Spec == Init /\ [][Next]_vars

-----------------------------------------------------------------------------
(* Properties. *)

(* Whatever goes wrong above it, the registry stays sound, and the         *)
(* sender's list never grows longer than the registry: is_full bounds both *)
(* arrays although it looks at one of them only.                           *)
TablesInBounds ==
    /\ TypeOK
    /\ RegistryInv
    /\ up => tsCount <= clientCount

(* As long as every removal was given an id that is the client's index,    *)
(* the list names exactly the registered clients, each once.               *)
ListMatchesRegistry ==
    up /\ "wrongIndex" \notin faults =>
        /\ Listed = Live
        /\ \A k, m \in 0 .. tsCount - 1 : tsTable[k] = tsTable[m] => k = m

(* What the sender's tables promise, before and after it was misled.       *)
TablesAgree == TablesInBounds /\ ListMatchesRegistry

(* A message never outgrows what its client's buffer holds, so no memory   *)
(* but the content is sent, until a removal disturbed the list.            *)
MessageIsBacked ==
    faults \cap {"wrongIndex", "unfinished"} = {} =>
        /\ pc # "undefined"
        /\ sendCount > 0 => sendCount <= Len(buffers[tsTable[sendOrder]])

(* Until one of the gaps was met, the far end gets every client's bytes in *)
(* order, each once, after the client was announced and attributed to it:  *)
(* through full rings, wrapped rings and messages sent piece by piece.     *)
DeliveredInOrder == faults = {} => rx.phase # "garbled"

(* No gap but the one that only the far end notices. *)
Unhindered == faults \subseteq {"reservedId"}

(* Every client gets its turn: while it has bytes to send and keeps its    *)
(* place in the list, the others begin fewer messages than a full list has *)
(* clients before it begins one, as long as no gap hinders the sender:     *)
(* joining and leaving clients, full rings and idle rounds do not make the *)
(* rotation skip anyone.  A client that a removal moved into the hole      *)
(* waits anew from there: with four clients the rotation may just have     *)
(* passed it.                                                              *)
TurnsAreFair == Unhindered => \A id \in Ids : bypassed[id] < MaxClients
====
