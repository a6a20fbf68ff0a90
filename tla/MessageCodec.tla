---- MODULE MessageCodec ----
(***************************************************************************)
(* lab34's message codec: message_buffer.c frames and escapes the bytes of *)
(* many clients into one linear buffer, message_receiver.c takes them      *)
(* apart again.  A frame is an edge, the client's "order" and its bytes;   *)
(* it is closed by another edge when a different order follows.  Either    *)
(* side may stop after any byte: the encoder because its buffer is full,   *)
(* the decoder because the rest has not arrived.                           *)
(*                                                                         *)
(* The linear buffers are sequences here (IOBuffer shows that they are     *)
(* bounded queues).  char is signed, and try_read_char's results are both  *)
(* bytes and reasons for there being none: a client's byte of 128 or more  *)
(* is below zero, and it ends decapsulate's loop as the end of the buffer  *)
(* does.  It has left the buffer and is lost.                              *)
(***************************************************************************)
EXTENDS EagerFold, Framing

CONSTANTS
    Size,           \* of both buffers
    Orders,         \* clients, as char; 0 is init_mb's
    Chars,          \* data bytes, as char
    MaxData         \* bound on the bytes of one call

Char == -128 .. 127

(* What try_read_char returns instead of a byte. *)
END_OF_BUFFER == -1
MESSAGE_BOUNDARY == -2
NoByte == {END_OF_BUFFER, MESSAGE_BOUNDARY}

ASSUME CodecAssumption ==
    /\ Size \in Nat \ {0} /\ MaxData \in Nat
    /\ Orders \cup Chars \subseteq Char

VARIABLES
    mb,             \* MessageBuffer
    mr,             \* MessageReceiver
    call            \* the last call: its name, and the bytes encapsulate said
                    \* it consumed or decapsulate handed out, with their order

codecVars == <<mb, mr, call>>

CodecTypeOK ==
    /\ mb \in [message : Seq(Char), order : Char, escape : BOOLEAN,
               escapedChar : Char, startPut : BOOLEAN, orderPut : BOOLEAN]
    /\ mr \in [message : Seq(Char), order : Char, escape : BOOLEAN,
               started : BOOLEAN, orderGot : BOOLEAN]
    /\ Len(mb.message) <= Size /\ Len(mr.message) <= Size

CodecInit ==
    /\ mb = [message |-> <<>>, order |-> 0, escape |-> FALSE, escapedChar |-> 0,
             startPut |-> FALSE, orderPut |-> FALSE]
    /\ mr = [message |-> <<>>, order |-> 0, escape |-> FALSE, started |-> FALSE,
             orderGot |-> FALSE]
    /\ call = [name |-> "none", bytes |-> <<>>]

NeedEscape(c) == c \in {MESSAGE_EDGE, MESSAGE_ESCAPE}

-----------------------------------------------------------------------------
(* The encoder.  An attempt `a` is a call in progress: the buffer so far,  *)
(* whether everything fitted (a put after one that failed does nothing),   *)
(* and how many data bytes were consumed.                                  *)

TryPut(a, c) ==
    IF ~a.fits THEN a
    ELSE IF Len(a.mb.message) = Size THEN [a EXCEPT !.fits = FALSE]
    ELSE [a EXCEPT !.mb.message = Append(@, c)]

PutEscapedChar(a) ==
    IF ~a.mb.escape THEN a
    ELSE LET b == TryPut(a, a.mb.escapedChar) IN [b EXCEPT !.mb.escape = ~b.fits]

(* What put_char and put_order share.  An escaped byte counts as put once  *)
(* its escape is; the byte itself follows with the next put.               *)
PutEscaping(a, c) ==
    LET ready == PutEscapedChar(a) IN
    IF ~NeedEscape(c) THEN TryPut(ready, c)
    ELSE LET b == TryPut(ready, MESSAGE_ESCAPE) IN
         IF ~b.fits THEN b
         ELSE [b EXCEPT !.mb.escape = TRUE, !.mb.escapedChar = c]

PutStart(a) ==
    IF a.mb.startPut THEN a
    ELSE LET b == TryPut(a, MESSAGE_EDGE) IN [b EXCEPT !.mb.startPut = b.fits]

PutOrder(a) ==
    IF a.mb.orderPut THEN a
    ELSE LET b == PutEscaping(a, a.mb.order) IN [b EXCEPT !.mb.orderPut = b.fits]

(* A wrong put_char that does not count a byte of which only the escape    *)
(* was put.                                                                *)
PutCharUncounted(a, c) ==
    LET b == PutEscaping(a, c) IN
    IF b.fits /\ ~b.mb.escape THEN [b EXCEPT !.count = @ + 1] ELSE b

PutChar(a, c) ==
    LET b == PutEscaping(a, c) IN IF b.fits THEN [b EXCEPT !.count = @ + 1] ELSE b

CloseFrame(a, order) ==
    IF ~a.mb.startPut \/ a.mb.order = order THEN a
    ELSE LET b == TryPut(PutEscapedChar(PutOrder(a)), MESSAGE_EDGE) IN
         [b EXCEPT !.mb.startPut = ~b.fits]

SetOrder(a, order) ==
    IF ~a.fits \/ a.mb.order = order THEN a
    ELSE [a EXCEPT !.mb.order = order, !.mb.orderPut = FALSE]

NO_SPACE == -1

LabelledWith(order, data, n) == [k \in 1 .. n |-> <<order, data[k]>>]

(* encapsulate's result tells its caller how many bytes it consumed; the   *)
(* caller offers the others again.                                         *)
Encapsulate(data, order) ==
    \E closed \in {CloseFrame([mb |-> mb, fits |-> TRUE, count |-> 0], order)} :
    \E begun \in {PutStart(SetOrder(closed, order))} :
    \E done \in {Folded(PutChar, PutOrder(begun), data)} :
        LET result == IF closed.fits THEN done.count ELSE NO_SPACE IN
        /\ mb' = done.mb
        /\ call' = [name |-> "encapsulate", bytes |-> LabelledWith(order, data, result)]
        /\ UNCHANGED mr

-----------------------------------------------------------------------------
(* iob_send and iob_recv: any part of what is waiting, as far as it fits.  *)
Transfer(n) ==
    /\ n \in 1 .. Len(mb.message) /\ Len(mr.message) + n <= Size
    /\ mr' = [mr EXCEPT !.message = @ \o SubSeq(mb.message, 1, n)]
    /\ mb' = [mb EXCEPT !.message = SubSeq(@, n + 1, Len(@))]
    /\ call' = [name |-> "none", bytes |-> <<>>]

-----------------------------------------------------------------------------
(* The decoder. *)

TrySkipStart(r) ==
    IF r.started \/ r.message = <<>> THEN r
    ELSE [r EXCEPT !.message = Tail(@), !.started = TRUE]

(* A wrong try_read_char that leaves the closing edge to its caller. *)
TryReadCharPeeking(r) ==
    IF r.message = <<>> THEN [r |-> r, c |-> END_OF_BUFFER]
    ELSE IF ~r.escape /\ Head(r.message) = MESSAGE_EDGE
      THEN [r |-> [r EXCEPT !.orderGot = FALSE], c |-> MESSAGE_BOUNDARY]
    ELSE [r |-> [r EXCEPT !.message = Tail(@), !.escape = FALSE], c |-> Head(r.message)]

TryReadChar(r) ==
    IF r.message = <<>> THEN [r |-> r, c |-> END_OF_BUFFER]
    ELSE LET rest == [r EXCEPT !.message = Tail(@)] IN
         CASE r.escape -> [r |-> [rest EXCEPT !.escape = FALSE], c |-> Head(r.message)]
           [] ~r.escape /\ Head(r.message) = MESSAGE_ESCAPE ->
                IF rest.message = <<>>
                  THEN [r |-> [rest EXCEPT !.escape = TRUE], c |-> END_OF_BUFFER]
                  ELSE [r |-> [rest EXCEPT !.message = Tail(@)], c |-> Head(rest.message)]
           [] ~r.escape /\ Head(r.message) = MESSAGE_EDGE ->
                [r |-> [rest EXCEPT !.started = FALSE, !.orderGot = FALSE],
                 c |-> MESSAGE_BOUNDARY]
           [] OTHER -> [r |-> rest, c |-> Head(r.message)]

TryParseOrder(r) ==
    LET begun == TrySkipStart(r)
        read == TryReadChar(begun)
    IN  IF r.orderGot THEN r
        ELSE IF ~begun.started THEN begun
        ELSE IF read.c \in NoByte THEN read.r
        ELSE [read.r EXCEPT !.order = read.c, !.orderGot = TRUE]

(* get_current_order and get_contiguous_count. *)
GetCurrentOrder ==
    /\ mr' = TryParseOrder(mr)
    /\ call' = [name |-> "none", bytes |-> <<>>]
    /\ UNCHANGED mb

(* try_read_char until n bytes were read or a result is below zero, which  *)
(* a byte can be: it is read and not handed out.                           *)
ReadNext(reading, k) ==
    LET read == TryReadChar(reading.r) IN
    IF ~reading.going THEN reading
    ELSE IF read.c < 0 THEN [reading EXCEPT !.r = read.r, !.going = FALSE]
    ELSE [reading EXCEPT !.r = read.r, !.got = Append(@, <<reading.r.order, read.c>>)]

ReadMany(r, n) ==
    Folded(ReadNext, [r |-> r, got |-> <<>>, going |-> r.orderGot], [k \in 1 .. n |-> k])

Decapsulate(n) ==
    \E reading \in {ReadMany(TryParseOrder(mr), n)} :
    /\ mr' = reading.r
    /\ call' = [name |-> "decapsulate", bytes |-> reading.got]
    /\ UNCHANGED mb

(* A wrong skip that goes on behind the end of the frame. *)
SkippedAcross(r) ==
    LET first == ReadMany(r, Size + 1).r IN ReadMany(TryParseOrder(first), Size + 1).r

(* skip does not count what it skipped: it stops where the frame, or what  *)
(* has arrived of it, ends.                                                *)
Skipped(r) == ReadMany(r, Size + 1).r

Skip ==
    /\ mr' = Skipped(TryParseOrder(mr))
    /\ call' = [name |-> "skip", bytes |-> <<>>]
    /\ UNCHANGED mb

Data == UNION {[1 .. n -> Chars] : n \in 1 .. MaxData}

Encode == \E order \in Orders, data \in Data : Encapsulate(data, order)

Transport == \E n \in 1 .. Size : Transfer(n)

CodecNext ==
    \/ Encode
    \/ Transport
    \/ GetCurrentOrder
    \/ \E n \in 1 .. MaxData : Decapsulate(n)
    \/ Skip

(* A caller that sends what it has and reads what has arrived. *)
CodecSpec == CodecInit /\ [][CodecNext]_codecVars /\ WF_codecVars(Transport) /\ WF_codecVars(Decapsulate(MaxData))

-----------------------------------------------------------------------------
(* Properties. *)

(* What the framing means, byte by byte: the reference for both sides.  A  *)
(* byte that means "no byte" cannot name a client.                         *)
Meaning(d, c) ==
    LET byte == IF d.orderGot THEN [d EXCEPT !.escape = FALSE, !.out = Append(@, <<d.order, c>>)]
                ELSE IF c \in NoByte THEN [d EXCEPT !.escape = FALSE]
                ELSE [d EXCEPT !.escape = FALSE, !.order = c, !.orderGot = TRUE]
    IN  CASE ~d.started -> [d EXCEPT !.started = TRUE]
          [] d.started /\ ~d.escape /\ c = MESSAGE_ESCAPE -> [d EXCEPT !.escape = TRUE]
          [] d.started /\ ~d.escape /\ c = MESSAGE_EDGE ->
               [d EXCEPT !.started = FALSE, !.orderGot = FALSE]
          [] OTHER -> byte

(* The bytes under way: in the receiver's buffer, in the encoder's, and    *)
(* the one whose escape alone was put.                                     *)
UnderWay == mr.message \o mb.message
              \o (IF mb.escape THEN <<mb.escapedChar>> ELSE <<>>)

InTransit ==
    Folded(Meaning, [escape |-> mr.escape, started |-> mr.started,
                       orderGot |-> mr.orderGot, order |-> mr.order, out |-> <<>>],
             UnderWay).out

(* The clients' orders can be told from "no byte": as a char, 255 and 254  *)
(* cannot.                                                                 *)
OrdersAreNamed == Orders \cap NoByte = {}

(* Encoder, transport and decoder together are a queue of bytes labelled   *)
(* with their client: wherever a full buffer or a late byte interrupts     *)
(* them, exactly the bytes encapsulate said it consumed are under way,     *)
(* once, in order and under the order it was given, so a caller that       *)
(* offers the others again sends each once; decapsulate hands out the      *)
(* oldest of them.  It loses a byte below zero, and no other.              *)
Queue == INSTANCE MessageQueue WITH
    Capacity <- 2 * Size + 1,
    queue <- InTransit

ImplementsQueue == Queue!Spec

(* The bytes one call takes out all belong to one client, the one          *)
(* get_current_order named before: decapsulate and skip stop at the frame. *)
LeavesOfOneOrder ==
    [][call'.name \in {"decapsulate", "skip"} =>
         LET left == Len(InTransit) - Len(InTransit') IN
         \A k \in 1 .. left : InTransit[k][1] = InTransit[1][1]]_codecVars

(* What was consumed leaves the codec in the end, although the buffers     *)
(* hold no more than a part of it at a time; only a byte whose escape      *)
(* alone was put may wait for the next encapsulate.                        *)
EventuallyOut ==
    <>[][~Skip]_codecVars =>
       \/ []<>(Len(InTransit) <= 1)
       \/ []<><<Len(InTransit') < Len(InTransit)>>_codecVars
====
