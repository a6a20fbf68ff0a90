---- MODULE IOBuffer ----
(***************************************************************************)
(* The linear byte buffer of lab33's proxy and of lab34's message code     *)
(* (src/lab33/iobuffer.c; src/lab34/iobuffer.c adds iob_getc): the content *)
(* always begins at cell 0, so what is left after a partial write is moved *)
(* to the front.  The growing of a buffer (reserve, resize) has no caller  *)
(* and is left out.                                                        *)
(*                                                                         *)
(* `taken` is what the last operation handed out.                          *)
(***************************************************************************)
EXTENDS BufferTypes

VARIABLES buf, count, taken

vars == <<buf, count, taken>>

TypeOK ==
    /\ buf \in [Cells -> Bytes]
    /\ count \in 0 .. Size
    /\ taken \in Seq(Bytes)

(* init_iobuf: malloc does not initialise the cells. *)
Init ==
    /\ buf \in [Cells -> Bytes]
    /\ count = 0
    /\ taken = <<>>

FreeSpace == Size - count

Full == count = Size

Empty == count = 0

Content == [k \in 1 .. count |-> buf[k - 1]]

(* The array with the bytes of s stored from cell `at` on. *)
Stored(at, s) ==
    [c \in Cells |-> IF c - at + 1 \in DOMAIN s THEN s[c - at + 1] ELSE buf[c]]

-----------------------------------------------------------------------------
(* A wrong move that copies in descending order. *)
MovedDownBackwards(offset) ==
    LET moved[c \in Cells] ==
          IF offset = 0 \/ c >= count - offset THEN buf[c]
          ELSE IF c + offset < count - offset THEN moved[c + offset]
          ELSE buf[c + offset]
    IN  moved

(* The array after iob_shift(offset): the bytes are copied towards the     *)
(* front in ascending order, so none is overwritten before it was moved.   *)
MovedDown(offset) ==
    [c \in Cells |-> IF c < count - offset THEN buf[c + offset] ELSE buf[c]]

Clamped(offset) == MinOf(offset, count)

ShiftBy(offset) ==
    /\ count' = count - Clamped(offset)
    /\ buf' = MovedDown(Clamped(offset))

-----------------------------------------------------------------------------
(* Operations. *)

(* iob_shift, called with any offset. *)
Shift(offset) ==
    /\ ShiftBy(offset)
    /\ taken' = <<>>

(* iob_recv: read() stores s behind the content.  End of file and errors   *)
(* return -1 and change nothing.                                           *)
Recv(s) ==
    /\ Len(s) \in 1 .. FreeSpace
    /\ buf' = Stored(count, s)
    /\ count' = count + Len(s)
    /\ taken' = <<>>

(* iob_send: write() takes n bytes from the front of the content. *)
Send(n) ==
    /\ n \in 0 .. count
    /\ ShiftBy(n)
    /\ taken' = SubSeq(Content, 1, n)

(* iob_puts: as many bytes of s as fit. *)
Puts(s) ==
    LET fitting == SubSeq(s, 1, MinOf(Len(s), FreeSpace)) IN
    /\ buf' = Stored(count, fitting)
    /\ count' = count + Len(fitting)
    /\ taken' = <<>>

Putc(b) ==
    /\ ~Full
    /\ buf' = [buf EXCEPT ![count] = b]
    /\ count' = count + 1
    /\ taken' = <<>>

Getc ==
    /\ ~Empty
    /\ taken' = <<buf[0]>>
    /\ ShiftBy(1)

Clear ==
    /\ count' = 0
    /\ taken' = <<>>
    /\ UNCHANGED buf

Inputs == UNION {[1 .. n -> Bytes] : n \in 1 .. Size + 1}

Next ==
    \/ \E s \in Inputs : Recv(s) \/ Puts(s)
    \/ \E n \in 0 .. Size : Send(n)
    \/ \E offset \in 0 .. Size + 1 : Shift(offset)
    \/ \E b \in Bytes : Putc(b)
    \/ Getc
    \/ Clear

Spec == Init /\ [][Next]_vars

-----------------------------------------------------------------------------
(* Properties. *)

(* The buffer is a bounded queue: a partial write loses and repeats no     *)
(* byte, and no byte is overwritten before it was sent.                    *)
Queue == INSTANCE Fifo WITH
    Capacity <- Size,
    queue <- Content,
    taken <- taken

ImplementsFifo == Queue!Spec
====
