---- MODULE CyclicBuffer ----
(***************************************************************************)
(* lab34's ring buffer (src/lab34/cyclic_buffer.c): `count` bytes from     *)
(* buf[start] on, wrapping around at the end of the array.  system calls   *)
(* need one contiguous piece of memory, so the buffer is rotated in place  *)
(* (cb_shift) before a read and before a write of a wrapped content.       *)
(*                                                                         *)
(* `taken` is what the last operation handed out: through its out          *)
(* parameter, to the descriptor it writes to, or to a caller that reads    *)
(* the bytes at cb_data and then skips them.                               *)
(***************************************************************************)
EXTENDS BufferTypes

VARIABLES buf, start, count, taken

cyclicVars == <<buf, start, count, taken>>

RingTypeOK ==
    /\ buf \in [Cells -> Bytes]
    /\ start \in Cells
    /\ count \in 0 .. Size
    /\ taken \in Seq(Bytes)

(* cb_init: malloc does not initialise the cells. *)
RingInit ==
    /\ buf \in [Cells -> Bytes]
    /\ start = 0
    /\ count = 0
    /\ taken = <<>>

-----------------------------------------------------------------------------
(* Queries. *)

Full == count = Size

Empty == count = 0

FreeSpace == Size - count

(* cb_contiguous_space: how many bytes cb_data's caller may read. *)
ContiguousSpace == MinOf(Size - start, count)

(* cb_data_end, and cb_free_contiguous_space: how many it may write there. *)
DataEnd == (start + count) % Size

FreeContiguousForgotten == FreeSpace     \* wrong: ignores the array's end

FreeContiguousSpace ==
    IF start + count <= Size THEN Size - (start + count) ELSE FreeSpace

(* The content, oldest byte first. *)
ByteAt(k) == buf[(start + k - 1) % Size]

Content == [k \in 1 .. count |-> ByteAt(k)]

-----------------------------------------------------------------------------
(* A wrong cb_shift that copies within the array, without a second buffer. *)
ShiftedInPlace ==
    LET moved[c \in Cells] ==
          LET from == (start + c) % Size IN
          IF c >= count THEN buf[c]
          ELSE IF from < c THEN moved[from]
          ELSE buf[from]
    IN  moved

(* The array after cb_shift; the content then begins at cell 0. *)
Shifted ==
    IF start = 0 THEN buf
    ELSE [c \in Cells |-> IF c < count THEN buf[(start + c) % Size] ELSE buf[c]]

(* cb_skip, applied to content that begins at `from`. *)
SkipFrom(from, n) ==
    LET dropped == MinOf(n, count) IN
    /\ count' = count - dropped
    /\ start' = (from + dropped) % Size

(* cb_skip_right, after the bytes behind the content were written. *)
SkipRight(n) == count' = count + MinOf(n, FreeSpace)

(* The array `cells` with the bytes of s stored from cell `at` on. *)
Stored(cells, at, s) ==
    [c \in Cells |-> IF c - at + 1 \in DOMAIN s THEN s[c - at + 1] ELSE cells[c]]

-----------------------------------------------------------------------------
(* Operations.  One that finds no room, or nothing to hand out, returns    *)
(* false and changes nothing.                                              *)

Putc(b) ==
    /\ ~Full
    /\ buf' = [buf EXCEPT ![(start + count) % Size] = b]
    /\ SkipRight(1)
    /\ taken' = <<>>
    /\ UNCHANGED start

Peek ==
    /\ ~Empty
    /\ taken' = <<buf[start]>>
    /\ UNCHANGED <<buf, start, count>>

Getc ==
    /\ ~Empty
    /\ taken' = <<buf[start]>>
    /\ SkipFrom(start, 1)
    /\ UNCHANGED buf

(* cb_gets: cb_getc until it fails. *)
Gets ==
    /\ taken' = Content
    /\ SkipFrom(start, count)
    /\ UNCHANGED buf

(* cb_skip: n is not checked by the callers. *)
Skip(n) ==
    /\ SkipFrom(start, n)
    /\ taken' = <<>>
    /\ UNCHANGED buf

Clear ==
    /\ start' = 0
    /\ count' = 0
    /\ taken' = <<>>
    /\ UNCHANGED buf

Shift ==
    /\ buf' = Shifted
    /\ start' = 0
    /\ taken' = <<>>
    /\ UNCHANGED count

(* cb_recv: read() stores s behind the content, at most the free space. *)
Recv(s) ==
    /\ Len(s) \in 1 .. FreeSpace
    /\ buf' = Stored(Shifted, count, s)
    /\ start' = 0
    /\ SkipRight(Len(s))
    /\ taken' = <<>>

(* End of file, an error, or a read of no bytes because the buffer is full: *)
(* -1 is returned, but the buffer has been shifted.                         *)
RecvFails == Shift

(* cb_send: a wrapped content is shifted first; write() takes n bytes from *)
(* the start of the content, or fails.                                     *)
SendBuf == IF ContiguousSpace # count THEN Shifted ELSE buf

SendStart == IF ContiguousSpace # count THEN 0 ELSE start

Send(n) ==
    /\ n \in 0 .. count
    /\ buf' = SendBuf
    /\ SkipFrom(SendStart, n)
    /\ taken' = [k \in 1 .. n |-> SendBuf[SendStart + k - 1]]

SendFails ==
    /\ buf' = SendBuf
    /\ start' = SendStart
    /\ taken' = <<>>
    /\ UNCHANGED count

(* tpb_encapsulate's use of the free space: it writes s at cb_data_end, at *)
(* most cb_free_contiguous_space bytes, and skips right over them.         *)
WriteAtEnd(s) ==
    /\ Len(s) \in 1 .. FreeContiguousSpace
    /\ buf' = Stored(buf, DataEnd, s)
    /\ SkipRight(Len(s))
    /\ taken' = <<>>
    /\ UNCHANGED start

(* fill_message's use of the content: shift it, read n bytes at cb_data,   *)
(* skip them.                                                              *)
ReadAtData(n) ==
    /\ n \in 0 .. count
    /\ buf' = Shifted
    /\ SkipFrom(0, n)
    /\ taken' = [k \in 1 .. n |-> Shifted[k - 1]]

Inputs == UNION {[1 .. n -> Bytes] : n \in 1 .. Size}

RingNext ==
    \/ \E b \in Bytes : Putc(b)
    \/ Peek
    \/ Getc
    \/ Gets
    \/ \E n \in 0 .. Size + 1 : Skip(n)
    \/ Clear
    \/ Shift
    \/ RecvFails
    \/ \E s \in Inputs : Recv(s) \/ WriteAtEnd(s)
    \/ \E n \in 0 .. Size : Send(n) \/ ReadAtData(n)
    \/ SendFails

RingSpec == RingInit /\ [][RingNext]_cyclicVars

-----------------------------------------------------------------------------
(* Properties. *)

(* The piece of memory a caller may read at cb_data and the one it may     *)
(* write at cb_data_end lie inside the array, and the latter holds no byte *)
(* of the content.                                                         *)
PiecesInBounds ==
    /\ start + ContiguousSpace <= Size
    /\ DataEnd + FreeContiguousSpace <= Size
    /\ \A c \in DataEnd .. DataEnd + FreeContiguousSpace - 1 :
          \A k \in 1 .. count : c # (start + k - 1) % Size

(* However often it wrapped and was rotated, the buffer is a bounded queue: *)
(* every byte leaves it once, in order, and nothing is overwritten.         *)
Queue == INSTANCE Fifo WITH
    Capacity <- Size,
    queue <- Content,
    taken <- taken

ImplementsFifo == Queue!Spec
====
