---- MODULE Buffers ----
(***************************************************************************)
(* The ring buffer of lab34 beside the linear buffer of lab33, fed and     *)
(* emptied together: lab34 replaced the one by the other in its sender, so *)
(* whatever both offer must have the same effect on what they hold and on  *)
(* what they hand out.                                                     *)
(***************************************************************************)
EXTENDS CyclicBuffer

VARIABLES lbuf, lcount, ltaken

Linear == INSTANCE IOBuffer WITH buf <- lbuf, count <- lcount, taken <- ltaken

lvars == <<lbuf, lcount, ltaken>>

BothInit == RingInit /\ Linear!Init

(* One call of each, with the same argument. *)
SamePut ==
    \/ \E b \in Bytes : Putc(b) /\ Linear!Putc(b)
    \/ \E s \in Inputs :
          \/ Recv(s) /\ Linear!Recv(s)
          \/ WriteAtEnd(s) /\ Linear!Puts(s)
          \* What does not fit is left out by iob_puts.
          \/ Len(s) > FreeSpace /\ Linear!Puts(s) /\ Recv(SubSeq(s, 1, FreeSpace))

SameTake ==
    \/ Getc /\ Linear!Getc
    \/ Gets /\ Linear!Send(count)
    \/ \E n \in 0 .. Size : (Send(n) \/ ReadAtData(n)) /\ Linear!Send(n)
    \/ \E n \in 0 .. Size + 1 : Skip(n) /\ Linear!Shift(n)
    \/ Clear /\ Linear!Clear

(* What only the ring has; iob_shift(0) hands out nothing either. *)
RingOnly ==
    \/ Peek /\ UNCHANGED <<lbuf, lcount>> /\ ltaken' = taken'
    \/ (Shift \/ RecvFails \/ SendFails) /\ Linear!Shift(0)

BothNext == SamePut \/ SameTake \/ RingOnly

BothSpec == BothInit /\ [][BothNext]_<<cyclicVars, lvars>>

-----------------------------------------------------------------------------
(* Properties. *)

(* However the ring was rotated and the linear buffer moved down, the two  *)
(* hold the same bytes and handed out the same bytes.  As the ring is a    *)
(* bounded FIFO queue (ImplementsFifo), the linear buffer is one, too: a   *)
(* partial write loses and repeats no byte, and none is overwritten before *)
(* it was sent.                                                            *)
SameContent == Linear!TypeOK /\ Content = Linear!Content /\ taken = ltaken
====
