---- MODULE Fifo ----
(***************************************************************************)
(* What a byte buffer of the lab33 and lab34 programs promises: a bounded  *)
(* queue.  Bytes leave it in the order they came in, each once, none is    *)
(* invented and none is overwritten; `taken` is what the last operation    *)
(* handed out.                                                             *)
(***************************************************************************)
EXTENDS Integers, Sequences

CONSTANTS
    Bytes,
    Capacity

VARIABLES
    queue,
    taken

fifoVars == <<queue, taken>>

Init == queue = <<>> /\ taken = <<>>

(* Bytes are appended as far as they fit: nothing is ever overwritten. *)
Put ==
    /\ queue' \in Seq(Bytes)
    /\ Len(queue') \in Len(queue) .. Capacity
    /\ SubSeq(queue', 1, Len(queue)) = queue
    /\ taken' = <<>>

(* The n oldest bytes leave the queue, to the caller or to nobody. *)
Leave(n) == queue' = SubSeq(queue, n + 1, Len(queue))

Take(n) == Leave(n) /\ taken' = SubSeq(queue, 1, n)

Drop(n) == Leave(n) /\ taken' = <<>>

Peek ==
    /\ queue # <<>>
    /\ taken' = <<Head(queue)>>
    /\ UNCHANGED queue

Next ==
    \/ Put
    \/ \E n \in 0 .. Len(queue) : Take(n) \/ Drop(n)
    \/ Peek

Spec == Init /\ [][Next]_fifoVars
====
