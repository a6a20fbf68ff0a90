---- MODULE MessageQueue ----
(***************************************************************************)
(* What lab34's message codec promises: a bounded queue of bytes, each     *)
(* labelled with its client's order.  What encapsulate says it consumed is *)
(* appended, under the order it was given, and nothing else ever is; what  *)
(* decapsulate hands out are the oldest bytes, each once, under the order  *)
(* they were put with.  One thing the code does is not what a queue does:  *)
(* a byte below zero ends decapsulate's loop and is lost.                  *)
(***************************************************************************)
EXTENDS Integers, Sequences

CONSTANTS
    Orders,
    Chars,
    Capacity

VARIABLES
    queue,          \* pairs <<order, byte>>, oldest first
    call            \* the last call: its name, and the labelled bytes it
                    \* consumed or handed out

messageQueueVars == <<queue, call>>

Calls(name) == [name |-> name, bytes |-> <<>>]

Init == queue = <<>> /\ call = Calls("none")

OfOneOrder(bytes) == \A j, k \in DOMAIN bytes : bytes[j][1] = bytes[k][1]

Put ==
    /\ call'.name = "encapsulate"
    /\ call'.bytes \in Seq(Orders \X Chars)
    /\ OfOneOrder(call'.bytes)
    /\ queue' = queue \o call'.bytes
    /\ Len(queue') <= Capacity

(* The n oldest bytes leave the queue. *)
Leave(n) == queue' = SubSeq(queue, n + 1, Len(queue))

(* The byte behind them is lost as well when it is the one the loop ended on. *)
Take ==
    /\ call'.name = "decapsulate"
    /\ \E n \in 0 .. Len(queue) :
          /\ call'.bytes = SubSeq(queue, 1, n)
          /\ \A k \in 1 .. n : queue[k][2] >= 0
          /\ \/ Leave(n)
             \/ n < Len(queue) /\ queue[n + 1][2] < 0 /\ Leave(n + 1)

Drop ==
    /\ call' = Calls("skip")
    /\ \E n \in 0 .. Len(queue) : Leave(n)

Move == call' = Calls("none") /\ UNCHANGED queue

Next == Put \/ Take \/ Drop \/ Move

Spec == Init /\ [][Next]_messageQueueVars
====
