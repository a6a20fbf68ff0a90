---- MODULE BufferTypes ----
(***************************************************************************)
(* What the two byte buffers of lab33 and lab34 have in common.            *)
(***************************************************************************)
EXTENDS Integers, Sequences

CONSTANTS
    Size,           \* the buffer's size, 1024 or MESSAGE_SIZE in the source
    Bytes           \* char

ASSUME SizeAssumption == Size \in Nat \ {0}

Cells == 0 .. Size - 1

MinOf(x, y) == IF x < y THEN x ELSE y
====
