---- MODULE EagerFold ----
(***************************************************************************)
(* A left fold that TLC evaluates in linear time: the one-element set has  *)
(* it compute every intermediate value once, however often Op uses it.     *)
(***************************************************************************)
EXTENDS Integers, Sequences

Folded(Op(_, _), base, s) ==
    LET after[n \in 0 .. Len(s)] ==
          IF n = 0 THEN base
          ELSE CHOOSE next \in {Op(before, s[n]) : before \in {after[n - 1]}} : TRUE
    IN  after[Len(s)]
====
