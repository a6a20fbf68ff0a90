---- MODULE MCUppercaseServer ----
(* The lab33 server on a small instance; descriptors are interchangeable. *)
EXTENDS UppercaseServer, TLC

FdSymmetry == Permutations(Fds)
====
