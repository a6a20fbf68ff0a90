---- MODULE MCAioServer ----
(* The lab32 server on a small instance; descriptors are interchangeable. *)
EXTENDS AioServer, TLC

FdSymmetry == Permutations(Fds)
====
