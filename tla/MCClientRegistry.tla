---- MODULE MCClientRegistry ----
(* The client registry on a small instance: descriptors are interchangeable. *)
EXTENDS ClientRegistry, TLC

FdSymmetry == Permutations(Fds)
====
