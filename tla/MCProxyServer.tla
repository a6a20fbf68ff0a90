---- MODULE MCProxyServer ----
(* The lab33 proxy on a small instance; descriptors are interchangeable. *)
EXTENDS ProxyServer, TLC

FdSymmetry == Permutations(Fds)

(* Bound: no more than two send buffers are full at a time. *)
FewSlow == Cardinality(sendFull) <= 2
====
