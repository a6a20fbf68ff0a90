---- MODULE MCTunnelSender ----
(* The lab34 sender on a small instance; descriptors are interchangeable. *)
EXTENDS TunnelSender, TLC

FdSymmetry == Permutations(Fds)

(* Bound: while a reserved byte waits, only the client that sent it has    *)
(* bytes waiting.                                                          *)
Waiting == {<<id, k>> \in Ids \X (1 .. BufferSize) : k <= Len(buffers[id])}

ReservedAlone ==
    (\E w \in Waiting : buffers[w[1]][w[2]] \in Reserved)
        => \A v, w \in Waiting : v[1] = w[1]
====
