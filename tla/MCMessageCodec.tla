---- MODULE MCMessageCodec ----
(***************************************************************************)
(* The codec's bytes for model checking: one that has to be escaped, and   *)
(* one that is below zero as a char and equal to the decoder's             *)
(* END_OF_BUFFER.                                                          *)
(***************************************************************************)
EXTENDS MessageCodec

MCChars == {-1, 126}
====
