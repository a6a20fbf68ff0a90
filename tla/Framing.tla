---- MODULE Framing ----
(***************************************************************************)
(* The two reserved bytes of lab34's framings (src/lab34/protocol.h; the   *)
(* message code repeats them).                                             *)
(***************************************************************************)
EXTENDS Naturals

MESSAGE_EDGE == 126
MESSAGE_ESCAPE == 125
====
