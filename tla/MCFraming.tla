----------------------------- MODULE MCFraming -----------------------------
(***************************************************************************)
(* Instances of Framing for TLC: a header of two bytes, payloads that are  *)
(* empty, shorter and longer than the socket buffers.                      *)
(***************************************************************************)
EXTENDS Framing

PayloadLengths == {0, 1, 4}
=============================================================================
