---------------------------- MODULE MCButeBuffer ----------------------------
(* The gap buffer on a small instance: two characters, a gap of two bytes  *)
(* (so that an insertion can outgrow it), insertions of up to three.       *)
EXTENDS ButeBuffer

CONSTANTS a, b

MCBufs == {<<>>, <<a>>, <<b, a>>, <<a, b, b>>}
MCFiles == {<<>>, <<a>>, <<a, b>>, <<b, a, b>>}
=============================================================================
