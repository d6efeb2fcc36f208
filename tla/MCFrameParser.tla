---------------------------- MODULE MCFrameParser ----------------------------
(* A small instance of FrameParser for TLC: payloads that look like headers, *)
(* a status block, a longer text, and counts that overrun or never fit.      *)
EXTENDS FrameParser

Chars == {0, 1, 4}
BlockAndText == {<<1, 0, 0, 4>>, <<0, 0, 0, 0, 0>>}
HeaderLike == {<<>>, <<2, 3>>, <<2, 3, 3, 0>>}
=============================================================================
