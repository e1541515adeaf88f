----------------------------- MODULE MCFraming -----------------------------
(* TLC instance of Framing: binary bytes, frames of one or two payload      *)
(* bytes, messages of five bytes, so that a frame fits into a message       *)
(* exactly, spans two, or shares one.                                       *)
EXTENDS Framing

McPayloads == {<<1>>, <<0, 1>>, <<1, 1>>}
McIllegal == {<<>>, <<1, 0, 1>>}
=============================================================================
