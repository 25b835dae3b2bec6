---------------------------- MODULE MCFrameStream -----------------------------
(* FrameStream and FrameHandler on small instances: fields of two bytes of *)
(* two values each, or of one byte of four values, and payloads that look  *)
(* like headers themselves.                                                *)
EXTENDS FrameHandler

MCPayloads == {<< >>, <<1>>, <<0, 1, 1>>}
===============================================================================
