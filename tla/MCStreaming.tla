----------------------------- MODULE MCStreaming -----------------------------
(* Streaming for TLC: a ring of three frames, filled by up to two frames at a  *)
(* time and read by one or two, so that writes and reads meet its end.       *)
EXTENDS Streaming
=============================================================================
