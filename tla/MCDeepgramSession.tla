-------------------------- MODULE MCDeepgramSession --------------------------
(* DeepgramSession for TLC: three frames per session are enough for a frame  *)
(* cut by the upgrade, one cut by a timeout, and one after them.             *)
EXTENDS DeepgramSession
=============================================================================
