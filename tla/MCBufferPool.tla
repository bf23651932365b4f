---------------------------- MODULE MCBufferPool -----------------------------
(***************************************************************************)
(* BufferPool for TLC: three tasks compete for two pairs, so exchanges     *)
(* fail, the pool fills, claims are refused, and a slot is claimed again   *)
(* while the task that held it before looks for another, or still has its  *)
(* closed socket on it.                                                    *)
(***************************************************************************)
EXTENDS BufferPool

MCTasks == {"t1", "t2", "t3"}
MCDelayedDrop == {"t1"}
MCSlots == 2
=============================================================================
