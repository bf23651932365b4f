---------------------------- MODULE MCConnections ----------------------------
(***************************************************************************)
(* Connections for TLC: the two clients of the program, of which only the  *)
(* Deepgram task keeps a closed connection across an await, with and       *)
(* without a third client so that the pool can run out.                    *)
(***************************************************************************)
EXTENDS Connections

TwoClients == {"deepgram", "translate"}
ThreeClients == {"deepgram", "translate", "third"}
DeepgramOnly == {"deepgram"}
NoTask == {}
=============================================================================
