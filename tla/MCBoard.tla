------------------------------- MODULE MCBoard -------------------------------
(* Board for TLC: two attempts at WiFi and at the touch controller (the code  *)
(* has five of each), the two coordinates at the middle of the panel and one  *)
(* beyond it, and three languages, the fewest for which the two directions    *)
(* differ.                                                                    *)
EXTENDS Board

Edges == {239, 240, 480}
=============================================================================
