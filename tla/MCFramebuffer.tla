---------------------------- MODULE MCFramebuffer ----------------------------
(* Framebuffer for TLC: a screen of 3 by 2 pixels; areas on it, across its   *)
(* edges and off it; a clip over its right part.                             *)
EXTENDS Framebuffer

Rect(x, y, w, h) == [x |-> x, y |-> y, w |-> w, h |-> h]

MCAreas == {Rect(-1, 0, 2, 1), Rect(1, 1, 3, 2)}
MCPoints == {<<0, 1>>, <<2, 0>>, <<3, 1>>}
MCImages == {[p \in Pixels |-> (p[1] + p[2]) % 2]}
MCClips == {Rect(1, 0, 2, 2)}
=============================================================================
