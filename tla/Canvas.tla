------------------------------- MODULE Canvas --------------------------------
(***************************************************************************)
(* What a framebuffer promises, without rectangles: drawing changes the    *)
(* picture and not the panel, and a flush brings the panel up to the       *)
(* picture, except at pixels that a failed transfer left behind.           *)
(***************************************************************************)
CONSTANTS Pixels, Colors

VARIABLES
    picture,    \* what has been drawn
    panel,      \* what the display shows
    lost        \* pixels that a failed transfer has left behind

vars == <<picture, panel, lost>>

Pictures == [Pixels -> Colors]

Init ==
    /\ picture \in Pictures
    /\ panel = picture
    /\ lost = {}

Draw ==
    /\ picture' \in Pictures
    /\ UNCHANGED <<panel, lost>>

\* The panel shows the picture, except that a pixel which is lost from here
\* on may show what it showed before.
Transfer ==
    /\ panel' \in Pictures
    /\ lost' \subseteq Pixels
    /\ \A p \in Pixels : panel'[p] # picture[p] => p \in lost' /\ panel'[p] = panel[p]
    /\ UNCHANGED picture

Next == Draw \/ Transfer

Spec == Init /\ [][Next]_vars
=============================================================================
