------------------------------- MODULE LruCache ------------------------------
(***************************************************************************)
(* What the glyph cache promises: a list of at most Limit glyphs, the one  *)
(* used last in front; a use brings a glyph to the front, and the last one *)
(* drops out when there is no room.                                        *)
(***************************************************************************)
EXTENDS Naturals, SequencesExt

CONSTANTS Glyphs, Limit

VARIABLES
    recency,
    wanted      \* the glyph in use, {} for none

LruInit == recency = <<>> /\ wanted = {}

UseAgain(g) ==
    /\ wanted = {} /\ wanted' = {g}
    /\ \E n \in DOMAIN recency : recency[n] = g /\ recency' = <<g>> \o RemoveAt(recency, n)

UseNew(g) ==
    /\ wanted = {} /\ wanted' = {g}
    /\ g \notin ToSet(recency)
    /\ recency' = <<g>> \o (IF Len(recency) < Limit THEN recency ELSE Front(recency))

Use(g) == UseAgain(g) \/ UseNew(g)

UseEnds == wanted # {} /\ wanted' = {} /\ UNCHANGED recency

LruSpec == LruInit /\ [][(\E g \in Glyphs : Use(g)) \/ UseEnds]_<<recency, wanted>>
=============================================================================
