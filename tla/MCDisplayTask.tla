---------------------------- MODULE MCDisplayTask ----------------------------
(* DisplayTask for TLC.  The empty text fits its section, "mid" needs one    *)
(* frame of scrolling and "long" two: a section animates across a wait, and  *)
(* its text may be replaced by a shorter or a longer one while it scrolls.   *)
(* Bounds: at most MaxUnseen of the five fields of the state differ from     *)
(* what the task has taken in, at most MaxDoubtful areas are in doubt, and a *)
(* translation is replaced by another, not by the empty text.                *)
EXTENDS DisplayTask, FiniteSets

MCTranscripts == {None, "short"}
MCTranslations == {None, "mid", "long"}
MCOverflow(text) == CASE text = "long" -> 2 [] text = "mid" -> 1 [] OTHER -> 0
MCPrimaryTexts == {None, "Deepgram disconnected"}
MCIndicatorTexts == {None, "TR!"}

MaxUnseen == 2
Unseen == {f \in DOMAIN state : state[f] # last[f]}

MaxDoubtful == 1

Bounds ==
    /\ Cardinality(Unseen') <= MaxUnseen
    /\ Cardinality(doubtful') <= MaxDoubtful
    /\ state.translation # None => state'.translation # None

MCNext == Next /\ Bounds

MCSpec == Init /\ [][MCNext]_vars /\ WF_vars(Task) /\ WF_vars(OverlayTimePasses)
=============================================================================
