----------------------------- MODULE MCCaptions ------------------------------
(***************************************************************************)
(* Captions for TLC: two transcripts, so that one can replace another and  *)
(* come back, and two languages, so that a touch changes the language and  *)
(* a second touch changes it back to the one in the cache.                 *)
(***************************************************************************)
EXTENDS Captions

TwoTexts == {"one", "two"}
=============================================================================
