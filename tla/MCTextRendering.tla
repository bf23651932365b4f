--------------------------- MODULE MCTextRendering ---------------------------
(***************************************************************************)
(* TextRendering for TLC.  The MMU table has six entries: runs that are    *)
(* too short before the one that is long enough, one that would need the   *)
(* last entry, one that ends just before it, and none.  The regions take   *)
(* two pages, one of them only for its offset.  A line holds two pixels    *)
(* and a half: "m" takes a pixel and a half, a space one, "w" more than    *)
(* the line, and the font has no glyph for "q", so that a line with two of *)
(* them fits and is drawn past its width.  A section holds a line and a    *)
(* part; the halves of a pixel cut off six lines, a long word and two      *)
(* more, add up to it, and those cut off five do not.                      *)
(***************************************************************************)
EXTENDS TextRendering

Table(free) == [s \in Slots |-> IF s \in free THEN Free ELSE Taken]

MCTables == {Table({1, 3, 4}), Table({0, 1, 4}), Table({3, 5}), Table({0, 2, 4, 5})}
MCRegions == {[offset |-> 8, len |-> 6], [offset |-> 3, len |-> 4]}

MCAdvance == [c \in {"i", "m", "w", Space} |->
                CASE c = "i" -> 1 [] c = "m" -> 3 [] c = "w" -> 6 [] OTHER -> 2]

MCWords == {<<"i">>, <<"i", "m">>, <<"w", "i">>, <<"q", "q", "i">>}

LongWord == <<"w", "w", "w", "w">>

MCTexts == UNION {[1 .. n -> MCWords] : n \in 0 .. 3}
               \union {<<LongWord, <<"w", "i">>>>, <<LongWord, <<"w", "i">>, <<"w", "i">>>>}
=============================================================================
