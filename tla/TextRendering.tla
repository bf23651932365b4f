---------------------------- MODULE TextRendering ----------------------------
(***************************************************************************)
(* From the font in flash to text on the display: the font partition is    *)
(* mapped (FlashMap), then texts are wrapped (WordWrap) and the lines that *)
(* a scroll offset leaves in view are drawn, glyph by glyph out of the     *)
(* cache (GlyphCache): render_section and draw_text (layout.rs, font.rs).  *)
(* All of it is one thread of control; y is 0 at the top of the section.   *)
(***************************************************************************)
EXTENDS FlashMap, WordWrap, GlyphCache, Integers

CONSTANTS
    Unit,               \* the fine units in a pixel
    LineUnits,          \* the height of a line, its two pixels of lead included
    section_height,     \* in pixels
    MaxAccesses         \* bound: no text is begun after so many uses

ASSUME SectionAssumption ==
    /\ Unit \in Nat \ {0}
    /\ LineUnits \in Nat \ {0} /\ LineUnits >= Unit
    /\ section_height \in Nat \ {0}
    /\ Glyphs = Chars \union {Space}
    /\ MaxAccesses \in Nat

VARIABLES
    pc,             \* "waiting", "wrapping", "drawing" or "drawn"
    scroll_offset,  \* in fine units
    row,            \* the line that the loop is at
    column,         \* how many characters of it are drawn
    pen_x,          \* in pixels from the left padding
    shown           \* history: the lines that were drawn

drawVars == <<pc, scroll_offset, row, column, pen_x, shown>>
allVars == <<flashVars, wrapVars, cacheVars, drawVars>>

TextInit ==
    /\ FlashInit
    /\ text = <<>> /\ words = <<>> /\ rest = <<>>
    /\ current_line = <<>> /\ current_width = 0 /\ lines = <<>>
    /\ CacheInit
    /\ pc = "waiting"
    /\ scroll_offset = 0 /\ row = 1 /\ column = 0 /\ pen_x = 0 /\ shown = {}

Flash == FlashNext /\ UNCHANGED <<wrapVars, cacheVars, drawVars>>

-----------------------------------------------------------------------------
\* update_text, with the font mapped.
UpdateText ==
    /\ mmu = "mapped"
    /\ pc \in {"waiting", "drawn"}
    /\ access_counter < MaxAccesses
    /\ \E t \in Texts : WrapBegins(t)
    /\ pc' = "wrapping"
    /\ UNCHANGED <<flashVars, cacheVars, scroll_offset, row, column, pen_x, shown>>

Wrap ==
    /\ pc = "wrapping"
    /\ WrapWord
    /\ UNCHANGED <<flashVars, cacheVars, drawVars>>

\* What the lines take beyond the section, in fractions of a pixel.
scroll_target ==
    LET total_height == Len(lines) * LineUnits
        room == section_height * Unit
    IN  IF total_height > room THEN total_height - room ELSE 0

\* The text is drawn at any offset that the scrolling passes.
RenderSection ==
    /\ pc = "wrapping"
    /\ WrapEnds
    /\ pc' = "drawing"
    /\ scroll_offset' \in 0 .. scroll_target'
    /\ row' = 1 /\ column' = 0 /\ pen_x' = 0 /\ shown' = {}
    /\ UNCHANGED <<flashVars, cacheVars>>

\* Drawing cuts the height of a line, and the offset, to whole pixels.
line_h == LineUnits \div Unit

y == (row - 1) * line_h - scroll_offset \div Unit

\* Mutant: a line that begins above the section is skipped.
AboveIfItBeginsThere == y < 0

AboveSection == y + line_h <= 0

BelowSection == y >= section_height

SkipLine ==
    /\ pc = "drawing" /\ row <= Len(lines)
    /\ AboveSection
    /\ row' = row + 1
    /\ UNCHANGED <<flashVars, wrapVars, cacheVars, pc, scroll_offset, column, pen_x, shown>>

InLine ==
    /\ pc = "drawing" /\ row <= Len(lines)
    /\ ~AboveSection /\ ~BelowSection

EnsureGlyph ==
    /\ InLine /\ column < Len(lines[row])
    /\ EnsureCached(lines[row][column + 1])
    /\ UNCHANGED <<flashVars, wrapVars, drawVars>>

\* A missing glyph advances like a space; every advance is cut to whole pixels.
GlyphAdvance(g) == (IF g \in Missing THEN Advance[Space] ELSE Advance[g]) \div Unit

DrawGlyph ==
    /\ InLine /\ column < Len(lines[row])
    /\ GetCached(lines[row][column + 1])
    /\ pen_x' = pen_x + GlyphAdvance(lines[row][column + 1])
    /\ column' = column + 1
    /\ UNCHANGED <<flashVars, wrapVars, pc, scroll_offset, row, shown>>

LineEnds ==
    /\ InLine /\ column = Len(lines[row])
    /\ shown' = shown \union {row}
    /\ row' = row + 1 /\ column' = 0 /\ pen_x' = 0
    /\ UNCHANGED <<flashVars, wrapVars, cacheVars, pc, scroll_offset>>

SectionEnds ==
    /\ pc = "drawing"
    /\ row > Len(lines) \/ (~AboveSection /\ BelowSection)
    /\ pc' = "drawn"
    /\ UNCHANGED <<flashVars, wrapVars, cacheVars, scroll_offset, row, column, pen_x, shown>>

TextNext ==
    \/ Flash
    \/ UpdateText \/ Wrap \/ RenderSection
    \/ SkipLine \/ EnsureGlyph \/ DrawGlyph \/ LineEnds \/ SectionEnds

TextSpec == TextInit /\ [][TextNext]_allVars

-----------------------------------------------------------------------------
\* The type invariant of the composition.
TextTypeOK ==
    /\ FlashTypeOK /\ CacheTypeOK
    /\ mmu = "mapped" \/ lines = <<>>
    /\ pc # "waiting" => WrapTypeOK
    /\ pc \in {"waiting", "wrapping", "drawing", "drawn"}
    /\ row \in Nat \ {0}
    /\ scroll_offset \in Nat /\ column \in Nat /\ pen_x \in Nat
    /\ pc = "drawing" => row <= Len(lines) + 1 /\ shown \subseteq 1 .. row - 1
    /\ pc = "drawing" /\ column > 0 => column <= Len(lines[row])

\* How many of the first k characters of s the font lacks.
Lacking(s, k) == Cardinality({n \in 1 .. k : s[n] \in Missing})

\* What word_wrap measures and what draw_text draws differ in two things only:
\* a character that the font lacks is measured as nothing and drawn as a
\* space, and each advance that is drawn loses less than a pixel.  So a line
\* that fits goes beyond its width by these spaces at most.
DrawnAsMeasured ==
    InLine =>
        LET spaces == Lacking(lines[row], column) * Advance[Space]
            width == TextWidth(SubSeq(lines[row], 1, column)) + spaces
        IN  /\ pen_x * Unit \in width - column * (Unit - 1) .. width
            /\ TextWidth(lines[row]) <= MaxWidth => pen_x * Unit <= MaxWidth + spaces

\* The whole pixels that the fractions cut off the lines add up to.
Cut == (Len(lines) * (LineUnits % Unit)) \div Unit

\* At every scroll offset the lines drawn are those that reach into the
\* section, whole or in part.  At the end of the scroll the last line, whose
\* place is measured in fractions of a pixel and drawn in whole ones, ends
\* above the end of the section by what was cut: it is drawn if and only if
\* that is less than the section.
VisibleIsDrawn ==
    pc = "drawn" =>
        /\ shown = {n \in 1 .. Len(lines) :
                        \E pixel \in 0 .. section_height - 1 :
                            (pixel + scroll_offset \div Unit) \div line_h = n - 1}
        /\ scroll_offset = scroll_target /\ scroll_target > 0 =>
              /\ Len(lines) * line_h - scroll_offset \div Unit = section_height - Cut
              /\ Len(lines) \in shown <=> Cut < section_height

\* layout.rs 192-236, font.rs 313-352: what is drawn is what was measured, but
\* for what is cut to pixels, and all of what is in view.
TextIsDrawn == DrawnAsMeasured /\ VisibleIsDrawn

\* The cache is a least-recently-used list, also across texts.
Lru == INSTANCE LruCache WITH recency <- Recency, Limit <- max_cache_size

ImplementsLru == Lru!LruSpec
=============================================================================
