------------------------------- MODULE WordWrap ------------------------------
(***************************************************************************)
(* word_wrap (rendering/layout.rs): the words of a text are set into lines *)
(* of MaxWidth, with the widths that FontRenderer measures (font.rs).      *)
(* Widths are in fractions of a pixel.  One step places a word, or a       *)
(* character of a word that is broken.                                     *)
(***************************************************************************)
EXTENDS Naturals, Sequences, SequencesExt

CONSTANTS
    Chars, Space,
    Advance,        \* hor_advance by character, in the font's fine units
    Missing,        \* the characters that the font has no glyph for
    MaxWidth,
    Texts           \* sequences of words

ASSUME FontAssumption ==
    /\ Space \notin Chars
    /\ Missing \subseteq Chars
    /\ Advance \in [(Chars \ Missing) \union {Space} -> Nat]
    /\ MaxWidth \in Nat
    /\ Texts \subseteq Seq(Seq(Chars) \ {<<>>})

VARIABLES
    text,           \* the argument
    words,          \* the words not yet placed
    rest,           \* what is left of a word that is being broken
    current_line, current_width,
    lines

wrapVars == <<text, words, rest, current_line, current_width, lines>>

-----------------------------------------------------------------------------
CharAdvance(c) == IF c \in Missing THEN 0 ELSE Advance[c]

TextWidth(s) ==
    LET width[n \in 0 .. Len(s)] ==
            IF n = 0 THEN 0 ELSE width[n - 1] + CharAdvance(s[n])
    IN  width[Len(s)]

WrapBegins(t) ==
    /\ text' = t /\ words' = t
    /\ rest' = <<>> /\ current_line' = <<>> /\ current_width' = 0
    /\ lines' = <<>>

NextWord == rest = <<>> /\ words # <<>> /\ words' = Tail(words) /\ UNCHANGED text

FirstWord ==
    /\ NextWord
    /\ current_line = <<>> /\ TextWidth(Head(words)) <= MaxWidth
    /\ current_line' = Head(words)
    /\ current_width' = TextWidth(Head(words))
    /\ UNCHANGED <<rest, lines>>

\* The first word is wider than the line: it is broken.
FirstWordTooWide ==
    /\ NextWord
    /\ current_line = <<>> /\ TextWidth(Head(words)) > MaxWidth
    /\ rest' = Head(words)
    /\ UNCHANGED <<current_line, current_width, lines>>

\* Mutant: the width is not reset with the line.
BreakCharKeepsWidth ==
    /\ rest # <<>>
    /\ LET c == Head(rest)
           full == current_width + CharAdvance(c) > MaxWidth /\ current_line # <<>>
       IN  /\ lines' = IF full THEN Append(lines, current_line) ELSE lines
           /\ current_line' = IF full THEN <<c>> ELSE Append(current_line, c)
           /\ current_width' = current_width + CharAdvance(c)
    /\ rest' = Tail(rest)
    /\ UNCHANGED <<text, words>>

BreakChar ==
    /\ rest # <<>>
    /\ LET c == Head(rest)
           full == current_width + CharAdvance(c) > MaxWidth /\ current_line # <<>>
       IN  /\ lines' = IF full THEN Append(lines, current_line) ELSE lines
           /\ current_line' = IF full THEN <<c>> ELSE Append(current_line, c)
           /\ current_width' = (IF full THEN 0 ELSE current_width) + CharAdvance(c)
    /\ rest' = Tail(rest)
    /\ UNCHANGED <<text, words>>

\* Mutant: the space is not counted.
WidthWithoutSpace(word) == current_width + TextWidth(word)

WidthWith(word) == current_width + CharAdvance(Space) + TextWidth(word)

WordFits ==
    /\ NextWord
    /\ current_line # <<>> /\ WidthWith(Head(words)) <= MaxWidth
    /\ current_line' = current_line \o <<Space>> \o Head(words)
    /\ current_width' = WidthWith(Head(words))
    /\ UNCHANGED <<rest, lines>>

\* It begins the next line, and is not broken however wide it is.
WordStartsLine ==
    /\ NextWord
    /\ current_line # <<>> /\ WidthWith(Head(words)) > MaxWidth
    /\ lines' = Append(lines, current_line)
    /\ current_line' = Head(words)
    /\ current_width' = TextWidth(Head(words))
    /\ UNCHANGED rest

\* The last line is added; an empty text gives one empty line.
WrapEnds ==
    /\ rest = <<>> /\ words = <<>>
    /\ lines' = IF current_line # <<>> \/ lines = <<>>
                THEN Append(lines, current_line) ELSE lines
    /\ current_line' = <<>>
    /\ current_width' = 0
    /\ UNCHANGED <<text, words, rest>>

WrapWord == FirstWord \/ FirstWordTooWide \/ BreakChar \/ WordFits \/ WordStartsLine

-----------------------------------------------------------------------------
\* The type invariant of the lines and the words left.
WrapTypeOK ==
    /\ text \in Texts
    /\ IsSuffix(words, text)
    /\ rest \in Seq(Chars)
    /\ current_line \in Seq(Chars \union {Space})
    /\ lines \in Seq(Seq(Chars \union {Space}))
    /\ current_width = TextWidth(current_line)

Letters(s) ==
    LET kept[n \in 0 .. Len(s)] ==
            IF n = 0 THEN <<>>
            ELSE IF s[n] = Space THEN kept[n - 1] ELSE Append(kept[n - 1], s[n])
    IN  kept[Len(s)]

\* Nothing of a text is lost, doubled or moved by wrapping and breaking it.
TextIsKept ==
    Letters(FlattenSeq(lines) \o current_line) \o rest \o FlattenSeq(words)
        = FlattenSeq(text)

LaterWords == {text[k] : k \in 2 .. Len(text)}

\* layout.rs 61: lines fit, but for a character that is wider than a line, and
\* for a later word that is (105); a line is empty only in an empty text.
LinesFit ==
    \A n \in DOMAIN lines :
        /\ TextWidth(lines[n]) <= MaxWidth \/ Len(lines[n]) = 1 \/ lines[n] \in LaterWords
        /\ lines[n] = <<>> => text = <<>>

UpToSpace(s) ==
    SelectInSeq(s, LAMBDA c : c = Space)

FirstOf(s) == IF UpToSpace(s) = 0 THEN s ELSE SubSeq(s, 1, UpToSpace(s) - 1)

\* No line is begun while the one before has room for its first word.
LinesAreFull ==
    \A n \in 1 .. Len(lines) - 1 :
        TextWidth(lines[n]) + CharAdvance(Space) + TextWidth(FirstOf(lines[n + 1])) > MaxWidth

\* layout.rs 66-121: the lines hold the text and nothing else, none but those
\* that LinesFit names is wider than it may be, and none is shorter than it
\* needs to be.
WellWrapped == TextIsKept /\ LinesFit /\ LinesAreFull
=============================================================================
