----------------------------- MODULE DisplayTask -----------------------------
(***************************************************************************)
(* display_task (rendering/display_task.rs) with the scroll state of its   *)
(* two sections (layout.rs) and the statuses it draws (status.rs): which   *)
(* state it has seen, what it has drawn over what, and what of it the      *)
(* panel shows.                                                            *)
(*                                                                         *)
(* The screen has three layers that cover one another: the translation     *)
(* area, which holds the translation or a primary status; the translate    *)
(* indicator in its corner; and the language overlay in its middle.        *)
(* Drawing the whole area wipes both.  The transcript area is apart.       *)
(*                                                                         *)
(* A scroll offset counts animation frames: Overflow(text) of them bring   *)
(* the end of a text into view.  A flush sends what was drawn since the    *)
(* last one, and may fail: the error is logged, what was to be sent counts *)
(* as clean, and how much of it is on the panel nobody knows.  So the      *)
(* panel shows the framebuffer, but for the layers that are dirty and for  *)
(* the areas that a failed flush has left in doubt.  Which rectangles are  *)
(* sent, and that they cover what was drawn, is the subject of             *)
(* Framebuffer.                                                            *)
(***************************************************************************)
EXTENDS Naturals

CONSTANTS
    Transcripts, Translations,      \* texts, the empty one included
    Overflow(_),                    \* frames of scrolling a text needs
    PrimaryTexts, IndicatorTexts,   \* the texts of status.rs, and the empty one
    NumLanguages

None == ""              \* the empty text, the empty status

Texts == Transcripts \union Translations
Languages == 1 .. NumLanguages

ASSUME DisplayAssumption ==
    /\ None \in Transcripts /\ None \in Translations
    /\ None \in PrimaryTexts /\ PrimaryTexts # {None}
    /\ None \in IndicatorTexts
    /\ \A text \in Texts : Overflow(text) \in Nat
    /\ Overflow(None) = 0
    /\ NumLanguages \in Nat \ {0}

VARIABLES
    state,          \* AppState, the statuses as the texts they are shown by
    display_signal,
    pc,             \* the await the task is at
    last,           \* the last_... variables: what the task has taken in
    overlay,        \* lang_overlay_until: "none", "showing", "due" (passed)
    translation_sec, transcript_sec,
    fb,             \* the framebuffer: its layers, and which were drawn on
    doubtful        \* auxiliary: the areas that a failed flush has left in doubt

vars == <<state, display_signal, pc, last, overlay, translation_sec, transcript_sec,
          fb, doubtful>>

-----------------------------------------------------------------------------
(* Section *)

NewSection == [text |-> None, offset |-> 0, target |-> 0, needs_redraw |-> FALSE]

\* Mutant: a shorter text keeps the scroll offset of a longer one.
UpdateTextUnclamped(sec, text) ==
    [text |-> text, target |-> Overflow(text), offset |-> sec.offset, needs_redraw |-> TRUE]

UpdateText(sec, text) ==
    [text |-> text,
     target |-> Overflow(text),
     offset |-> IF sec.offset > Overflow(text) THEN Overflow(text) ELSE sec.offset,
     needs_redraw |-> TRUE]

IsAnimating(sec) == sec.target > sec.offset

Redraw(sec) == [sec EXCEPT !.needs_redraw = TRUE]
Drawn(sec) == [sec EXCEPT !.needs_redraw = FALSE]

\* Mutant: the frame's scroll distance rounds to nothing.
AdvanceByNothing(sec) == IF IsAnimating(sec) THEN Redraw(sec) ELSE sec

Advance(sec) ==
    IF IsAnimating(sec)
    THEN [sec EXCEPT !.offset = @ + 1, !.needs_redraw = TRUE]
    ELSE sec

-----------------------------------------------------------------------------
(* Drawing: each takes a framebuffer and gives the one after it, with the  *)
(* layers that it touches marked dirty.                                    *)

Layers == {"area", "indicator", "overlay", "transcript"}

Contents(kind, text, offset) == [kind |-> kind, text |-> text, offset |-> offset]

Mark(b, layers) == [b EXCEPT !.dirty = @ \union layers]

\* Mutant: the area is drawn over without being cleared.
DrawAreaUncleared(b, contents) ==
    Mark([b EXCEPT !.area = contents, !.indicator = None], {"area", "indicator"})

\* fill_solid over the translation area: indicator and overlay are gone.
DrawArea(b, contents) ==
    Mark([b EXCEPT !.area = contents, !.indicator = None, !.overlay = FALSE],
         {"area", "indicator", "overlay"})

DrawPrimaryStatus(b, status) == DrawArea(b, Contents("status", status, 0))

DrawTranslateStatus(b, status) == Mark([b EXCEPT !.indicator = status], {"indicator"})

RenderLangOverlay(b) == Mark([b EXCEPT !.overlay = TRUE], {"overlay"})

RenderTranslation(b, sec) == DrawArea(b, Contents("translation", sec.text, sec.offset))

RenderTranscript(b, sec) ==
    Mark([b EXCEPT !.transcript = Contents("transcript", sec.text, sec.offset)], {"transcript"})

Blank ==
    [area |-> Contents("translation", None, 0), indicator |-> None, overlay |-> FALSE,
     transcript |-> Contents("transcript", None, 0), dirty |-> {}]

Clean(b) == [b EXCEPT !.dirty = {}]

\* The areas of the screen that the layers lie in.
AreasOf(layers) == {IF l = "transcript" THEN "transcript" ELSE "area" : l \in layers}

-----------------------------------------------------------------------------
\* The loop is entered after the first clear and the overlay of the default
\* language, both flushed.
Init ==
    /\ \E status \in PrimaryTexts \ {None} :
          state = [transcript |-> None, translation |-> None, primary |-> status,
                   indicator |-> None, lang |-> 1]
    /\ display_signal = TRUE
    /\ pc = "waiting"
    /\ last = [state EXCEPT !.primary = None]
    /\ overlay = "showing"
    /\ translation_sec = NewSection /\ transcript_sec = NewSection
    /\ fb = Clean(RenderLangOverlay(Blank))
    /\ doubtful = {}

\* Other tasks update the state and signal the change.
Update(field, values) ==
    /\ \E v \in values \ {state[field]} : state' = [state EXCEPT ![field] = v]
    /\ display_signal' = TRUE
    /\ UNCHANGED <<pc, last, overlay, translation_sec, transcript_sec, fb, doubtful>>

NewTranscript == Update("transcript", Transcripts)
NewTranslation == Update("translation", Translations)
PrimaryStatusChanges == Update("primary", PrimaryTexts)
TranslateStatusChanges == Update("indicator", IndicatorTexts)
LanguageChanges == Update("lang", Languages)

\* The overlay's second has passed.
OverlayTimePasses ==
    /\ overlay = "showing"
    /\ overlay' = "due"
    /\ UNCHANGED <<state, display_signal, pc, last, translation_sec, transcript_sec,
                   fb, doubtful>>

-----------------------------------------------------------------------------
Animating == IsAnimating(translation_sec) \/ IsAnimating(transcript_sec)

\* The wait ends by the signal; by its timeout when something animates, or
\* when the overlay's deadline passes; else by the signal only.
WaitEnds == display_signal \/ Animating \/ overlay = "due"

\* The rest of the loop body, with framebuffer b and sections tr and ts: the
\* overlay's expiry, the animation, the sections and the separator.  With the
\* overlay visible it goes back to the wait without drawing or flushing.
\* Else it flushes, if it drew or something is dirty from before.
FinishFrame(b, tr, ts, over, primary) ==
    LET expired == over = "due"
        tr1 == Advance(IF expired THEN Redraw(tr) ELSE tr)
        ts1 == Advance(IF expired THEN Redraw(ts) ELSE ts)
        drawTr == tr1.needs_redraw /\ primary = None
        drawTs == ts1.needs_redraw
        b1 == IF drawTr THEN RenderTranslation(b, tr1) ELSE b
        b2 == IF drawTs THEN RenderTranscript(b1, ts1) ELSE b1
    IN
    IF over = "showing"
    THEN /\ pc' = "waiting"
         /\ translation_sec' = tr1 /\ transcript_sec' = ts1
         /\ fb' = b
         /\ overlay' = over
    ELSE /\ pc' = "flushing"
         /\ translation_sec' = IF drawTr THEN Drawn(tr1) ELSE tr1
         /\ transcript_sec' = IF drawTs THEN Drawn(ts1) ELSE ts1
         /\ fb' = b2
         /\ overlay' = "none"

\* The task wakes, reads the state and draws the statuses.  A new language is
\* drawn over everything and flushed at once.
Wakes ==
    LET tr == IF state.translation # last.translation
              THEN UpdateText(translation_sec, state.translation) ELSE translation_sec
        ts == IF state.transcript # last.transcript
              THEN UpdateText(transcript_sec, state.transcript) ELSE transcript_sec
        newPrimary == state.primary # last.primary
        b1 == IF newPrimary THEN DrawPrimaryStatus(fb, state.primary) ELSE fb
        tr1 == IF newPrimary /\ state.primary = None THEN Redraw(tr) ELSE tr
        b2 == IF state.indicator # last.indicator
              THEN DrawTranslateStatus(b1, state.indicator) ELSE b1
    IN
    /\ pc = "waiting"
    /\ WaitEnds
    /\ display_signal' = FALSE
    /\ last' = state
    /\ IF state.lang # last.lang
       THEN /\ fb' = RenderLangOverlay(b2)
            /\ overlay' = "showing"
            /\ translation_sec' = tr1 /\ transcript_sec' = ts
            /\ pc' = "flushing_overlay"
       ELSE FinishFrame(b2, tr1, ts, overlay, state.primary)
    /\ UNCHANGED <<state, doubtful>>

\* flush_async returns Ok: the dirty layers are on the panel.  An area that
\* was in doubt no longer is when all of it was sent.
FlushSucceeds == doubtful' = doubtful \ fb.dirty

\* flush_async returns an error.  The dirty rectangle was taken before the
\* transfer: what has not come through is not sent again until it is drawn
\* again.
FlushFails == doubtful' = doubtful \union AreasOf(fb.dirty)

\* The flush of the overlay ends, in one way or the other: the task goes on with
\* the frame.
OverlayFlushed ==
    /\ pc = "flushing_overlay"
    /\ FlushSucceeds \/ FlushFails
    /\ FinishFrame(Clean(fb), translation_sec, transcript_sec, overlay, last.primary)
    /\ UNCHANGED <<state, display_signal, last>>

\* The flush of the frame ends, and the task goes back to the wait.
FrameFlushed ==
    /\ pc = "flushing"
    /\ FlushSucceeds \/ FlushFails
    /\ fb' = Clean(fb)
    /\ pc' = "waiting"
    /\ UNCHANGED <<state, display_signal, last, overlay, translation_sec, transcript_sec>>

-----------------------------------------------------------------------------
Task == Wakes \/ OverlayFlushed \/ FrameFlushed

Updates ==
    \/ NewTranscript \/ NewTranslation
    \/ PrimaryStatusChanges \/ TranslateStatusChanges \/ LanguageChanges

Next == Task \/ OverlayTimePasses \/ Updates

Spec == Init /\ [][Next]_vars

\* The task is polled when woken, its transfers end, and time passes.
FairSpec == Spec /\ WF_vars(Task) /\ WF_vars(OverlayTimePasses)

-----------------------------------------------------------------------------
Sections ==
    [text : Texts, offset : Nat, target : Nat, needs_redraw : BOOLEAN]

States ==
    [transcript : Texts, translation : Texts, primary : PrimaryTexts,
     indicator : IndicatorTexts, lang : Languages]

AreaContents ==
    [kind : {"translation", "status"}, text : Texts \union PrimaryTexts, offset : Nat]

TranscriptContents == [kind : {"transcript"}, text : Texts, offset : Nat]

Buffers ==
    [area : AreaContents, indicator : IndicatorTexts, overlay : BOOLEAN,
     transcript : TranscriptContents, dirty : SUBSET Layers]

\* The type invariant: no section is scrolled past the end of its text.
TypeOK ==
    /\ state \in States /\ last \in States
    /\ display_signal \in BOOLEAN
    /\ pc \in {"waiting", "flushing_overlay", "flushing"}
    /\ overlay \in {"none", "showing", "due"}
    /\ translation_sec \in Sections /\ transcript_sec \in Sections
    /\ \A sec \in {translation_sec, transcript_sec} :
          sec.target = Overflow(sec.text) /\ sec.offset <= sec.target
    /\ fb \in Buffers /\ doubtful \subseteq AreasOf(Layers)

\* The task blocks until it is signalled: nothing animates, no overlay is up.
AtRest == pc = "waiting" /\ ~WaitEnds /\ overlay = "none"

\* Texts, statuses, overlays and animations pile up in any order between two
\* frames, and flushes fail; when the task rests, everything it has drawn was
\* flushed, and each area of the panel that no failed flush has left in doubt
\* shows the state as it is: the whole transcript scrolled to its end, and the
\* translation, scrolled to its end, exactly when there is no primary status
\* to show instead.  Redrawing the area wipes the translate indicator, which
\* is drawn again only when it changes: it may be missing, but is never a
\* stale one.  An overlay whose second is over stays only under a primary
\* status, for there the section it covers is not repainted.
RestShowsState ==
    AtRest =>
        /\ fb.dirty = {}
        /\ "transcript" \notin doubtful =>
              fb.transcript =
                  Contents("transcript", state.transcript, Overflow(state.transcript))
        /\ "area" \notin doubtful =>
              /\ fb.area =
                    IF state.primary = None
                    THEN Contents("translation", state.translation, Overflow(state.translation))
                    ELSE Contents("status", state.primary, 0)
              /\ fb.indicator \in {None, state.indicator}
              /\ fb.overlay => state.primary # None

\* display_task.rs:141-142: "so the normal content returns after the overlay
\* disappears" - at rest, with every flush a success, no overlay is left.
OverlayIsRemoved == AtRest /\ doubtful = {} => ~fb.overlay

\* When the state has settled, all scrolling ends and the task comes to rest.
ComesToRest == <>[][~Updates]_vars => <>[]AtRest
=============================================================================
