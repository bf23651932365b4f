--------------------------- MODULE DisplayTaskProofs --------------------------
(***************************************************************************)
(* Proofs about DisplayTask for any texts, statuses, languages and scroll  *)
(* distances: what the framebuffer shows follows what the task has seen,   *)
(* section by section, however texts, statuses, overlays and animations    *)
(* interleave, and when the task rests the panel shows the state.          *)
(***************************************************************************)
EXTENDS DisplayTask, TLAPS

-----------------------------------------------------------------------------
(* The inductive invariant *)

\* A section is never scrolled past the end of its text.
Fits(sec) ==
    /\ sec \in Sections
    /\ sec.target = Overflow(sec.text)
    /\ sec.offset <= sec.target

\* Framebuffer b shows the primary status, or the section unless it waits for
\* a redraw.
AreaShows(b, sec, primary) ==
    IF primary = None
    THEN sec.needs_redraw \/ b.area = Contents("translation", sec.text, sec.offset)
    ELSE b.area = Contents("status", primary, 0)

TranscriptShows(b, sec) ==
    sec.needs_redraw \/ b.transcript = Contents("transcript", sec.text, sec.offset)

\* Once no overlay is up, nothing waits for a redraw, but the translation
\* under a primary status, which may keep the remains of an overlay.
NothingWaits(b, tr, ts, primary) ==
    /\ ~ts.needs_redraw
    /\ primary = None => ~tr.needs_redraw /\ ~b.overlay

\* What the task has not seen was signalled.
SignalCoversNews == display_signal \/ state = last

\* The sections hold the texts it has seen.
SectionsFollow ==
    /\ Fits(translation_sec) /\ translation_sec.text = last.translation
    /\ Fits(transcript_sec) /\ transcript_sec.text = last.transcript

\* The framebuffer shows what it has seen.
BufferFollows ==
    /\ AreaShows(fb, translation_sec, last.primary)
    /\ TranscriptShows(fb, transcript_sec)
    /\ fb.indicator \in {None, last.indicator}
    /\ overlay = "none" => NothingWaits(fb, translation_sec, transcript_sec, last.primary)

\* What was drawn is flushed before the task waits with no overlay up.
FlushesFollow ==
    /\ pc = "waiting" /\ overlay = "none" => fb.dirty = {}
    /\ pc = "flushing" => overlay = "none"
    /\ pc = "flushing_overlay" => overlay # "none"

DisplayInv ==
    /\ TypeOK
    /\ SignalCoversNews
    /\ SectionsFollow
    /\ BufferFollows
    /\ FlushesFollow

-----------------------------------------------------------------------------
(* Sections and drawing *)

LEMMA OverflowsAreNat == \A text \in Texts : Overflow(text) \in Nat
BY DisplayAssumption

LEMMA UpdateTextFits ==
    ASSUME NEW sec, Fits(sec), NEW text \in Texts
    PROVE  /\ Fits(UpdateText(sec, text))
           /\ UpdateText(sec, text).text = text
           /\ UpdateText(sec, text).needs_redraw
BY OverflowsAreNat DEF Fits, Sections, UpdateText

LEMMA RedrawFits ==
    ASSUME NEW sec, Fits(sec)
    PROVE  /\ Fits(Redraw(sec)) /\ Redraw(sec).needs_redraw
           /\ Redraw(sec).text = sec.text
BY DEF Fits, Sections, Redraw

LEMMA DrawnFits ==
    ASSUME NEW sec, Fits(sec)
    PROVE  /\ Fits(Drawn(sec)) /\ ~Drawn(sec).needs_redraw
           /\ Drawn(sec).text = sec.text /\ Drawn(sec).offset = sec.offset
BY DEF Fits, Sections, Drawn

\* An animation step scrolls to the end of the text and no further, and has
\* the section drawn again if it moved.
LEMMA AdvanceFits ==
    ASSUME NEW sec, Fits(sec)
    PROVE  /\ Fits(Advance(sec)) /\ Advance(sec).text = sec.text
           /\ Advance(sec).needs_redraw \/ Advance(sec) = sec
<1>1. CASE IsAnimating(sec)
  <2>1. Advance(sec) = [sec EXCEPT !.offset = @ + 1, !.needs_redraw = TRUE]
    BY <1>1 DEF Advance
  <2> DEFINE moved == [sec EXCEPT !.offset = @ + 1]
  <2>2. Fits(moved) /\ moved.text = sec.text
    BY <1>1 DEF Fits, Sections, IsAnimating
  <2>3. Advance(sec) = Redraw(moved)
    BY <2>1, Zenon DEF Redraw
  <2> HIDE DEF moved
  <2> QED
    BY <2>2, <2>3, RedrawFits
<1>2. CASE ~IsAnimating(sec)
  BY <1>2 DEF Advance
<1> QED
  BY <1>1, <1>2

\* Marking layers dirty, or all of them clean, changes nothing that they show.
LEMMA MarkMarks ==
    ASSUME NEW b \in Buffers, NEW layers \in SUBSET Layers
    PROVE  LET b1 == Mark(b, layers)
           IN  /\ b1 \in Buffers
               /\ b1.area = b.area /\ b1.indicator = b.indicator
               /\ b1.overlay = b.overlay /\ b1.transcript = b.transcript
BY DEF Mark, Buffers

LEMMA CleanCleans ==
    ASSUME NEW b \in Buffers
    PROVE  LET b1 == Clean(b)
           IN  /\ b1 \in Buffers /\ b1.dirty = {}
               /\ b1.area = b.area /\ b1.indicator = b.indicator
               /\ b1.overlay = b.overlay /\ b1.transcript = b.transcript
BY DEF Clean, Buffers

\* One field after the other.
LEMMA DrawAreaClears ==
    ASSUME NEW b \in Buffers,
           NEW contents \in AreaContents
    PROVE  /\ DrawArea(b, contents) \in Buffers
           /\ DrawArea(b, contents).area = contents
           /\ DrawArea(b, contents).indicator = None
           /\ ~DrawArea(b, contents).overlay
           /\ DrawArea(b, contents).transcript = b.transcript
<1> DEFINE b1 == [b EXCEPT !.area = contents]
           b2 == [b1 EXCEPT !.indicator = None]
           b3 == [b2 EXCEPT !.overlay = FALSE]
<1>1. b1 \in Buffers /\ b1.area = contents /\ b1.transcript = b.transcript
  BY DEF Buffers
<1> HIDE DEF b1
<1>2. b2 \in Buffers /\ b2.area = contents /\ b2.indicator = None /\ b2.transcript = b.transcript
  BY <1>1, DisplayAssumption DEF Buffers
<1> HIDE DEF b2
<1>3. /\ b3 \in Buffers /\ b3.area = contents /\ b3.indicator = None /\ b3.transcript = b.transcript
      /\ ~b3.overlay
  BY <1>2 DEF Buffers
<1>4. DrawArea(b, contents) = Mark(b3, {"area", "indicator", "overlay"})
  BY Zenon DEF DrawArea, b1, b2
<1> HIDE DEF b3
<1> QED
  BY <1>3, <1>4, MarkMarks DEF Layers

\* A section that is drawn shows, and loses its mark.
LEMMA RenderTranslationShows ==
    ASSUME NEW b \in Buffers, NEW sec, Fits(sec)
    PROVE  LET b1 == RenderTranslation(b, sec)
           IN  /\ b1 \in Buffers
               /\ b1.area = Contents("translation", sec.text, sec.offset)
               /\ b1.indicator = None /\ ~b1.overlay
               /\ b1.transcript = b.transcript
<1>1. Contents("translation", sec.text, sec.offset)
          \in AreaContents
  BY DEF Contents, Fits, Sections, AreaContents
<1> QED
  BY <1>1, DrawAreaClears DEF RenderTranslation

LEMMA RenderTranscriptShows ==
    ASSUME NEW b \in Buffers, NEW sec, Fits(sec)
    PROVE  LET b1 == RenderTranscript(b, sec)
           IN  /\ b1 \in Buffers
               /\ b1.transcript = Contents("transcript", sec.text, sec.offset)
               /\ b1.area = b.area /\ b1.indicator = b.indicator /\ b1.overlay = b.overlay
<1>1. Contents("transcript", sec.text, sec.offset)
          \in TranscriptContents
  BY DEF Contents, Fits, Sections, TranscriptContents
<1> DEFINE b1 == [b EXCEPT !.transcript = Contents("transcript", sec.text, sec.offset)]
<1>2. /\ b1 \in Buffers /\ b1.transcript = Contents("transcript", sec.text, sec.offset)
      /\ b1.area = b.area /\ b1.indicator = b.indicator /\ b1.overlay = b.overlay
  BY <1>1 DEF Buffers
<1>3. RenderTranscript(b, sec) = Mark(b1, {"transcript"})
  BY Zenon DEF RenderTranscript
<1> HIDE DEF b1
<1> QED
  BY <1>2, <1>3, MarkMarks DEF Layers

LEMMA PrimaryStatusShows ==
    ASSUME NEW b \in Buffers, NEW status \in PrimaryTexts
    PROVE  LET b1 == DrawPrimaryStatus(b, status)
           IN  /\ b1 \in Buffers
               /\ b1.area = Contents("status", status, 0)
               /\ b1.indicator = None /\ ~b1.overlay
               /\ b1.transcript = b.transcript
<1>1. Contents("status", status, 0)
          \in AreaContents
  BY DEF Contents, AreaContents
<1> QED
  BY <1>1, DrawAreaClears DEF DrawPrimaryStatus

LEMMA TranslateStatusShows ==
    ASSUME NEW b \in Buffers, NEW status \in IndicatorTexts
    PROVE  LET b1 == DrawTranslateStatus(b, status)
           IN  /\ b1 \in Buffers
               /\ b1.indicator = status
               /\ b1.area = b.area /\ b1.overlay = b.overlay /\ b1.transcript = b.transcript
<1> DEFINE b1 == [b EXCEPT !.indicator = status]
<1>1. /\ b1 \in Buffers /\ b1.indicator = status
      /\ b1.area = b.area /\ b1.overlay = b.overlay /\ b1.transcript = b.transcript
  BY DEF Buffers
<1>2. DrawTranslateStatus(b, status) = Mark(b1, {"indicator"})
  BY Zenon DEF DrawTranslateStatus
<1> HIDE DEF b1
<1> QED
  BY <1>1, <1>2, MarkMarks DEF Layers

LEMMA LangOverlayShows ==
    ASSUME NEW b \in Buffers
    PROVE  LET b1 == RenderLangOverlay(b)
           IN  /\ b1 \in Buffers
               /\ b1.indicator = b.indicator
               /\ b1.area = b.area /\ b1.transcript = b.transcript
<1> DEFINE b1 == [b EXCEPT !.overlay = TRUE]
<1>1. /\ b1 \in Buffers /\ b1.indicator = b.indicator
      /\ b1.area = b.area /\ b1.transcript = b.transcript
  BY DEF Buffers
<1>2. RenderLangOverlay(b) = Mark(b1, {"overlay"})
  BY Zenon DEF RenderLangOverlay
<1> HIDE DEF b1
<1> QED
  BY <1>1, <1>2, MarkMarks DEF Layers

-----------------------------------------------------------------------------
\* The rest of the loop body, entered with sections that fit and a framebuffer
\* that shows them: what is drawn shows the sections as they are after the
\* animation, and once no overlay is up nothing waits for a redraw.
LEMMA FrameIsFinished ==
    ASSUME NEW b \in Buffers, NEW tr, NEW ts, NEW over \in {"none", "showing", "due"},
           NEW primary \in PrimaryTexts, NEW indicator,
           Fits(tr), Fits(ts), AreaShows(b, tr, primary), TranscriptShows(b, ts),
           b.indicator \in {None, indicator},
           over = "none" /\ primary = None => tr.needs_redraw \/ ~b.overlay,
           FinishFrame(b, tr, ts, over, primary)
    PROVE  /\ Fits(translation_sec') /\ translation_sec'.text = tr.text
           /\ Fits(transcript_sec') /\ transcript_sec'.text = ts.text
           /\ fb' \in Buffers
           /\ AreaShows(fb', translation_sec', primary)
           /\ TranscriptShows(fb', transcript_sec')
           /\ fb'.indicator \in {None, indicator}
           /\ \/ pc' = "waiting" /\ overlay' = "showing" /\ over = "showing" /\ fb' = b
              \/ /\ pc' = "flushing" /\ overlay' = "none"
                 /\ NothingWaits(fb', translation_sec', transcript_sec', primary)
<1> DEFINE expired == over = "due"
           tr0 == IF expired THEN Redraw(tr) ELSE tr
           ts0 == IF expired THEN Redraw(ts) ELSE ts
           tr1 == Advance(tr0)
           ts1 == Advance(ts0)
           drawTr == tr1.needs_redraw /\ primary = None
           drawTs == ts1.needs_redraw
           b1 == IF drawTr THEN RenderTranslation(b, tr1) ELSE b
           b2 == IF drawTs THEN RenderTranscript(b1, ts1) ELSE b1
<1>1. /\ Fits(tr0) /\ tr0.text = tr.text /\ AreaShows(b, tr0, primary)
      /\ Fits(ts0) /\ ts0.text = ts.text /\ TranscriptShows(b, ts0)
  BY RedrawFits DEF AreaShows, TranscriptShows
<1>2. /\ over = "due" => tr0.needs_redraw /\ ts0.needs_redraw
      /\ over = "none" => tr0 = tr
  BY RedrawFits
<1>3. /\ Fits(tr1) /\ tr1.text = tr.text /\ (tr1.needs_redraw \/ tr1 = tr0)
      /\ Fits(ts1) /\ ts1.text = ts.text /\ (ts1.needs_redraw \/ ts1 = ts0)
  BY <1>1, AdvanceFits
<1> HIDE DEF tr0, ts0, tr1, ts1
<1>4. CASE over = "showing"
  <2>1. /\ pc' = "waiting" /\ overlay' = "showing" /\ fb' = b
        /\ translation_sec' = tr1 /\ transcript_sec' = ts1
    BY <1>4 DEF FinishFrame, tr0, ts0, tr1, ts1
  <2> QED
    BY <2>1, <1>1, <1>3, <1>4 DEF AreaShows, TranscriptShows
<1>5. CASE over # "showing"
  <2>1. /\ pc' = "flushing" /\ overlay' = "none" /\ fb' = b2
        /\ translation_sec' = IF drawTr THEN Drawn(tr1) ELSE tr1
        /\ transcript_sec' = IF drawTs THEN Drawn(ts1) ELSE ts1
    BY <1>5 DEF FinishFrame, tr0, ts0, tr1, ts1
  <2>2. /\ b1 \in Buffers /\ b1.transcript = b.transcript /\ b1.indicator \in {None, indicator}
        /\ drawTr => /\ b1.area = Contents("translation", tr1.text, tr1.offset)
                     /\ ~b1.overlay
        /\ ~drawTr => b1 = b
    <3>1. CASE drawTr
      <4>1. b1 = RenderTranslation(b, tr1)
        BY <3>1, Zenon
      <4> QED
        BY <4>1, <3>1, <1>3, RenderTranslationShows, Zenon
    <3>2. CASE ~drawTr
      BY <3>2
    <3> QED
      BY <3>1, <3>2
  <2> HIDE DEF b1
  <2>3. /\ b2 \in Buffers
        /\ b2.area = b1.area /\ b2.indicator = b1.indicator /\ b2.overlay = b1.overlay
        /\ drawTs => b2.transcript = Contents("transcript", ts1.text, ts1.offset)
        /\ ~drawTs => b2 = b1
    <3>1. CASE drawTs
      <4>1. b2 = RenderTranscript(b1, ts1)
        BY <3>1, Zenon
      <4> QED
        BY <4>1, <3>1, <1>3, <2>2, RenderTranscriptShows, Zenon
    <3>2. CASE ~drawTs
      BY <3>2, <2>2
    <3> QED
      BY <3>1, <3>2
  <2> HIDE DEF b2
  <2>4. /\ Fits(translation_sec') /\ translation_sec'.text = tr.text
        /\ translation_sec'.offset = tr1.offset
        /\ translation_sec'.needs_redraw => ~drawTr /\ tr1.needs_redraw
    <3>1. CASE drawTr
      <4>1. translation_sec' = Drawn(tr1)
        BY <3>1, <2>1, Zenon
      <4> QED
        BY <4>1, <1>3, DrawnFits, Zenon
    <3>2. CASE ~drawTr
      <4>1. translation_sec' = tr1
        BY <3>2, <2>1, Zenon
      <4> QED
        BY <4>1, <3>2, <1>3, Zenon
    <3> QED
      BY <3>1, <3>2
  <2>5. /\ Fits(transcript_sec') /\ transcript_sec'.text = ts.text
        /\ transcript_sec'.offset = ts1.offset
        /\ ~transcript_sec'.needs_redraw
    <3>1. CASE drawTs
      <4>1. transcript_sec' = Drawn(ts1)
        BY <3>1, <2>1, Zenon
      <4> QED
        BY <4>1, <1>3, DrawnFits, Zenon
    <3>2. CASE ~drawTs
      <4>1. transcript_sec' = ts1
        BY <3>2, <2>1, Zenon
      <4> QED
        BY <4>1, <3>2, <1>3, Zenon
    <3> QED
      BY <3>1, <3>2
  <2>6. AreaShows(fb', translation_sec', primary)
    BY <2>1, <2>2, <2>3, <2>4, <1>1, <1>3 DEF AreaShows
  <2>7. TranscriptShows(fb', transcript_sec')
    BY <2>1, <2>2, <2>3, <2>5, <1>1, <1>3 DEF TranscriptShows
  <2>8. NothingWaits(fb', translation_sec', transcript_sec', primary)
    <3>1. ASSUME primary = None
          PROVE  ~translation_sec'.needs_redraw /\ ~fb'.overlay
      <4>1. CASE tr1.needs_redraw
        BY <4>1, <3>1, <2>1, <2>2, <2>3, <2>4
      <4>2. CASE ~tr1.needs_redraw
        BY <4>2, <3>1, <2>1, <2>2, <2>3, <2>4, <1>2, <1>3, <1>5
      <4> QED
        BY <4>1, <4>2
    <3> QED
      BY <3>1, <2>5 DEF NothingWaits
  <2> QED
    BY <2>1, <2>2, <2>3, <2>4, <2>5, <2>6, <2>7, <2>8
<1> QED
  BY <1>4, <1>5

-----------------------------------------------------------------------------
(* The steps *)

LEMMA InitEstablishes == Init => DisplayInv
<1> SUFFICES ASSUME Init
             PROVE  DisplayInv
  OBVIOUS
<1>1. PICK status \in PrimaryTexts \ {None} :
          state = [transcript |-> None, translation |-> None, primary |-> status,
                   indicator |-> None, lang |-> 1]
  BY DEF Init
<1>2. /\ state \in States /\ last \in States
      /\ last.transcript = None /\ last.translation = None
      /\ last.primary = None /\ last.indicator = None
  BY <1>1, DisplayAssumption DEF Init, States, Texts, Languages
<1>3. Fits(NewSection)
  BY DisplayAssumption DEF Fits, Sections, NewSection, Texts
<1>4. Blank \in Buffers
  BY DisplayAssumption
     DEF Blank, Buffers, AreaContents, TranscriptContents, Contents, Texts, Layers
<1>5. /\ fb \in Buffers /\ doubtful = {}
      /\ fb.area = Contents("translation", None, 0)
      /\ fb.transcript = Contents("transcript", None, 0)
      /\ fb.indicator = None
  BY <1>4, LangOverlayShows, CleanCleans DEF Init, Blank
<1>6. AreaShows(fb, translation_sec, None) /\ TranscriptShows(fb, transcript_sec)
  BY <1>5 DEF Init, AreaShows, TranscriptShows, NewSection
<1> QED
  BY <1>2, <1>3, <1>5, <1>6
     DEF Init, DisplayInv, TypeOK, SignalCoversNews, SectionsFollow, BufferFollows,
         FlushesFollow, Fits, NewSection

\* What follows from what an update and a tick leave alone.
LEMMA UpdateKeeps ==
    ASSUME DisplayInv, Updates
    PROVE  DisplayInv'
<1>1. /\ display_signal' = TRUE
      /\ UNCHANGED <<pc, last, overlay, translation_sec, transcript_sec, fb, doubtful>>
  BY DEF Updates, NewTranscript, NewTranslation, PrimaryStatusChanges, TranslateStatusChanges,
         LanguageChanges, Update
<1>2. state' \in States
  <2> USE DEF DisplayInv, TypeOK, States, Update
  <2>1. CASE NewTranscript
    BY <2>1 DEF NewTranscript, Texts
  <2>2. CASE NewTranslation
    BY <2>2 DEF NewTranslation, Texts
  <2>3. CASE PrimaryStatusChanges
    BY <2>3 DEF PrimaryStatusChanges
  <2>4. CASE TranslateStatusChanges
    BY <2>4 DEF TranslateStatusChanges
  <2>5. CASE LanguageChanges
    BY <2>5 DEF LanguageChanges
  <2> QED
    BY <2>1, <2>2, <2>3, <2>4, <2>5 DEF Updates
<1> QED
  BY <1>1, <1>2
     DEF DisplayInv, TypeOK, SignalCoversNews, SectionsFollow, BufferFollows, FlushesFollow

LEMMA OverlayTimeKeeps ==
    ASSUME DisplayInv, OverlayTimePasses
    PROVE  DisplayInv'
BY DEF OverlayTimePasses, DisplayInv, TypeOK, SignalCoversNews, SectionsFollow,
       BufferFollows, FlushesFollow

\* Whichever way a flush ends, what it leaves in doubt are areas of the screen.
LEMMA FlushDoubts ==
    ASSUME fb \in Buffers, doubtful \subseteq AreasOf(Layers), FlushSucceeds \/ FlushFails
    PROVE  doubtful' \subseteq AreasOf(Layers)
<1>1. fb.dirty \subseteq Layers
  BY DEF Buffers
<1>2. CASE FlushSucceeds
  BY <1>2 DEF FlushSucceeds
<1>3. CASE FlushFails
  <2>1. AreasOf(fb.dirty) \subseteq AreasOf(Layers)
    BY <1>1 DEF AreasOf
  <2> QED
    BY <1>3, <2>1 DEF FlushFails
<1> QED
  BY <1>2, <1>3

LEMMA FrameFlushedKeeps ==
    ASSUME DisplayInv, FrameFlushed
    PROVE  DisplayInv'
<1>1. doubtful' \subseteq AreasOf(Layers)
  BY FlushDoubts DEF FrameFlushed, DisplayInv, TypeOK
<1>2. /\ fb' \in Buffers /\ fb'.dirty = {}
      /\ fb'.area = fb.area /\ fb'.indicator = fb.indicator
      /\ fb'.overlay = fb.overlay /\ fb'.transcript = fb.transcript
  BY CleanCleans DEF FrameFlushed, DisplayInv, TypeOK
<1> QED
  BY <1>1, <1>2
     DEF FrameFlushed, DisplayInv, TypeOK, SignalCoversNews, SectionsFollow, BufferFollows,
         FlushesFollow, AreaShows, TranscriptShows, NothingWaits

LEMMA OverlayFlushedKeeps ==
    ASSUME DisplayInv, OverlayFlushed
    PROVE  DisplayInv'
<1> USE DEF DisplayInv, TypeOK
<1> DEFINE b == Clean(fb)
<1>1. /\ UNCHANGED <<state, display_signal, last>>
      /\ pc = "flushing_overlay"
      /\ FinishFrame(b, translation_sec, transcript_sec, overlay, last.primary)
  BY DEF OverlayFlushed
<1>2. doubtful' \subseteq AreasOf(Layers)
  BY FlushDoubts DEF OverlayFlushed
<1>3. /\ b \in Buffers
      /\ b.area = fb.area /\ b.indicator = fb.indicator
      /\ b.overlay = fb.overlay /\ b.transcript = fb.transcript
  BY CleanCleans
<1> HIDE DEF b
<1>4. /\ AreaShows(b, translation_sec, last.primary)
      /\ TranscriptShows(b, transcript_sec)
      /\ b.indicator \in {None, last.indicator}
  BY <1>3 DEF BufferFollows, AreaShows, TranscriptShows
<1>5. overlay # "none" /\ last.primary \in PrimaryTexts
  BY <1>1 DEF FlushesFollow, States
<1>6. /\ Fits(translation_sec') /\ translation_sec'.text = translation_sec.text
      /\ Fits(transcript_sec') /\ transcript_sec'.text = transcript_sec.text
      /\ fb' \in Buffers
      /\ AreaShows(fb', translation_sec', last.primary)
      /\ TranscriptShows(fb', transcript_sec')
      /\ fb'.indicator \in {None, last.indicator}
      /\ \/ pc' = "waiting" /\ overlay' = "showing" /\ overlay = "showing" /\ fb' = b
         \/ /\ pc' = "flushing" /\ overlay' = "none"
            /\ NothingWaits(fb', translation_sec', transcript_sec', last.primary)
  BY <1>1, <1>5, <1>3, <1>4, FrameIsFinished DEF SectionsFollow
<1> QED
  BY <1>1, <1>2, <1>6 DEF SignalCoversNews, SectionsFollow, BufferFollows, FlushesFollow, Fits

\* The task takes in the state: a text that changed is marked for redraw, a
\* primary status is drawn over the area, and one that ends has the section
\* below it drawn again.
LEMMA WakesKeeps ==
    ASSUME DisplayInv, Wakes
    PROVE  DisplayInv'
<1> DEFINE tr == IF state.translation # last.translation
                 THEN UpdateText(translation_sec, state.translation) ELSE translation_sec
           ts == IF state.transcript # last.transcript
                 THEN UpdateText(transcript_sec, state.transcript) ELSE transcript_sec
           newPrimary == state.primary # last.primary
           b1 == IF newPrimary THEN DrawPrimaryStatus(fb, state.primary) ELSE fb
           tr1 == IF newPrimary /\ state.primary = None THEN Redraw(tr) ELSE tr
           b2 == IF state.indicator # last.indicator
                 THEN DrawTranslateStatus(b1, state.indicator) ELSE b1
<1>1. /\ state \in States /\ fb \in Buffers
      /\ state.transcript \in Texts /\ state.translation \in Texts
      /\ state.primary \in PrimaryTexts /\ state.indicator \in IndicatorTexts
      /\ overlay \in {"none", "showing", "due"}
  BY DEF DisplayInv, TypeOK, States
<1>2. /\ Fits(tr) /\ tr.text = state.translation
      /\ tr = translation_sec \/ tr.needs_redraw
  BY <1>1, UpdateTextFits DEF DisplayInv, SectionsFollow
<1>3. /\ Fits(ts) /\ ts.text = state.transcript
      /\ ts = transcript_sec \/ ts.needs_redraw
  BY <1>1, UpdateTextFits DEF DisplayInv, SectionsFollow
<1>4. /\ b1 \in Buffers /\ b1.transcript = fb.transcript
      /\ b1.indicator \in {None, last.indicator}
      /\ newPrimary => b1.area = Contents("status", state.primary, 0) /\ ~b1.overlay
      /\ ~newPrimary => b1 = fb
  BY <1>1, PrimaryStatusShows DEF DisplayInv, BufferFollows
<1>5. /\ Fits(tr1) /\ tr1.text = state.translation
      /\ newPrimary /\ state.primary = None => tr1.needs_redraw
      /\ ~(newPrimary /\ state.primary = None) => tr1 = tr
  BY <1>2, RedrawFits
<1> HIDE DEF tr, ts, b1, tr1
<1>6. /\ b2 \in Buffers /\ b2.transcript = b1.transcript
      /\ b2.area = b1.area /\ b2.overlay = b1.overlay
      /\ b2.indicator \in {None, state.indicator}
  BY <1>1, <1>4, TranslateStatusShows
<1> HIDE DEF b2
<1>7. AreaShows(b2, tr1, state.primary)
  BY <1>2, <1>4, <1>5, <1>6 DEF DisplayInv, BufferFollows, AreaShows
<1>8. TranscriptShows(b2, ts)
  BY <1>3, <1>4, <1>6 DEF DisplayInv, BufferFollows, TranscriptShows
<1>9. /\ display_signal' = FALSE /\ last' = state
      /\ UNCHANGED <<state, doubtful>>
  BY DEF Wakes
<1>10. CASE state.lang # last.lang
  <2>1. /\ fb' = RenderLangOverlay(b2)
        /\ overlay' = "showing" /\ pc' = "flushing_overlay"
        /\ translation_sec' = tr1 /\ transcript_sec' = ts
    BY <1>10 DEF Wakes, tr, ts, b1, tr1, b2
  <2>2. /\ fb' \in Buffers /\ fb'.indicator = b2.indicator
        /\ fb'.area = b2.area /\ fb'.transcript = b2.transcript
    BY <2>1, <1>6, LangOverlayShows
  <2>3. AreaShows(fb', translation_sec', state.primary) /\ TranscriptShows(fb', transcript_sec')
    BY <2>1, <2>2, <1>7, <1>8 DEF AreaShows, TranscriptShows
  <2> QED
    BY <1>1, <1>3, <1>5, <1>6, <1>9, <2>1, <2>2, <2>3
       DEF DisplayInv, TypeOK, SignalCoversNews, SectionsFollow, BufferFollows, FlushesFollow,
           Fits
<1>11. CASE state.lang = last.lang
  <2>1. FinishFrame(b2, tr1, ts, overlay, state.primary)
    BY <1>11 DEF Wakes, tr, ts, b1, tr1, b2
  <2>2. overlay = "none" /\ state.primary = None => tr1.needs_redraw \/ ~b2.overlay
    BY <1>2, <1>3, <1>4, <1>5, <1>6 DEF DisplayInv, BufferFollows, NothingWaits
  <2>3. /\ Fits(translation_sec') /\ translation_sec'.text = tr1.text
        /\ Fits(transcript_sec') /\ transcript_sec'.text = ts.text
        /\ fb' \in Buffers
        /\ AreaShows(fb', translation_sec', state.primary)
        /\ TranscriptShows(fb', transcript_sec')
        /\ fb'.indicator \in {None, state.indicator}
        /\ \/ pc' = "waiting" /\ overlay' = "showing" /\ overlay = "showing" /\ fb' = b2
           \/ /\ pc' = "flushing" /\ overlay' = "none"
              /\ NothingWaits(fb', translation_sec', transcript_sec', state.primary)
    BY <1>1, <1>3, <1>5, <1>6, <1>7, <1>8, <2>1, <2>2, FrameIsFinished
  <2> QED
    BY <1>3, <1>5, <1>9, <2>3
       DEF DisplayInv, TypeOK, SignalCoversNews, SectionsFollow, BufferFollows, FlushesFollow,
           Fits
<1> QED
  BY <1>10, <1>11

LEMMA DisplayInvariant == Spec => []DisplayInv
<1>1. DisplayInv /\ [Next]_vars => DisplayInv'
  <2> SUFFICES ASSUME DisplayInv, [Next]_vars
               PROVE  DisplayInv'
    OBVIOUS
  <2>1. CASE UNCHANGED vars
    BY <2>1 DEF vars, DisplayInv, TypeOK, SignalCoversNews, SectionsFollow, BufferFollows,
                FlushesFollow
  <2> QED
    BY <2>1, WakesKeeps, OverlayFlushedKeeps, FrameFlushedKeeps, OverlayTimeKeeps, UpdateKeeps
       DEF Next, Task
<1> QED
  BY InitEstablishes, <1>1, PTL DEF Spec

\* No section is scrolled past the end of its text (layout.rs, update_text and
\* advance), and every buffer is one that the drawing code can make.
THEOREM DisplayTypes == Spec => []TypeOK
<1>1. DisplayInv => TypeOK
  BY DEF DisplayInv
<1> QED
  BY DisplayInvariant, <1>1, PTL

\* When the display task (display_task.rs) has nothing to do, it has flushed
\* all that it drew, and each area that no failed flush has left in doubt shows
\* the state, in whatever order texts, statuses, overlays and animations came.
THEOREM PanelShowsState == Spec => []RestShowsState
<1>1. DisplayInv => RestShowsState
  <2> SUFFICES ASSUME DisplayInv, AtRest
               PROVE  /\ fb.dirty = {}
                      /\ fb.transcript = Contents("transcript", state.transcript,
                                                  Overflow(state.transcript))
                      /\ fb.area =
                            IF state.primary = None
                            THEN Contents("translation", state.translation,
                                          Overflow(state.translation))
                            ELSE Contents("status", state.primary, 0)
                      /\ fb.indicator \in {None, state.indicator}
                      /\ fb.overlay => state.primary # None
    BY DEF RestShowsState
  <2>1. state = last /\ fb.dirty = {}
    BY DEF AtRest, WaitEnds, DisplayInv, SignalCoversNews, FlushesFollow
  <2>2. NothingWaits(fb, translation_sec, transcript_sec, last.primary)
    BY DEF AtRest, DisplayInv, BufferFollows
  <2>3. /\ translation_sec.offset = Overflow(last.translation)
        /\ transcript_sec.offset = Overflow(last.transcript)
    BY DEF AtRest, WaitEnds, Animating, IsAnimating, DisplayInv, SectionsFollow, Fits, Sections
  <2> QED
    BY <2>1, <2>2, <2>3
       DEF DisplayInv, SectionsFollow, BufferFollows, NothingWaits, AreaShows, TranscriptShows
<1> QED
  BY DisplayInvariant, <1>1, PTL
=============================================================================
