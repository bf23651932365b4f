---------------------------- MODULE CaptionsProofs ---------------------------
(***************************************************************************)
(* Proofs about Captions for any set of transcripts and any number of      *)
(* languages: no display wakeup is lost, the statuses tell what the tasks  *)
(* do, and a settled pipeline shows the right caption.                     *)
(***************************************************************************)
EXTENDS Captions, TLAPS

\* The unread transcript, if there is one, is the newest; without one, and
\* with nothing lost, the newest is in the debounce buffer or in last_json.
TextTracked ==
    /\ IsDgJson(translate_signal) => translate_signal = DgJson(transcript)
    /\ ~lost /\ ~IsDgJson(translate_signal) =>
           /\ task = "debouncing" => pending_json = transcript
           /\ task # "debouncing" => last_json = transcript

\* With no message pending that would start a job, the running job is in the
\* language selected, or the last one was and its result is the caption.
LangTracked ==
    ~lost /\ translate_signal \in {NoMsg, Flush} =>
        /\ task \in {"connecting", "translating"} => job_lang = target_lang
        /\ task \in {"waiting", "closing"} /\ ~failed /\ last_json # NoText
               => translation = Translation(last_json, target_lang)

\* The cache holds the translation of its own key.
CacheRight == cache # NotTranslated => cache.result = cache.key

\* A debounce and a job have a transcript.
JobHasText ==
    /\ task = "debouncing" => pending_json \in Texts
    /\ task \in {"connecting", "translating", "closing"} => last_json \in Texts

\* The inductive invariant.
CaptionInv ==
    /\ TypeOK
    /\ TextTracked
    /\ LangTracked
    /\ CacheRight
    /\ JobHasText

-----------------------------------------------------------------------------
\* The kinds of messages are told apart, and NoMsg is none of them.
LEMMA MessageKinds ==
    /\ Flush # Retranslate /\ NoMsg # Flush /\ NoMsg # Retranslate
    /\ ~IsDgJson(NoMsg) /\ ~IsDgJson(Flush) /\ ~IsDgJson(Retranslate)
    /\ \A text \in Texts :
          /\ IsDgJson(DgJson(text))
          /\ DgJson(text) \notin {NoMsg, Flush, Retranslate}
    /\ \A x, y : DgJson(x) = DgJson(y) => x = y
    /\ \A msg \in Messages \union {NoMsg} :
          IsDgJson(msg) \/ msg \in {NoMsg, Flush, Retranslate}
<1>1. Flush # Retranslate
  BY DEF Flush, Retranslate
<1>2. \A text : DgJson(text) # Flush /\ DgJson(text) # Retranslate
  <2> TAKE text
  <2>1. DgJson(text).type = "DgJson" /\ Flush.type = "Flush" /\ Retranslate.type = "Retranslate"
    BY DEF DgJson, Flush, Retranslate
  <2> QED
    BY <2>1
<1>3. \A x, y : DgJson(x) = DgJson(y) => x = y
  <2> TAKE x, y
  <2>1. DgJson(x).text = x /\ DgJson(y).text = y
    BY DEF DgJson
  <2> QED
    BY <2>1
<1>4. NoMsg \notin Messages
  BY CaptionsAssumption
<1> QED
  BY <1>1, <1>2, <1>3, <1>4 DEF IsDgJson, Messages

\* A touch selects one of the languages.
LEMMA TouchStaysInRange ==
    ASSUME NEW i \in Languages
    PROVE  /\ (i + 1) % NumLanguages \in Languages
           /\ (i + NumLanguages - 1) % NumLanguages \in Languages
BY CaptionsAssumption, Z3 DEF Languages

\* A pair of a text and a language is a translation, and a good cache key.
LEMMA TranslationType ==
    ASSUME NEW text \in Texts, NEW lang \in Languages
    PROVE  Translation(text, lang) \in Translations
BY DEF Translation, Translations

-----------------------------------------------------------------------------
LEMMA SignalType ==
    ASSUME NEW msg \in Messages, SignalTranslation(msg), lost \in BOOLEAN
    PROVE  translate_signal' \in Messages /\ lost' \in BOOLEAN
BY DEF SignalTranslation

LEMMA WakeType ==
    ASSUME NEW changed \in BOOLEAN, WakeDisplayIf(changed),
           display_signal \in BOOLEAN, fresh \in BOOLEAN
    PROVE  display_signal' \in BOOLEAN /\ fresh' \in BOOLEAN
BY DEF WakeDisplayIf

LEMMA JobType ==
    ASSUME TypeOK, NEW json \in Texts, StartJob(json)
    PROVE  /\ translation' \in Translations \union {NotTranslated}
           /\ translate_status' \in Statuses
           /\ display_signal' \in BOOLEAN /\ fresh' \in BOOLEAN
           /\ task' \in {"waiting", "connecting"}
           /\ last_json' = json /\ job_lang' \in Languages
           /\ pending_json' = NoText /\ deadline_passed' = FALSE
           /\ failed' \in BOOLEAN
           /\ UNCHANGED <<transcript, deepgram_status, target_lang, cache>>
<1>1. CacheHit(Translation(json, target_lang)) => cache.result \in Translations
  BY DEF TypeOK, CacheHit
<1> QED
  BY <1>1
  DEF TypeOK, StartJob, UpdateTranslation, UpdateTranslateStatus, WakeDisplayIf, Statuses

\* Every step keeps the variables in their types.
LEMMA TypeStep ==
    ASSUME TypeOK, JobHasText, [Next]_vars
    PROVE  TypeOK'
<1> USE DEF TypeOK
<1>1. CASE SessionConnects \/ SessionOpens \/ SessionFailsToOpen \/ SessionCloses
  <2>1. /\ session' \in {"down", "connecting", "streaming"}
        /\ deepgram_status' \in Statuses
        /\ UNCHANGED <<transcript, translation, translate_status, target_lang,
                       translate_signal, translator, display, failed, lost>>
    BY <1>1
    DEF SessionConnects, SessionOpens, SessionFailsToOpen, SessionCloses,
        UpdateDeepgramStatus, Statuses
  <2>2. display_signal' \in BOOLEAN /\ fresh' \in BOOLEAN
    BY <1>1, WakeType
    DEF SessionConnects, SessionOpens, SessionFailsToOpen, SessionCloses, UpdateDeepgramStatus
  <2> QED
    BY <2>1, <2>2 DEF translator
<1>2. ASSUME NEW text \in Texts, FrameArrives(text)
      PROVE  TypeOK'
  <2>1. translate_signal' \in Messages \union {NoMsg} /\ lost' \in BOOLEAN
    <3>1. DgJson(text) \in Messages
      BY DEF Messages
    <3> QED
      BY <1>2, <3>1, SignalType DEF FrameArrives
  <2> QED
    BY <1>2, <2>1 DEF FrameArrives, translator
<1>3. CASE SessionEnds
  <2>1. translate_signal' \in Messages /\ lost' \in BOOLEAN
    BY <1>3, SignalType DEF SessionEnds, Messages
  <2> QED
    BY <1>3, <2>1 DEF SessionEnds, state, translator
<1>4. CASE Touch
  <2>1. translate_signal' \in Messages /\ lost' \in BOOLEAN
    BY <1>4, SignalType DEF Touch, Messages
  <2>2. target_lang' \in Languages
    BY <1>4, TouchStaysInRange DEF Touch
  <2> QED
    BY <1>4, <2>1, <2>2 DEF Touch, translator
<1>5. CASE TakeFirst
  BY <1>5 DEF TakeFirst, StartDebounce, ConsumeSignal, state
<1>6. CASE IgnoreFirst \/ DeadlinePasses \/ TakeNewer
  <2>1. CASE IgnoreFirst
    BY <2>1 DEF IgnoreFirst, ConsumeSignal, state, translator
  <2>2. CASE DeadlinePasses
    BY <2>2 DEF DeadlinePasses, state
  <2>3. CASE TakeNewer
    BY <2>3 DEF TakeNewer, ConsumeSignal, state
  <2> QED
    BY <1>6, <2>1, <2>2, <2>3
<1>7. ASSUME NEW json \in Texts, StartJob(json),
             translate_signal' \in Messages \union {NoMsg},
             UNCHANGED <<session, display, lost>>
      PROVE  TypeOK'
  BY <1>7, JobType
<1>8. CASE TakeNewest
  BY <1>7, <1>8 DEF TakeNewest, ConsumeSignal
<1>9. CASE EndDebounceEarly \/ EndDebounceOnDeadline
  BY <1>7, <1>9 DEF EndDebounceEarly, EndDebounceOnDeadline, ConsumeSignal, JobHasText
<1>10. CASE ConnectFails \/ ConnectSucceeds \/ JobCloses
  <2>1. /\ task' \in {"waiting", "translating"}
        /\ translate_status' \in Statuses
        /\ failed' \in BOOLEAN
        /\ UNCHANGED <<transcript, translation, deepgram_status, target_lang,
                       translate_signal, session, pending_json, deadline_passed,
                       last_json, job_lang, cache, display, lost>>
    BY <1>10 DEF ConnectFails, ConnectSucceeds, JobCloses, UpdateTranslateStatus, Statuses
  <2>2. display_signal' \in BOOLEAN /\ fresh' \in BOOLEAN
    BY <1>10, WakeType DEF ConnectFails, ConnectSucceeds, JobCloses, UpdateTranslateStatus
  <2> QED
    BY <2>1, <2>2
<1>11. CASE AnswerArrives
  <2>1. Translation(last_json, job_lang) \in Translations
    BY <1>11, TranslationType DEF AnswerArrives, JobHasText
  <2> QED
    BY <1>11, <2>1 DEF AnswerArrives, UpdateTranslation, WakeDisplayIf
<1>12. CASE AnswerFails
  BY <1>12 DEF AnswerFails, state
<1>13. CASE DisplayWakes \/ DisplayTimesOut \/ DisplayFlushes
  <2>1. /\ display' \in {"waiting", "flushing"}
        /\ display_signal' \in BOOLEAN /\ fresh' \in BOOLEAN
    BY <1>13 DEF DisplayWakes, DisplayTimesOut, DisplayFlushes, DisplayReads
  <2>2. UNCHANGED <<state, translate_signal, session, translator, failed, lost>>
    BY <1>13 DEF DisplayWakes, DisplayTimesOut, DisplayFlushes, DisplayReads
  <2> QED
    BY <2>1, <2>2 DEF state, translator
<1>14. CASE UNCHANGED vars
  BY <1>14 DEF vars, state, translator
<1> QED
  BY <1>1, <1>2, <1>3, <1>4, <1>5, <1>6, <1>8, <1>9, <1>10, <1>11, <1>12, <1>13, <1>14
  DEF Next, SessionStep, TranslatorStep, TranslatorTakes, DisplayStep

-----------------------------------------------------------------------------
\* A step that changes nothing the tracking invariants are about keeps them.
LEMMA UntouchedKeepsTracking ==
    ASSUME CaptionInv, UNCHANGED <<transcript, translation, target_lang, translate_signal, task,
                                   pending_json, last_json, job_lang, cache, failed, lost>>
    PROVE  TextTracked' /\ LangTracked' /\ CacheRight' /\ JobHasText'
BY DEF CaptionInv, TextTracked, LangTracked, CacheRight, JobHasText, IsDgJson

\* Signalling: only the signal, the newest transcript or the language change.
LEMMA FrameKeepsTracking ==
    ASSUME CaptionInv, NEW text \in Texts, FrameArrives(text)
    PROVE  TextTracked' /\ LangTracked' /\ CacheRight' /\ JobHasText'
<1> USE DEF CaptionInv, FrameArrives, translator
<1>1. CASE text = transcript
  BY <1>1, UntouchedKeepsTracking
<1>2. CASE text # transcript
  <2>1. /\ translate_signal' = DgJson(text)
        /\ IsDgJson(translate_signal')
        /\ translate_signal' \notin {NoMsg, Flush}
    BY <1>2, MessageKinds DEF SignalTranslation
  <2>2. TextTracked' /\ LangTracked'
    BY <2>1 DEF TextTracked, LangTracked
  <2>3. CacheRight' /\ JobHasText'
    BY DEF CacheRight, JobHasText
  <2> QED
    BY <2>2, <2>3
<1> QED
  BY <1>1, <1>2

LEMMA FlushKeepsTracking ==
    ASSUME CaptionInv, SessionEnds
    PROVE  TextTracked' /\ LangTracked' /\ CacheRight' /\ JobHasText'
<1> USE DEF CaptionInv, SessionEnds, state, translator
<1>1. translate_signal' = Flush /\ ~IsDgJson(translate_signal')
  BY MessageKinds DEF SignalTranslation
<1>2. ~lost' => ~lost /\ ~IsDgJson(translate_signal) /\ translate_signal # Retranslate
  BY MessageKinds DEF SignalTranslation, Loses, TypeOK
<1>3. ~lost' => translate_signal \in {NoMsg, Flush}
  BY <1>2, MessageKinds DEF TypeOK
<1>4. TextTracked' /\ LangTracked'
  BY <1>1, <1>2, <1>3 DEF TextTracked, LangTracked
<1>5. CacheRight' /\ JobHasText'
  BY DEF CacheRight, JobHasText
<1> QED
  BY <1>4, <1>5

LEMMA TouchKeepsTracking ==
    ASSUME CaptionInv, Touch
    PROVE  TextTracked' /\ LangTracked' /\ CacheRight' /\ JobHasText'
<1> USE DEF CaptionInv, Touch, translator
<1>1. /\ translate_signal' = Retranslate
      /\ ~IsDgJson(translate_signal')
      /\ translate_signal' \notin {NoMsg, Flush}
  BY MessageKinds DEF SignalTranslation
<1>2. ~lost' => ~lost /\ ~IsDgJson(translate_signal)
  BY MessageKinds DEF SignalTranslation, Loses
<1>3. TextTracked' /\ LangTracked'
  BY <1>1, <1>2 DEF TextTracked, LangTracked
<1>4. CacheRight' /\ JobHasText'
  BY DEF CacheRight, JobHasText
<1> QED
  BY <1>3, <1>4

-----------------------------------------------------------------------------
\* A job that starts with the newest transcript takes the language with it;
\* answered from the cache, the caption is right at once.
LEMMA StartJobKeepsTracking ==
    ASSUME CaptionInv, NEW json \in Texts, StartJob(json),
           ~lost => json = transcript,
           translate_signal' = NoMsg, UNCHANGED lost
    PROVE  TextTracked' /\ LangTracked' /\ CacheRight' /\ JobHasText'
<1> USE DEF CaptionInv
<1>1. /\ task' \in {"waiting", "connecting"}
      /\ last_json' = json /\ job_lang' = target_lang
      /\ UNCHANGED <<transcript, target_lang, cache>>
  BY JobType DEF StartJob
<1>2. task' = "waiting" => translation' = Translation(json, target_lang)
  BY DEF StartJob, CacheHit, CacheRight, UpdateTranslation
<1>3. TextTracked'
  BY <1>1, MessageKinds DEF TextTracked
<1>4. LangTracked'
  BY <1>1, <1>2 DEF LangTracked
<1>5. CacheRight' /\ JobHasText'
  BY <1>1 DEF CacheRight, JobHasText
<1> QED
  BY <1>3, <1>4, <1>5

LEMMA TakeKeepsTracking ==
    ASSUME CaptionInv, TranslatorTakes
    PROVE  TextTracked' /\ LangTracked' /\ CacheRight' /\ JobHasText'
<1> USE DEF CaptionInv
<1>1. CASE TakeFirst
  <2>1. /\ task' = "debouncing" /\ task = "waiting"
        /\ translate_signal' = NoMsg
        /\ UNCHANGED <<transcript, lost, cache, last_json>>
    BY <1>1 DEF TakeFirst, StartDebounce, ConsumeSignal, state
  <2>2. pending_json' \in Texts /\ (~lost => pending_json' = transcript)
    <3>1. CASE \E text \in Texts : translate_signal = DgJson(text) /\ StartDebounce(text)
      BY <3>1, MessageKinds DEF StartDebounce, TextTracked
    <3>2. CASE translate_signal = Retranslate /\ last_json # NoText /\ StartDebounce(last_json)
      BY <3>2, <2>1, MessageKinds DEF StartDebounce, TextTracked, TypeOK
    <3> QED
      BY <1>1, <3>1, <3>2 DEF TakeFirst
  <2> QED
    BY <2>1, <2>2, MessageKinds DEF TextTracked, LangTracked, CacheRight, JobHasText
<1>2. CASE IgnoreFirst
  BY <1>2, MessageKinds
  DEF IgnoreFirst, ConsumeSignal, state, translator, TextTracked, LangTracked,
      CacheRight, JobHasText
<1>3. CASE TakeNewer
  <2>1. /\ task' = "debouncing" /\ translate_signal' = NoMsg
        /\ pending_json' \in Texts /\ pending_json' = transcript
        /\ UNCHANGED <<transcript, cache>>
    BY <1>3, MessageKinds DEF TakeNewer, ConsumeSignal, state, TextTracked
  <2> QED
    BY <2>1, MessageKinds DEF TextTracked, LangTracked, CacheRight, JobHasText
<1>4. CASE TakeNewest
  BY <1>4, StartJobKeepsTracking, MessageKinds DEF TakeNewest, ConsumeSignal, TextTracked
<1>5. CASE EndDebounceEarly
  BY <1>5, StartJobKeepsTracking, MessageKinds
  DEF EndDebounceEarly, ConsumeSignal, TextTracked, JobHasText
<1>6. CASE EndDebounceOnDeadline
  BY <1>6, StartJobKeepsTracking, MessageKinds
  DEF EndDebounceOnDeadline, TextTracked, JobHasText
<1> QED
  BY <1>1, <1>2, <1>3, <1>4, <1>5, <1>6 DEF TranslatorTakes

\* The rest of a job: a failure is recorded, an answer becomes the caption.
LEMMA JobKeepsTracking ==
    ASSUME CaptionInv,
           ConnectFails \/ ConnectSucceeds \/ AnswerArrives \/ AnswerFails \/ JobCloses
    PROVE  TextTracked' /\ LangTracked' /\ CacheRight' /\ JobHasText'
<1> USE DEF CaptionInv
<1>1. /\ UNCHANGED <<transcript, target_lang, translate_signal, last_json, job_lang, lost>>
      /\ task \in {"connecting", "translating", "closing"}
      /\ task' # "debouncing"
  BY DEF ConnectFails, ConnectSucceeds, AnswerArrives, AnswerFails, JobCloses, state
<1>2. TextTracked' /\ JobHasText'
  BY <1>1 DEF TextTracked, JobHasText
<1>3. CacheRight'
  BY DEF ConnectFails, ConnectSucceeds, AnswerArrives, AnswerFails, JobCloses, CacheRight
<1>4. LangTracked'
  BY <1>1
  DEF ConnectFails, ConnectSucceeds, AnswerArrives, AnswerFails, JobCloses, LangTracked,
      UpdateTranslation, state
<1> QED
  BY <1>2, <1>3, <1>4

-----------------------------------------------------------------------------
LEMMA CaptionStep ==
    ASSUME CaptionInv, [Next]_vars
    PROVE  CaptionInv'
<1>1. TypeOK'
  BY TypeStep DEF CaptionInv
<1>2. CASE \/ SessionConnects \/ SessionOpens \/ SessionFailsToOpen \/ SessionCloses
           \/ DeadlinePasses \/ DisplayStep \/ DisplayTimesOut \/ UNCHANGED vars
  <2>1. UNCHANGED <<transcript, translation, target_lang, translate_signal, task,
                    pending_json, last_json, job_lang, cache, failed, lost>>
    BY <1>2
    DEF SessionConnects, SessionOpens, SessionFailsToOpen, SessionCloses, DeadlinePasses,
        DisplayStep, DisplayWakes, DisplayTimesOut, DisplayFlushes, DisplayReads,
        vars, state, translator
  <2> QED
    BY <1>1, <2>1, UntouchedKeepsTracking DEF CaptionInv
<1>3. ASSUME NEW text \in Texts, FrameArrives(text)
      PROVE  CaptionInv'
  BY <1>1, <1>3, FrameKeepsTracking DEF CaptionInv
<1>4. CASE SessionEnds
  BY <1>1, <1>4, FlushKeepsTracking DEF CaptionInv
<1>5. CASE Touch
  BY <1>1, <1>5, TouchKeepsTracking DEF CaptionInv
<1>6. CASE TranslatorTakes
  BY <1>1, <1>6, TakeKeepsTracking DEF CaptionInv
<1>7. CASE ConnectFails \/ ConnectSucceeds \/ AnswerArrives \/ AnswerFails \/ JobCloses
  BY <1>1, <1>7, JobKeepsTracking DEF CaptionInv
<1> QED
  BY <1>2, <1>3, <1>4, <1>5, <1>6, <1>7 DEF Next, SessionStep, TranslatorStep

LEMMA CaptionInvariant == Spec => []CaptionInv
<1>1. Init => CaptionInv
  <2> SUFFICES ASSUME Init
               PROVE  CaptionInv
    OBVIOUS
  <2>1. 0 \in Languages
    BY CaptionsAssumption DEF Languages
  <2>2. TypeOK
    BY <2>1 DEF Init, TypeOK, Statuses
  <2>3. TextTracked /\ LangTracked /\ CacheRight /\ JobHasText
    BY MessageKinds DEF Init, TextTracked, LangTracked, CacheRight, JobHasText
  <2> QED
    BY <2>2, <2>3 DEF CaptionInv
<1> QED
  BY <1>1, CaptionStep, PTL DEF Spec

\* A pipeline that has settled, without a failed job or an overwritten
\* message, shows the newest transcript in the language selected.
THEOREM CaptionIsRight == Spec => []SettledCaption
<1>1. CaptionInv => SettledCaption
  BY MessageKinds DEF CaptionInv, SettledCaption, Settled, TextTracked, LangTracked, TypeOK
<1> QED
  BY <1>1, CaptionInvariant, PTL

-----------------------------------------------------------------------------
\* The variables of the pipeline always have their types.
THEOREM CaptionTypes == Spec => []TypeOK
<1>1. CaptionInv => TypeOK
  BY DEF CaptionInv
<1> QED
  BY <1>1, CaptionInvariant, PTL

\* Without a pending wakeup, the display has read the state as it is, also
\* while it is still flushing what it read.
SignalCoversChange == ~display_signal => fresh

LEMMA WakeCoversChange ==
    ASSUME SignalCoversChange, NEW changed, WakeDisplayIf(changed)
    PROVE  SignalCoversChange'
BY DEF SignalCoversChange, WakeDisplayIf

\* Every change of the state comes with a wakeup, in the same step, that the
\* display consumes only to read the state again.
THEOREM WakeupsAreKept == Spec => []NoLostWakeup
<1>1. Init => SignalCoversChange
  BY DEF Init, SignalCoversChange
<1>2. ASSUME SignalCoversChange, [Next]_vars
      PROVE  SignalCoversChange'
  <2> USE <1>2
  <2>1. CASE SessionConnects \/ SessionOpens \/ SessionFailsToOpen \/ SessionCloses
    BY <2>1, WakeCoversChange
    DEF SessionConnects, SessionOpens, SessionFailsToOpen, SessionCloses, UpdateDeepgramStatus
  <2>2. CASE Touch \/ \E text \in Texts : FrameArrives(text)
    BY <2>2 DEF Touch, FrameArrives, SignalCoversChange
  <2>3. CASE TakeNewest \/ EndDebounceEarly \/ EndDebounceOnDeadline
    BY <2>3, WakeCoversChange
    DEF TakeNewest, EndDebounceEarly, EndDebounceOnDeadline, StartJob,
        UpdateTranslation, UpdateTranslateStatus
  <2>4. CASE ConnectFails \/ ConnectSucceeds \/ AnswerArrives \/ JobCloses
    BY <2>4, WakeCoversChange
    DEF ConnectFails, ConnectSucceeds, AnswerArrives, JobCloses,
        UpdateTranslation, UpdateTranslateStatus
  <2>5. CASE SessionEnds \/ TakeFirst \/ IgnoreFirst \/ TakeNewer \/ DeadlinePasses
             \/ AnswerFails \/ DisplayFlushes \/ UNCHANGED vars
    BY <2>5
    DEF SessionEnds, TakeFirst, IgnoreFirst, TakeNewer, DeadlinePasses, AnswerFails,
        DisplayFlushes, vars, SignalCoversChange
  <2>6. CASE DisplayWakes \/ DisplayTimesOut
    BY <2>6 DEF DisplayWakes, DisplayTimesOut, DisplayReads, SignalCoversChange
  <2> QED
    BY <2>1, <2>2, <2>3, <2>4, <2>5, <2>6
    DEF Next, SessionStep, TranslatorStep, TranslatorTakes, DisplayStep
<1>3. SignalCoversChange => NoLostWakeup
  BY DEF SignalCoversChange, NoLostWakeup
<1> QED
  BY <1>1, <1>2, <1>3, PTL DEF Spec

\* Each path through a job leaves the translate status as the task is.
LEMMA TranslateStatusStep ==
    ASSUME StatusTellsTask, [Next]_vars
    PROVE  StatusTellsTask'
<1> USE DEF StatusTellsTask
<1>1. CASE SessionStep \/ Touch \/ DisplayStep \/ DisplayTimesOut \/ UNCHANGED vars
  BY <1>1
  DEF SessionStep, SessionConnects, SessionOpens, SessionFailsToOpen, FrameArrives,
      SessionEnds, SessionCloses, Touch, DisplayStep, DisplayWakes, DisplayFlushes,
      DisplayTimesOut, DisplayReads, vars, state, translator
<1>2. CASE TakeFirst \/ IgnoreFirst \/ TakeNewer \/ DeadlinePasses
  BY <1>2
  DEF TakeFirst, IgnoreFirst, TakeNewer, DeadlinePasses, StartDebounce, state, translator
<1>3. CASE TakeNewest \/ EndDebounceEarly \/ EndDebounceOnDeadline
  BY <1>3
  DEF TakeNewest, EndDebounceEarly, EndDebounceOnDeadline, StartJob, UpdateTranslateStatus
<1>4. CASE ConnectFails \/ ConnectSucceeds \/ AnswerArrives \/ AnswerFails \/ JobCloses
  BY <1>4
  DEF ConnectFails, ConnectSucceeds, AnswerArrives, AnswerFails, JobCloses,
      UpdateTranslateStatus, state
<1> QED
  BY <1>1, <1>2, <1>3, <1>4 DEF Next, TranslatorStep, TranslatorTakes

\* Each step of a session leaves the Deepgram status as the session is, and no
\* other task touches either.
LEMMA SessionStatusStep ==
    ASSUME StatusTellsSession, [Next]_vars
    PROVE  StatusTellsSession'
<1> USE DEF StatusTellsSession
<1>1. CASE SessionStep
  BY <1>1
  DEF SessionStep, SessionConnects, SessionOpens, SessionFailsToOpen, FrameArrives,
      SessionEnds, SessionCloses, UpdateDeepgramStatus, state
<1>2. CASE Touch \/ DisplayStep \/ DisplayTimesOut \/ UNCHANGED vars
  BY <1>2
  DEF Touch, DisplayStep, DisplayWakes, DisplayFlushes, DisplayTimesOut, DisplayReads, vars, state
<1>3. CASE TakeFirst \/ IgnoreFirst \/ TakeNewer \/ DeadlinePasses
  BY <1>3 DEF TakeFirst, IgnoreFirst, TakeNewer, DeadlinePasses, StartDebounce, state
<1>4. CASE TakeNewest \/ EndDebounceEarly \/ EndDebounceOnDeadline
  BY <1>4
  DEF TakeNewest, EndDebounceEarly, EndDebounceOnDeadline, StartJob, UpdateTranslateStatus
<1>5. CASE ConnectFails \/ ConnectSucceeds \/ AnswerArrives \/ AnswerFails \/ JobCloses
  BY <1>5
  DEF ConnectFails, ConnectSucceeds, AnswerArrives, AnswerFails, JobCloses,
      UpdateTranslateStatus, UpdateTranslation, state
<1> QED
  BY <1>1, <1>2, <1>3, <1>4, <1>5 DEF Next, TranslatorStep, TranslatorTakes

\* Neither status outlives the session or the job it tells of.
THEOREM StatusIsTruthful == Spec => []StatusesTellTasks
<1>1. Init => StatusTellsTask /\ StatusTellsSession
  BY DEF Init, StatusTellsTask, StatusTellsSession
<1> QED
  BY <1>1, TranslateStatusStep, SessionStatusStep, PTL DEF Spec, StatusesTellTasks
=============================================================================
