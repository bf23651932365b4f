------------------------------- MODULE Captions ------------------------------
(***************************************************************************)
(* From a Deepgram frame to the translated caption on the screen: the      *)
(* shared AppState (app_state.rs), the two "latest wins" signals, the      *)
(* translation task (translation/translation_task.rs, helpers.rs), and the *)
(* events of the tasks that feed it: the Deepgram task's session           *)
(* (bin/main_task.rs, networking/websocket.rs), language touches           *)
(* (elecrow_board/touch.rs) and the display task's reading of the state    *)
(* (rendering/display_task.rs).                                            *)
(*                                                                         *)
(* A transcript is a member of Texts; its JSON frame is identified with    *)
(* the transcript in it, and a frame without one changes nothing.  What    *)
(* the service answers for a text and a language is the pair of the two.   *)
(* Everything a task does between two awaits is one action.                *)
(***************************************************************************)
EXTENDS Naturals

CONSTANTS
    Texts,          \* the transcripts Deepgram may send
    NumLanguages,   \* LANGUAGES.len()
    TouchWorks,     \* FALSE: the touch task is parked, its controller is dead
    NoText,         \* the empty transcript, and "no JSON kept yet"
    NoMsg,          \* the translate signal is empty
    NotTranslated   \* the empty translation, and the empty cache

Languages == 0 .. (NumLanguages - 1)

Translation(text, lang) == [text |-> text, lang |-> lang]
Translations == [text : Texts, lang : Languages]

DgJson(text) == [type |-> "DgJson", text |-> text]
Flush == [type |-> "Flush"]
Retranslate == [type |-> "Retranslate"]
Messages == {DgJson(text) : text \in Texts} \union {Flush, Retranslate}

ASSUME CaptionsAssumption ==
    /\ NumLanguages \in Nat \ {0}
    /\ TouchWorks \in BOOLEAN
    /\ NoText \notin Texts
    /\ NoMsg \notin Messages
    /\ NotTranslated \notin Translations \union [key : Translations, result : Translations]

VARIABLES
    transcript,         \* AppState.transcript
    translation,        \* AppState.translation
    deepgram_status,    \* AppState.deepgram_status
    translate_status,   \* AppState.translate_status
    target_lang,        \* AppState.target_lang_index
    translate_signal,   \* the pending TranscriptMessage, or NoMsg
    display_signal,     \* TRUE: the display task has a wakeup pending
    session,            \* what the Deepgram task is doing
    task,               \* what the translation task awaits
    pending_json,       \* the transcript the debounce loop holds
    deadline_passed,    \* the debounce deadline is over
    last_json,          \* the transcript of the last job, for Retranslate
    job_lang,           \* the language read when the job started
    cache,              \* LAST_TRANSLATION: [key, result], or NotTranslated
    display,            \* what the display task awaits
    fresh,              \* the state has not changed since the display read it
    failed,             \* history: the last translation job failed
    lost                \* history: a message still needed was overwritten

state == <<transcript, translation, deepgram_status, translate_status, target_lang>>
translator == <<task, pending_json, deadline_passed, last_json, job_lang, cache>>
vars == <<state, translate_signal, display_signal, session, translator,
          display, fresh, failed, lost>>

Statuses == {"Idle", "Connecting", "Connected", "Error"}

Init ==
    /\ transcript = NoText
    /\ translation = NotTranslated
    /\ deepgram_status = "Idle"
    /\ translate_status = "Idle"
    /\ target_lang = 0
    /\ translate_signal = NoMsg
    /\ display_signal = FALSE
    /\ session = "down"
    /\ task = "waiting"
    /\ pending_json = NoText
    /\ deadline_passed = FALSE
    /\ last_json = NoText
    /\ job_lang = 0
    /\ cache = NotTranslated
    /\ display = "waiting"
    /\ fresh = TRUE
    /\ failed = FALSE
    /\ lost = FALSE

-----------------------------------------------------------------------------
(* Signals and the updates that wake the display *)

\* The update_* functions report a change and their callers signal on it.
WakeDisplayIf(changed) ==
    /\ display_signal' = (display_signal \/ changed)
    /\ fresh' = (fresh /\ ~changed)

UpdateTranslation(new) ==
    /\ translation' = new
    /\ WakeDisplayIf(new # translation)

UpdateTranslateStatus(new) ==
    /\ translate_status' = new
    /\ WakeDisplayIf(new # translate_status)

UpdateDeepgramStatus(new) ==
    /\ deepgram_status' = new
    /\ WakeDisplayIf(new # deepgram_status)

IsDgJson(msg) == msg \in {DgJson(text) : text \in Texts}

\* A transcript must be translated and a language change acted on; a new
\* transcript does both, a Flush neither, a Retranslate only the latter.
Loses(new, old) ==
    \/ IsDgJson(old) /\ new \in {Flush, Retranslate}
    \/ old = Retranslate /\ new = Flush

\* Signal::signal overwrites what is pending.
SignalTranslation(msg) ==
    /\ translate_signal' = msg
    /\ lost' = (~IsDgJson(msg) /\ (lost \/ Loses(msg, translate_signal)))

-----------------------------------------------------------------------------
(* The Deepgram task *)

\* WiFi is up or RECONNECT_DELAY is over: the task starts to connect.
SessionConnects ==
    /\ session = "down"
    /\ session' = "connecting"
    /\ UpdateDeepgramStatus("Connecting")
    /\ UNCHANGED <<transcript, translation, translate_status, target_lang,
                   translate_signal, translator, display, failed, lost>>

SessionOpens ==
    /\ session = "connecting"
    /\ session' = "streaming"
    /\ UpdateDeepgramStatus("Connected")
    /\ UNCHANGED <<transcript, translation, translate_status, target_lang,
                   translate_signal, translator, display, failed, lost>>

SessionFailsToOpen ==
    /\ session = "connecting"
    /\ session' = "down"
    /\ UpdateDeepgramStatus("Error")
    /\ UNCHANGED <<transcript, translation, translate_status, target_lang,
                   translate_signal, translator, display, failed, lost>>

\* handle_ws_frame on a text frame with a transcript: the display is woken
\* in any case, the translation task only if the transcript is new.
FrameArrives(text) ==
    /\ session = "streaming"
    /\ transcript' = text
    /\ display_signal' = TRUE
    /\ fresh' = (fresh /\ text = transcript)
    /\ IF text # transcript
       THEN SignalTranslation(DgJson(text))
       ELSE UNCHANGED <<translate_signal, lost>>
    /\ UNCHANGED <<translation, deepgram_status, translate_status, target_lang,
                   session, translator, display, failed>>

\* A close frame or an error ends the streaming loop: flush the translation,
\* then close the connection, which is awaited.
SessionEnds ==
    /\ session = "streaming"
    /\ session' = "closing"
    /\ SignalTranslation(Flush)
    /\ UNCHANGED <<state, display_signal, translator, display, fresh, failed>>

SessionCloses ==
    /\ session = "closing"
    /\ session' = "down"
    /\ UpdateDeepgramStatus("Error")
    /\ UNCHANGED <<transcript, translation, translate_status, target_lang,
                   translate_signal, translator, display, failed, lost>>

-----------------------------------------------------------------------------
(* A touch that the touch task acts on: the next or the previous language *)

Touch ==
    /\ TouchWorks
    /\ target_lang' \in {(target_lang + 1) % NumLanguages,
                         (target_lang + NumLanguages - 1) % NumLanguages}
    /\ display_signal' = TRUE
    /\ fresh' = (fresh /\ target_lang' = target_lang)
    /\ SignalTranslation(Retranslate)
    /\ UNCHANGED <<transcript, translation, deepgram_status, translate_status,
                   session, translator, display, failed>>

-----------------------------------------------------------------------------
(* The translation task *)

ConsumeSignal == translate_signal' = NoMsg

\* check_translation_cache: both the text and the language must match.
CacheHit(key) == cache # NotTranslated /\ cache.key = key

\* The end of the debounce loop for the transcript json, up to the next
\* await: keep it, read the language, and answer from the cache or connect.
StartJob(json) ==
    LET key == Translation(json, target_lang) IN
    /\ last_json' = json
    /\ job_lang' = target_lang
    /\ pending_json' = NoText
    /\ deadline_passed' = FALSE
    /\ \/ /\ CacheHit(key)
          /\ UpdateTranslation(cache.result)
          /\ failed' = FALSE
          /\ task' = "waiting"
          /\ UNCHANGED translate_status
       \/ /\ ~CacheHit(key)
          /\ UpdateTranslateStatus("Connecting")
          /\ task' = "connecting"
          /\ UNCHANGED <<translation, failed>>
    /\ UNCHANGED <<transcript, deepgram_status, target_lang, cache>>

\* The debounce starts with json and a deadline 500 ms ahead.
StartDebounce(json) ==
    /\ pending_json' = json
    /\ deadline_passed' = FALSE
    /\ task' = "debouncing"
    /\ UNCHANGED <<last_json, job_lang, cache>>

\* signal.wait() outside the debounce loop returns a transcript or, with a
\* transcript kept from before, a request to translate that one again.
TakeFirst ==
    /\ task = "waiting"
    /\ ConsumeSignal
    /\ \/ \E text \in Texts : translate_signal = DgJson(text) /\ StartDebounce(text)
       \/ translate_signal = Retranslate /\ last_json # NoText /\ StartDebounce(last_json)
    /\ UNCHANGED <<state, display_signal, session, display, fresh, failed, lost>>

\* Mutant: a Retranslate outside the debounce is ignored like a Flush.
IgnoreEveryRetranslate ==
    /\ task = "waiting"
    /\ ConsumeSignal
    /\ translate_signal \in {Flush, Retranslate}
    /\ UNCHANGED <<state, display_signal, session, translator, display, fresh, failed, lost>>

\* A Flush with nothing buffered, or a Retranslate before the first job.
IgnoreFirst ==
    /\ task = "waiting"
    /\ ConsumeSignal
    /\ translate_signal = Flush \/ (translate_signal = Retranslate /\ last_json = NoText)
    /\ UNCHANGED <<state, display_signal, session, translator, display, fresh, failed, lost>>

DeadlinePasses ==
    /\ task = "debouncing"
    /\ ~deadline_passed
    /\ deadline_passed' = TRUE
    /\ UNCHANGED <<state, translate_signal, display_signal, session, task, pending_json,
                   last_json, job_lang, cache, display, fresh, failed, lost>>

\* A newer transcript within the deadline replaces the buffered one; the
\* deadline stays where it is.
TakeNewer ==
    /\ task = "debouncing"
    /\ ~deadline_passed
    /\ \E text \in Texts : translate_signal = DgJson(text) /\ pending_json' = text
    /\ ConsumeSignal
    /\ UNCHANGED <<state, display_signal, session, task, deadline_passed, last_json,
                   job_lang, cache, display, fresh, failed, lost>>

\* Mutant: a newer transcript restarts the debounce.
NewestRestartsDeadline ==
    /\ task = "debouncing"
    /\ deadline_passed
    /\ \E text \in Texts : translate_signal = DgJson(text) /\ StartDebounce(text)
    /\ ConsumeSignal
    /\ UNCHANGED <<state, display_signal, fresh, failed, session, display, lost>>

\* The signal is polled before the timer: a transcript that is there when the
\* deadline has passed is still taken, and then the loop ends.
TakeNewest ==
    /\ task = "debouncing"
    /\ deadline_passed
    /\ \E text \in Texts : translate_signal = DgJson(text) /\ StartJob(text)
    /\ ConsumeSignal
    /\ UNCHANGED <<session, display, lost>>

\* Flush and Retranslate end the debounce at once.
EndDebounceEarly ==
    /\ task = "debouncing"
    /\ translate_signal \in {Flush, Retranslate}
    /\ StartJob(pending_json)
    /\ ConsumeSignal
    /\ UNCHANGED <<session, display, lost>>

EndDebounceOnDeadline ==
    /\ task = "debouncing"
    /\ deadline_passed
    /\ translate_signal = NoMsg
    /\ StartJob(pending_json)
    /\ UNCHANGED <<translate_signal, session, display, lost>>

ConnectFails ==
    /\ task = "connecting"
    /\ task' = "waiting"
    /\ UpdateTranslateStatus("Error")
    /\ failed' = TRUE
    /\ UNCHANGED <<transcript, translation, deepgram_status, target_lang,
                   translate_signal, session, pending_json, deadline_passed,
                   last_json, job_lang, cache, display, lost>>

ConnectSucceeds ==
    /\ task = "connecting"
    /\ task' = "translating"
    /\ UpdateTranslateStatus("Connected")
    /\ UNCHANGED <<transcript, translation, deepgram_status, target_lang,
                   translate_signal, session, pending_json, deadline_passed,
                   last_json, job_lang, cache, display, failed, lost>>

\* Mutant: the answer is cached under the language selected when it comes.
AnswerCachedUnderNewLanguage ==
    LET key == Translation(last_json, target_lang) IN
    /\ task = "translating"
    /\ task' = "closing"
    /\ cache' = [key |-> key, result |-> Translation(last_json, job_lang)]
    /\ UpdateTranslation(Translation(last_json, job_lang))
    /\ failed' = FALSE
    /\ UNCHANGED <<transcript, deepgram_status, translate_status, target_lang,
                   translate_signal, session, pending_json, deadline_passed,
                   last_json, job_lang, display, lost>>

\* translate_response, Ok: the result goes to the cache under the text and
\* the language the job was started with, then to the state.
AnswerArrives ==
    LET key == Translation(last_json, job_lang) IN
    /\ task = "translating"
    /\ task' = "closing"
    /\ cache' = [key |-> key, result |-> Translation(last_json, job_lang)]
    /\ UpdateTranslation(Translation(last_json, job_lang))
    /\ failed' = FALSE
    /\ UNCHANGED <<transcript, deepgram_status, translate_status, target_lang,
                   translate_signal, session, pending_json, deadline_passed,
                   last_json, job_lang, display, lost>>

\* Mutant: a failed request returns without closing and without a status.
AnswerErrorReturnsEarly ==
    /\ task = "translating"
    /\ task' = "waiting"
    /\ failed' = TRUE
    /\ UNCHANGED <<state, translate_signal, display_signal, session, pending_json,
                   deadline_passed, last_json, job_lang, cache, display, fresh, lost>>

\* translate_response, Err: logged, and nothing else.
AnswerFails ==
    /\ task = "translating"
    /\ task' = "closing"
    /\ failed' = TRUE
    /\ UNCHANGED <<state, translate_signal, display_signal, session, pending_json,
                   deadline_passed, last_json, job_lang, cache, display, fresh, lost>>

\* conn.close() has returned.
JobCloses ==
    /\ task = "closing"
    /\ task' = "waiting"
    /\ UpdateTranslateStatus("Idle")
    /\ UNCHANGED <<transcript, translation, deepgram_status, target_lang,
                   translate_signal, session, pending_json, deadline_passed,
                   last_json, job_lang, cache, display, failed, lost>>

-----------------------------------------------------------------------------
(* The display task: wait, read the state, draw, flush (awaited) *)

DisplayReads ==
    /\ fresh' = TRUE
    /\ display' = "flushing"
    /\ UNCHANGED <<state, translate_signal, session, translator, failed, lost>>

DisplayWakes ==
    /\ display = "waiting"
    /\ display_signal
    /\ display_signal' = FALSE
    /\ DisplayReads

\* With an animation or the language overlay on screen the wait has a
\* timeout, so the task may also look at the state without a signal.
DisplayTimesOut ==
    /\ display = "waiting"
    /\ ~display_signal
    /\ UNCHANGED display_signal
    /\ DisplayReads

\* Mutant: the wakeup is reset after drawing instead of before reading.
ResetSignalAfterFlush ==
    /\ display = "flushing"
    /\ display' = "waiting"
    /\ display_signal' = FALSE
    /\ UNCHANGED <<state, translate_signal, session, translator, fresh, failed, lost>>

DisplayFlushes ==
    /\ display = "flushing"
    /\ display' = "waiting"
    /\ UNCHANGED <<state, translate_signal, display_signal, session, translator,
                   fresh, failed, lost>>

-----------------------------------------------------------------------------
SessionStep ==
    \/ SessionConnects \/ SessionOpens \/ SessionFailsToOpen
    \/ \E text \in Texts : FrameArrives(text)
    \/ SessionEnds \/ SessionCloses

TranslatorTakes ==
    TakeFirst \/ IgnoreFirst \/ TakeNewer \/ TakeNewest \/ EndDebounceEarly \/ EndDebounceOnDeadline

TranslatorStep ==
    \/ TranslatorTakes
    \/ ConnectFails \/ ConnectSucceeds \/ AnswerArrives \/ AnswerFails \/ JobCloses

DisplayStep == DisplayWakes \/ DisplayFlushes

Next ==
    \/ SessionStep \/ Touch
    \/ TranslatorStep \/ DeadlinePasses
    \/ DisplayStep \/ DisplayTimesOut

\* The executor polls every task that is ready, timers fire, and every wait
\* for the network ends in an answer or a timeout.  Nothing is assumed of
\* Deepgram, of touches or of the display's own timeouts.
Fairness ==
    /\ WF_vars(TranslatorStep)
    /\ WF_vars(DeadlinePasses)
    /\ WF_vars(DisplayStep)

Spec == Init /\ [][Next]_vars

FairSpec == Spec /\ Fairness

-----------------------------------------------------------------------------
\* The type invariant of the caption pipeline.
TypeOK ==
    /\ transcript \in Texts \union {NoText}
    /\ translation \in Translations \union {NotTranslated}
    /\ deepgram_status \in Statuses
    /\ translate_status \in Statuses
    /\ target_lang \in Languages
    /\ translate_signal \in Messages \union {NoMsg}
    /\ display_signal \in BOOLEAN
    /\ session \in {"down", "connecting", "streaming", "closing"}
    /\ task \in {"waiting", "debouncing", "connecting", "translating", "closing"}
    /\ pending_json \in Texts \union {NoText}
    /\ deadline_passed \in BOOLEAN
    /\ last_json \in Texts \union {NoText}
    /\ job_lang \in Languages
    /\ cache \in [key : Translations, result : Translations] \union {NotTranslated}
    /\ display \in {"waiting", "flushing"}
    /\ fresh \in BOOLEAN
    /\ failed \in BOOLEAN
    /\ lost \in BOOLEAN

\* Nothing is left to do for the translation task.
Settled == task = "waiting" /\ translate_signal = NoMsg

\* When the pipeline has settled, the caption is the translation of the newest
\* transcript into the language now selected, unless the last job failed or a
\* message was overwritten.  In particular a language touched while a job
\* runs, a cache hit or a debounced partial never leaves an old caption.
SettledCaption ==
    Settled /\ transcript # NoText /\ ~failed /\ ~lost
        => translation = Translation(transcript, target_lang)

\* A display task that sleeps without a wakeup pending has read the state as
\* it is: no update between its read and its next wait goes unseen.
NoLostWakeup == display = "waiting" /\ ~display_signal => fresh

\* The small translate status on screen tells what the task does: every path
\* out of a job, the failing ones included, takes the status back.
StatusTellsTask ==
    /\ task \in {"waiting", "debouncing"} => translate_status \in {"Idle", "Error"}
    /\ task = "connecting" => translate_status = "Connecting"
    /\ task \in {"translating", "closing"} => translate_status = "Connected"

\* The Deepgram status follows the session: Error from the end of one session
\* or attempt to the start of the next, Connected only with an open session.
StatusTellsSession ==
    /\ session = "down" => deepgram_status \in {"Idle", "Error"}
    /\ session = "connecting" => deepgram_status = "Connecting"
    /\ session \in {"streaming", "closing"} => deepgram_status = "Connected"

\* Neither status on screen outlives what it tells of, in whatever order the
\* sessions and jobs begin, fail and end (bin/main_task.rs 60-198,
\* translation/translation_task.rs 99-130).
StatusesTellTasks == StatusTellsTask /\ StatusTellsSession

\* The debounce ends by its deadline even if new transcripts never cease.
DebounceEnds == task = "debouncing" ~> task # "debouncing"

\* Once transcript and language stay as they are, the caption becomes their
\* translation and stays it, whatever sessions come and go, unless the job
\* for it failed or its message was overwritten.
CaptionConverges ==
    \A text \in Texts, lang \in Languages :
        <>[](transcript = text /\ target_lang = lang)
            => <>[](translation = Translation(text, lang) \/ failed \/ lost)

\* main_task.rs:186, "Flush translation so partial transcripts aren't stuck":
\* with no touches, a settled pipeline has translated the newest transcript.
PartialsNotStuck ==
    Settled /\ transcript # NoText /\ ~failed
        => translation # NotTranslated /\ translation.text = transcript
=============================================================================
