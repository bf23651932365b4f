-------------------------------- MODULE Board --------------------------------
(***************************************************************************)
(* The tasks of the board that write AppState, the WiFi tasks of           *)
(* WifiManager and the touch task of TouchPanel, with the display task     *)
(* that they wake through one signal (app_state.rs, display_task.rs).      *)
(* All run on core 0; a step is what one of them does between two awaits.  *)
(***************************************************************************)
EXTENDS WifiManager, Integers

CONSTANTS RawYs, NumLanguages, INIT_ATTEMPTS, Lifted

ASSUME CoordinatesAreU16 == \A y \in RawYs : y \in Nat /\ y < 65536

ASSUME PanelAssumption ==
    /\ NumLanguages \in Nat \ {0}
    /\ INIT_ATTEMPTS \in Nat \ {0}

ASSUME LiftedAssumption == Lifted \notin RawYs /\ Lifted \notin {"Left", "Right"}

VARIABLES
    touch, tries, finger, active_zone, target_lang, acted,
    display_signal,     \* the display task has a wakeup pending
    display,            \* what the display task awaits: "signal" or "flush"
    fresh               \* the status and language have not changed since it
                        \* read them, or since the start

Panel == INSTANCE TouchPanel

panel == <<touch, tries, finger, active_zone, target_lang, acted>>
screen == <<display_signal, display, fresh>>
allVars == <<vars, panel, screen>>

BoardInit ==
    /\ Init
    /\ Panel!PanelInit
    /\ display_signal = FALSE
    /\ display = "flush"
    /\ fresh = TRUE

-----------------------------------------------------------------------------
\* Mutant: only the change to Connected is signalled.
SignalsConnectedOnly ==
    /\ display_signal' = (display_signal \/ (wifi_status' # wifi_status /\ wifi_status' = "Connected"))
    /\ fresh' = (fresh /\ wifi_status' = wifi_status)
    /\ UNCHANGED display

\* update_wifi_status reports a change, and the WiFi tasks signal it.
StatusChange ==
    /\ display_signal' = (display_signal \/ wifi_status' # wifi_status)
    /\ fresh' = (fresh /\ wifi_status' = wifi_status)
    /\ UNCHANGED display

Wifi ==
    /\ ConnectorStep \/ MonitorStep
    /\ StatusChange
    /\ UNCHANGED panel

\* A touch that is acted on always signals.
TouchActs ==
    /\ Panel!PollActs
    /\ display_signal' = TRUE
    /\ fresh' = (fresh /\ target_lang' = target_lang)
    /\ UNCHANGED <<vars, display>>

TouchWaits ==
    /\ Panel!Starting \/ Panel!PollRests \/ Panel!PollLifted \/ Panel!PollNotReady
    /\ UNCHANGED <<vars, screen>>

Outside ==
    \/ Environment /\ UNCHANGED <<panel, screen>>
    \/ Panel!FingerMoves /\ UNCHANGED <<vars, screen>>

-----------------------------------------------------------------------------
\* The display task takes the signal, reads the state and draws it.
DisplayWakes ==
    /\ display = "signal"
    /\ display_signal
    /\ display_signal' = FALSE
    /\ fresh' = TRUE
    /\ display' = "flush"
    /\ UNCHANGED <<vars, panel>>

\* with_timeout: an animation frame or the end of the overlay comes first, and
\* the task reads the state without a signal.
DisplayTimesOut ==
    /\ display = "signal"
    /\ fresh' = TRUE
    /\ display' = "flush"
    /\ UNCHANGED <<display_signal, vars, panel>>

\* It has flushed what it drew, and waits for the signal again.
DisplayFlushes ==
    /\ display = "flush"
    /\ display' = "signal"
    /\ UNCHANGED <<display_signal, fresh, vars, panel>>

BoardNext == Wifi \/ TouchActs \/ TouchWaits \/ Outside
             \/ DisplayWakes \/ DisplayTimesOut \/ DisplayFlushes

BoardSpec == BoardInit /\ [][BoardNext]_allVars

TouchStarts == Panel!Starting /\ UNCHANGED <<vars, screen>>
TouchReports == TouchActs \/ (Panel!PollLifted /\ UNCHANGED <<vars, screen>>)

\* Tasks are polled when they are woken and their timers fire; the display is
\* given no timeout to count on.  Strong fairness of TouchReports: a controller
\* that senses a change has a report ready at some later poll.  The radio's
\* start_async and disconnect_async, which have no timeout, return.  Nothing
\* is assumed of the access point, of DHCP or of the finger.
FairBoardSpec ==
    /\ BoardSpec
    /\ WF_allVars(ConnectorStep /\ StatusChange /\ UNCHANGED panel)
    /\ WF_allVars(MonitorStep /\ StatusChange /\ UNCHANGED panel)
    /\ WF_allVars(TouchStarts)
    /\ SF_allVars(TouchReports)
    /\ WF_allVars(DisplayWakes \/ DisplayFlushes)

-----------------------------------------------------------------------------
\* The type invariant of the composition.
BoardTypeOK ==
    /\ TypeOK
    /\ Panel!PanelTypeOK
    /\ display_signal \in BOOLEAN
    /\ display \in {"signal", "flush"}
    /\ fresh \in BOOLEAN

\* A change made while the display task draws or flushes, when it does not wait
\* for the signal, is not lost (Signal keeps one): whatever WiFi and touch write
\* is read by the display in the end, with no timeout to help (app_state.rs
\* 119-128, touch.rs 167).
ChangesAreShown == ~fresh ~> fresh

\* touch.rs 151: a finger that stays in a zone turns the language once, back on
\* the left half of the display and forward on the right.
FingerTurnsOnce == Panel!FingerTurnsOnce

\* A finger that comes to rest, or is lifted for good, is noticed.
FingerIsNoticed == Panel!FingerIsNoticed
=============================================================================
