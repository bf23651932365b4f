------------------------------ MODULE TouchPanel -----------------------------
(***************************************************************************)
(* touch_task (elecrow_board/touch.rs): start the GT911 controller in a    *)
(* few attempts, then poll it every 20 ms and change the target language   *)
(* when a finger comes to a zone of the display.                           *)
(*                                                                         *)
(* The controller is external: "finger" is what it would report, the raw   *)
(* y coordinate of a touch or Lifted.  It need not have a report ready     *)
(* when it is polled.  A poll and what it causes is one step: what the     *)
(* controller reports cannot change between its answer and the zone test.  *)
(***************************************************************************)
EXTENDS Integers

CONSTANTS
    RawYs,          \* the y coordinates a finger may have
    NumLanguages,   \* LANGUAGES.len()
    INIT_ATTEMPTS,  \* the attempts at starting the controller
    Lifted          \* no finger; also no active zone

DISPLAY_WIDTH == 480
ZONE_MID_X == DISPLAY_WIDTH \div 2

VARIABLES
    touch,          \* "init", "retry", "polling", or "parked" for good
    tries,          \* the loop variable of the initialisation
    finger,         \* what the controller senses
    active_zone,    \* the zone last acted on, Lifted after a lift was seen
    target_lang,    \* AppState.target_lang_index
    acted           \* history: the language changed since the finger came to
                    \* the zone it is in

panel == <<touch, tries, finger, active_zone, target_lang, acted>>

PanelInit ==
    /\ touch = "init"
    /\ tries = 0
    /\ finger = Lifted
    /\ active_zone = Lifted
    /\ target_lang = 0
    /\ acted = FALSE

-----------------------------------------------------------------------------
\* u16 subtraction; in the release build it wraps below 0.
DisplayX(y) == (DISPLAY_WIDTH - 1 - y) % 65536

Zone(y) == IF DisplayX(y) < ZONE_MID_X THEN "Left" ELSE "Right"

ZoneOf(f) == IF f = Lifted THEN Lifted ELSE Zone(f)

\* cycle_target_lang.
Cycled(lang, zone) ==
    IF zone = "Right" THEN (lang + 1) % NumLanguages
    ELSE (lang + NumLanguages - 1) % NumLanguages

-----------------------------------------------------------------------------
(* Starting the controller *)

InitSucceeds ==
    /\ touch = "init"
    /\ touch' = "polling"
    /\ UNCHANGED <<tries, finger, active_zone, target_lang, acted>>

\* It fails with attempts left: 100 ms later the next one begins.
InitFails ==
    /\ touch = "init"
    /\ tries < INIT_ATTEMPTS - 1
    /\ touch' = "retry"
    /\ UNCHANGED <<tries, finger, active_zone, target_lang, acted>>

InitAgain ==
    /\ touch = "retry"
    /\ touch' = "init"
    /\ tries' = tries + 1
    /\ UNCHANGED <<finger, active_zone, target_lang, acted>>

\* The last failure: the task sleeps for ever.
Parks ==
    /\ touch = "init"
    /\ tries = INIT_ATTEMPTS - 1
    /\ touch' = "parked"
    /\ UNCHANGED <<tries, finger, active_zone, target_lang, acted>>

-----------------------------------------------------------------------------
(* Polling *)

\* A report of a finger in another zone than the last one acted on.
PollActs ==
    /\ touch = "polling"
    /\ finger # Lifted
    /\ active_zone # Zone(finger)
    /\ active_zone' = Zone(finger)
    /\ target_lang' = Cycled(target_lang, Zone(finger))
    /\ acted' = TRUE
    /\ UNCHANGED <<touch, tries, finger>>

\* A report of a finger still in that zone.
PollRests ==
    /\ touch = "polling"
    /\ finger # Lifted
    /\ active_zone = Zone(finger)
    /\ UNCHANGED panel

\* Mutant: a lift does not reset the zone.
LiftIgnored ==
    /\ touch = "polling"
    /\ finger = Lifted
    /\ UNCHANGED panel

PollLifted ==
    /\ touch = "polling"
    /\ finger = Lifted
    /\ active_zone' = Lifted
    /\ UNCHANGED <<touch, tries, finger, target_lang, acted>>

\* Mutant: a poll without a report counts as a lift.
NotReadyIsALift ==
    /\ touch = "polling"
    /\ active_zone' = Lifted
    /\ UNCHANGED <<touch, tries, finger, target_lang, acted>>

\* Err(NotReady): nothing new since the last poll.
PollNotReady ==
    /\ touch = "polling"
    /\ UNCHANGED panel

-----------------------------------------------------------------------------
\* A finger comes, moves or is lifted, between polls.
FingerMoves ==
    /\ finger' \in RawYs \union {Lifted}
    /\ finger' # finger
    /\ acted' = (acted /\ ZoneOf(finger') = ZoneOf(finger))
    /\ UNCHANGED <<touch, tries, active_zone, target_lang>>

Starting == InitSucceeds \/ InitFails \/ InitAgain \/ Parks

\* A poll with a report.
Reports == PollActs \/ PollRests \/ PollLifted

-----------------------------------------------------------------------------
\* The type invariant of the panel.
PanelTypeOK ==
    /\ touch \in {"init", "retry", "polling", "parked"}
    /\ tries \in 0 .. INIT_ATTEMPTS - 1
    /\ finger \in RawYs \union {Lifted}
    /\ active_zone \in {"Left", "Right", Lifted}
    /\ target_lang \in 0 .. NumLanguages - 1
    /\ acted \in BOOLEAN
    /\ touch = "parked" => tries = INIT_ATTEMPTS - 1 /\ target_lang = 0

\* touch.rs 151: "Only act on initial contact or when sliding into the other
\* zone."  A finger that stays in a zone turns the language once, however often
\* it is reported and however many polls find no report: back on the left of
\* the display and forward on its right, up to the edges and at the middle,
\* for every coordinate on the panel (a larger one wraps: on the left edge it
\* would turn the wrong way).
FingerTurnsOnce ==
    [][target_lang' # target_lang =>
        /\ ~acted
        /\ finger # Lifted /\ finger < DISPLAY_WIDTH =>
              target_lang' = Cycled(target_lang,
                  IF finger >= ZONE_MID_X THEN "Left" ELSE "Right")]_panel

\* A finger that comes to rest, or is lifted for good, is noticed: the zone
\* acted on last is the one it is in.
FingerIsNoticed ==
    <>[][UNCHANGED finger]_panel =>
        <>[](touch = "parked" \/ active_zone = ZoneOf(finger))
=============================================================================
