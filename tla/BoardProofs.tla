----------------------------- MODULE BoardProofs -----------------------------
(***************************************************************************)
(* Proofs about Board for any number of attempts and languages and any     *)
(* coordinates: the WiFi status follows the link whichever of its two      *)
(* writers comes last, a finger turns the language once per zone, and a    *)
(* change that the display has not read is signalled.                      *)
(***************************************************************************)
EXTENDS Board, TLAPS

-----------------------------------------------------------------------------
(* WifiManager *)

\* Nothing brings the link up between two attempts or after the last one, but
\* an association that could not be aborted.
NoLinkBetweenAttempts == connector \in {"delay", "gave_up"} => NoLinkYet

\* wifi_status_task is polled before the radio reports that it has started.
MonitorIsFirst == connector # "starting" => monitor # "boot"

\* Only the status task says Connected, and it then waits for the loss; the
\* last word of the connect task stands until a link is seen.
StatusHasOneMeaning ==
    /\ wifi_status = "Connected" => monitor = "loss"
    /\ connector = "gave_up" =>
          wifi_status = "Error" \/ (abort_failed /\ monitor # "link")

\* The inductive invariant of the WiFi tasks.
WifiInv ==
    /\ TypeOK
    /\ NoLinkBetweenAttempts
    /\ MonitorIsFirst
    /\ StatusHasOneMeaning

-----------------------------------------------------------------------------
(* TouchPanel *)

\* The zone of a finger that was acted on is the active one.
ActedInActiveZone ==
    acted => finger # Lifted /\ active_zone = Panel!Zone(finger)

\* No language is chosen before the controller has started, and an attempt
\* that is to come is one of the attempts.
NothingBeforePolling ==
    /\ touch # "polling" => target_lang = 0
    /\ touch = "retry" => tries < INIT_ATTEMPTS - 1

\* The inductive invariant of the panel.
PanelInv ==
    /\ Panel!PanelTypeOK
    /\ ActedInActiveZone
    /\ NothingBeforePolling

\* The inductive invariant of the board: what is not read is signalled.
BoardInv ==
    /\ WifiInv
    /\ PanelInv
    /\ BoardTypeOK
    /\ fresh \/ display_signal

-----------------------------------------------------------------------------
LEMMA WifiInitially == Init => WifiInv
<1> SUFFICES ASSUME Init
             PROVE  WifiInv
  OBVIOUS
<1>1. attempt \in 0 .. MAX_WIFI_RETRIES
  BY RetriesAssumption DEF Init
<1> QED
  BY <1>1, Zenon
     DEF Init, WifiInv, TypeOK, Statuses, NoLinkBetweenAttempts, NoLinkYet, MonitorIsFirst,
         StatusHasOneMeaning

LEMMA WifiStep ==
    ASSUME WifiInv, [Next]_vars
    PROVE  WifiInv'
<1> USE RetriesAssumption
        DEF WifiInv, TypeOK, Statuses, NoLinkBetweenAttempts, NoLinkYet, MonitorIsFirst,
            StatusHasOneMeaning
<1>1. CASE ConnectorStep
  <2>1. CASE RadioStarts
    BY <2>1 DEF RadioStarts
  <2>2. CASE Associates
    BY <2>2 DEF Associates
  <2>3. CASE AssociationFails
    BY <2>3 DEF AssociationFails
  <2>4. CASE AssociationTimesOut
    BY <2>4 DEF AssociationTimesOut
  <2>5. CASE Configured
    BY <2>5 DEF Configured
  <2>6. CASE DhcpTimesOut
    BY <2>6 DEF DhcpTimesOut
  <2>7. CASE Disconnected
    BY <2>7 DEF Disconnected
  <2>8. CASE NextAttempt
    BY <2>8 DEF NextAttempt
  <2>9. CASE GivesUp
    BY <2>9 DEF GivesUp
  <2>10. CASE DisconnectFails
    BY <2>10 DEF DisconnectFails
  <2> QED
    BY <1>1, <2>1, <2>2, <2>3, <2>4, <2>5, <2>6, <2>7, <2>8, <2>9, <2>10
    DEF ConnectorStep
<1>2. CASE MonitorStep
  BY <1>2 DEF MonitorStep, MonitorStarts, SeesLink, SeesConfig, SeesLoss, Monitor
<1>3. CASE Environment
  BY <1>3 DEF Environment, LinkComesUp, LinkDrops, LeaseGranted, LeaseLost
<1>4. CASE UNCHANGED vars
  BY <1>4 DEF vars
<1> QED
  BY <1>1, <1>2, <1>3, <1>4 DEF Next

-----------------------------------------------------------------------------
\* What may happen to the panel.
PanelNext ==
    \/ Panel!Starting \/ Panel!PollActs \/ Panel!PollRests
    \/ Panel!PollLifted \/ Panel!PollNotReady \/ Panel!FingerMoves

\* Turning stays within the languages, in both directions.
LEMMA CycledInRange ==
    ASSUME NEW lang \in 0 .. NumLanguages - 1, NEW zone \in {"Left", "Right"}
    PROVE  Panel!Cycled(lang, zone) \in 0 .. NumLanguages - 1
<1>1. (lang + 1) % NumLanguages \in 0 .. NumLanguages - 1
  BY PanelAssumption
<1>2. (lang + NumLanguages - 1) % NumLanguages \in 0 .. NumLanguages - 1
  BY PanelAssumption
<1> QED
  BY <1>1, <1>2, Zenon DEF Panel!Cycled

LEMMA ZonesAreNotLifted ==
    ASSUME NEW y
    PROVE  Panel!Zone(y) \in {"Left", "Right"} /\ Panel!Zone(y) # Lifted
<1>1. Panel!Zone(y) = "Left" \/ Panel!Zone(y) = "Right"
  BY Zenon DEF Panel!Zone
<1>2. Lifted # "Left" /\ Lifted # "Right"
  BY LiftedAssumption
<1> QED
  BY <1>1, <1>2, Zenon

LEMMA PanelInitially == Panel!PanelInit => PanelInv
<1> SUFFICES ASSUME Panel!PanelInit
             PROVE  PanelInv
  OBVIOUS
<1>1. tries \in 0 .. INIT_ATTEMPTS - 1 /\ target_lang \in 0 .. NumLanguages - 1
  BY PanelAssumption DEF Panel!PanelInit
<1> QED
  BY <1>1, Zenon
     DEF Panel!PanelInit, PanelInv, Panel!PanelTypeOK, ActedInActiveZone, NothingBeforePolling

LEMMA PanelStep ==
    ASSUME PanelInv, [PanelNext]_panel
    PROVE  PanelInv'
<1> USE DEF PanelInv, Panel!PanelTypeOK, ActedInActiveZone, NothingBeforePolling
<1>1. CASE Panel!Starting
  <2>1. /\ touch' \in {"init", "retry", "polling", "parked"}
        /\ UNCHANGED <<finger, active_zone, target_lang, acted>>
        /\ touch # "polling"
    BY <1>1, Zenon
       DEF Panel!Starting, Panel!InitSucceeds, Panel!InitFails, Panel!InitAgain, Panel!Parks
  <2>2. /\ tries' \in 0 .. INIT_ATTEMPTS - 1
        /\ touch' = "retry" => tries' < INIT_ATTEMPTS - 1
        /\ touch' = "parked" => tries' = INIT_ATTEMPTS - 1
    BY <1>1, PanelAssumption
       DEF Panel!Starting, Panel!InitSucceeds, Panel!InitFails, Panel!InitAgain, Panel!Parks
  <2> QED
    BY <2>1, <2>2, Zenon
<1>2. CASE Panel!PollActs
  BY <1>2, CycledInRange, ZonesAreNotLifted, Zenon DEF Panel!PollActs
<1>3. CASE Panel!PollRests \/ Panel!PollNotReady \/ UNCHANGED panel
  <2>1. /\ touch' = touch /\ tries' = tries /\ finger' = finger
        /\ active_zone' = active_zone /\ target_lang' = target_lang /\ acted' = acted
    BY <1>3 DEF Panel!PollRests, Panel!PollNotReady, Panel!panel, panel
  <2> QED
    BY <2>1, Zenon
<1>4. CASE Panel!PollLifted
  BY <1>4, Zenon DEF Panel!PollLifted
<1>5. CASE Panel!FingerMoves
  BY <1>5, ZonesAreNotLifted, Zenon DEF Panel!FingerMoves, Panel!ZoneOf
<1> QED
  BY <1>1, <1>2, <1>3, <1>4, <1>5 DEF PanelNext

-----------------------------------------------------------------------------
(* The board *)

\* A step of the board is a step of the WiFi tasks or leaves them alone, and a
\* step of the panel or leaves it alone.
LEMMA BoardStepsParts ==
    ASSUME [BoardNext]_allVars
    PROVE  [Next]_vars /\ [PanelNext]_panel
<1>1. CASE Wifi
  BY <1>1 DEF Wifi, Next
<1>2. CASE TouchActs
  BY <1>2 DEF TouchActs, PanelNext
<1>3. CASE TouchWaits
  BY <1>3 DEF TouchWaits, PanelNext
<1>4. CASE Outside
  BY <1>4 DEF Outside, PanelNext, Next
<1>5. CASE DisplayWakes \/ DisplayTimesOut \/ DisplayFlushes \/ UNCHANGED allVars
  BY <1>5 DEF DisplayWakes, DisplayTimesOut, DisplayFlushes, allVars
<1> QED
  BY <1>1, <1>2, <1>3, <1>4, <1>5 DEF BoardNext

\* The display's part: booleans, and a change that is signalled or read.
DisplayPartInv ==
    /\ display_signal \in BOOLEAN
    /\ display \in {"signal", "flush"}
    /\ fresh \in BOOLEAN
    /\ fresh \/ display_signal

LEMMA DisplayPartStep ==
    ASSUME DisplayPartInv, [BoardNext]_allVars
    PROVE  DisplayPartInv'
<1> USE DEF DisplayPartInv
<1>1. CASE Wifi
  BY <1>1, Zenon DEF Wifi, StatusChange
<1>2. CASE TouchActs
  BY <1>2, Zenon DEF TouchActs
<1>3. CASE TouchWaits \/ Outside \/ UNCHANGED allVars
  <2>1. display_signal' = display_signal /\ display' = display /\ fresh' = fresh
    BY <1>3 DEF TouchWaits, Outside, screen, allVars
  <2> QED
    BY <2>1, Zenon
<1>4. CASE DisplayWakes \/ DisplayTimesOut \/ DisplayFlushes
  BY <1>4, Zenon DEF DisplayWakes, DisplayTimesOut, DisplayFlushes
<1> QED
  BY <1>1, <1>2, <1>3, <1>4 DEF BoardNext

LEMMA BoardInvariant == BoardSpec => []BoardInv
<1> DEFINE Inv == WifiInv /\ PanelInv /\ DisplayPartInv
<1>1. BoardInit => Inv
  BY WifiInitially, PanelInitially, Zenon DEF BoardInit, DisplayPartInv
<1>2. Inv /\ [BoardNext]_allVars => Inv'
  BY BoardStepsParts, WifiStep, PanelStep, DisplayPartStep
<1>3. Inv => BoardInv
  BY Zenon DEF WifiInv, PanelInv, DisplayPartInv, BoardInv, BoardTypeOK
<1> QED
  BY <1>1, <1>2, <1>3, PTL DEF BoardSpec

\* The tries and attempts stay within their limits, no address outlives its
\* link, and a controller that never starts never changes the language.
THEOREM BoardTypes == BoardSpec => []BoardTypeOK
<1>1. BoardInv => BoardTypeOK
  BY DEF BoardInv
<1> QED
  BY BoardInvariant, <1>1, PTL

\* The connect task (wifi_connect_task.rs) and the status task
\* (wifi_status_task.rs) both write the status; it never says Connected for a
\* link that the status task has seen go, nor hides that the attempts are over,
\* unless a link that could not be taken down was seen after the last of them.
THEOREM StatusIsOfTheLink == BoardSpec => []StatusFollowsLink
<1>1. BoardInv => StatusFollowsLink
  BY DEF BoardInv, WifiInv, TypeOK, Statuses, NoLinkBetweenAttempts, MonitorIsFirst,
         StatusHasOneMeaning, StatusFollowsLink, MonitorSettled
<1> QED
  BY BoardInvariant, <1>1, PTL

\* What WiFi or touch wrote and the display has not read is signalled
\* (app_state.rs 119-128): the wakeup is there whatever the display awaits.
THEOREM ChangesAreSignalled == BoardSpec => [](fresh \/ display_signal)
<1>1. BoardInv => fresh \/ display_signal
  BY DEF BoardInv
<1> QED
  BY BoardInvariant, <1>1, PTL

-----------------------------------------------------------------------------
\* The zone of a coordinate on the display.
LEMMA ZoneOnDisplay ==
    ASSUME NEW y \in Nat, y < Panel!DISPLAY_WIDTH
    PROVE  Panel!Zone(y) = IF y >= Panel!ZONE_MID_X THEN "Left" ELSE "Right"
<1>1. Panel!DISPLAY_WIDTH = 480 /\ Panel!ZONE_MID_X = 240
  BY DEF Panel!DISPLAY_WIDTH, Panel!ZONE_MID_X
<1>2. Panel!DisplayX(y) = 479 - y
  BY <1>1 DEF Panel!DisplayX
<1>3. Panel!DisplayX(y) < Panel!ZONE_MID_X <=> y >= Panel!ZONE_MID_X
  BY <1>1, <1>2
<1> QED
  BY <1>3, Zenon DEF Panel!Zone

\* touch_task (touch.rs 151) turns the language once for a finger in a zone,
\* and in the direction of its side of the display.
THEOREM FingerActsOnce == BoardSpec => FingerTurnsOnce
<1> DEFINE TurnsOnce ==
       target_lang' # target_lang =>
          /\ ~acted
          /\ finger # Lifted /\ finger < Panel!DISPLAY_WIDTH =>
                target_lang' = Panel!Cycled(target_lang,
                    IF finger >= Panel!ZONE_MID_X THEN "Left" ELSE "Right")
<1>1. BoardInv /\ [BoardNext]_allVars => [TurnsOnce]_panel
  <2> SUFFICES ASSUME BoardInv, [BoardNext]_allVars, target_lang' # target_lang
               PROVE  TurnsOnce
    OBVIOUS
  <2>1. Panel!PollActs
    <3>1. [PanelNext]_panel
      BY BoardStepsParts
    <3> QED
      BY <3>1
         DEF PanelNext, panel, Panel!panel, Panel!Starting, Panel!InitSucceeds, Panel!InitFails,
             Panel!InitAgain, Panel!Parks, Panel!PollRests, Panel!PollLifted,
             Panel!PollNotReady, Panel!FingerMoves
  <2>2. /\ finger # Lifted /\ active_zone # Panel!Zone(finger)
        /\ target_lang' = Panel!Cycled(target_lang, Panel!Zone(finger))
    BY <2>1, Zenon DEF Panel!PollActs
  <2>3. ~acted
    BY <2>2, Zenon DEF BoardInv, PanelInv, ActedInActiveZone
  <2>4. finger \in RawYs
    BY <2>2, Zenon DEF BoardInv, PanelInv, Panel!PanelTypeOK
  <2>5. finger \in Nat
    BY <2>4, CoordinatesAreU16
  <2> QED
    BY <2>2, <2>3, <2>5, ZoneOnDisplay, Zenon
<1>2. BoardSpec => [][TurnsOnce]_panel
  BY BoardInvariant, <1>1, PTL DEF BoardSpec
<1> QED
  BY <1>2 DEF FingerTurnsOnce, Panel!FingerTurnsOnce, panel, Panel!panel
=============================================================================
