----------------------------- MODULE WifiManager -----------------------------
(***************************************************************************)
(* The WiFi tasks (elecrow_board/wifi): wifi_connect_task associates and   *)
(* waits for DHCP, with timeouts and a bounded number of attempts, and     *)
(* then returns; wifi_status_task follows the network stack and publishes  *)
(* wifi_status.  Both write that status, neither knows of the other.       *)
(*                                                                         *)
(* The radio and the network stack are external: "link" is the association *)
(* with the access point as the stack sees it, "config" the address that   *)
(* DHCP gave.  A lost link takes the address with it.  The Result of       *)
(* disconnect_async is discarded: abort_failed, an auxiliary variable that *)
(* the code does not have, says that the last one was an error, so that an *)
(* association or its link may have outlived the attempt it belongs to.    *)
(***************************************************************************)
EXTENDS Naturals

CONSTANT MAX_WIFI_RETRIES

ASSUME RetriesAssumption == MAX_WIFI_RETRIES \in Nat \ {0}

VARIABLES
    connector,      \* where wifi_connect_task is
    attempt,        \* its loop variable; 0 before the loop
    monitor,        \* what wifi_status_task waits for
    wifi_status,    \* AppState.wifi_status
    link,           \* the stack's link is up
    config,         \* the stack has an address
    abort_failed    \* the last disconnect_async returned an error

vars == <<connector, attempt, monitor, wifi_status, link, config, abort_failed>>

Statuses == {"Idle", "Connecting", "Connected", "Error"}

Init ==
    /\ connector = "starting"
    /\ attempt = 0
    /\ monitor = "boot"
    /\ wifi_status = "Idle"
    /\ link = FALSE
    /\ config = FALSE
    /\ abort_failed = FALSE

-----------------------------------------------------------------------------
(* wifi_connect_task *)

\* The radio has started.  It reports so by an event, which comes after every
\* task spawned by init has been polled once.
RadioStarts ==
    /\ connector = "starting"
    /\ monitor # "boot"
    /\ connector' = "associating"
    /\ attempt' = 1
    /\ UNCHANGED <<monitor, wifi_status, link, config, abort_failed>>

\* connect_async returns Ok: the task waits for DHCP.  There is no association
\* but this one then.
Associates ==
    /\ connector = "associating"
    /\ link
    /\ connector' = "dhcp"
    /\ abort_failed' = FALSE
    /\ UNCHANGED <<attempt, monitor, wifi_status, link, config>>

\* A link that is up is one of an earlier attempt: connect_async need not
\* return Ok for it.
NoLinkYet == ~link \/ abort_failed

\* connect_async returns an error: RETRY_DELAY, without a disconnect.
AssociationFails ==
    /\ connector = "associating"
    /\ NoLinkYet
    /\ connector' = "delay"
    /\ UNCHANGED <<attempt, monitor, wifi_status, link, config, abort_failed>>

\* WIFI_CONNECT_TIMEOUT passes: the pending association is aborted.
AssociationTimesOut ==
    /\ connector = "associating"
    /\ NoLinkYet
    /\ connector' = "disconnecting"
    /\ UNCHANGED <<attempt, monitor, wifi_status, link, config, abort_failed>>

\* wait_config_up returns: the task is done, for good.
Configured ==
    /\ connector = "dhcp"
    /\ config
    /\ connector' = "done"
    /\ UNCHANGED <<attempt, monitor, wifi_status, link, config, abort_failed>>

\* Mutant: the wait for DHCP ends only when the link drops.
DhcpWaitWithoutTimeout ==
    /\ connector = "dhcp"
    /\ ~link
    /\ connector' = "disconnecting"
    /\ UNCHANGED <<attempt, monitor, wifi_status, link, config, abort_failed>>

\* DHCP_TIMEOUT passes.
DhcpTimesOut ==
    /\ connector = "dhcp"
    /\ ~config
    /\ connector' = "disconnecting"
    /\ UNCHANGED <<attempt, monitor, wifi_status, link, config, abort_failed>>

\* disconnect_async returns Ok: the link is down, whatever came up meanwhile.
Disconnected ==
    /\ connector = "disconnecting"
    /\ link' = FALSE
    /\ config' = FALSE
    /\ abort_failed' = FALSE
    /\ connector' = "delay"
    /\ UNCHANGED <<attempt, monitor, wifi_status>>

\* disconnect_async returns an error, which the task ignores: it goes on as if
\* the attempt were over, and the association and its link stay as they are.
DisconnectFails ==
    /\ connector = "disconnecting"
    /\ abort_failed' = TRUE
    /\ connector' = "delay"
    /\ UNCHANGED <<attempt, monitor, wifi_status, link, config>>

\* Mutant: one attempt more than MAX_WIFI_RETRIES.
OneAttemptMore ==
    /\ connector = "delay"
    /\ attempt <= MAX_WIFI_RETRIES
    /\ attempt' = attempt + 1
    /\ connector' = "associating"
    /\ UNCHANGED <<monitor, wifi_status, link, config, abort_failed>>

\* RETRY_DELAY passes and there is an attempt left.
NextAttempt ==
    /\ connector = "delay"
    /\ attempt < MAX_WIFI_RETRIES
    /\ attempt' = attempt + 1
    /\ connector' = "associating"
    /\ UNCHANGED <<monitor, wifi_status, link, config, abort_failed>>

\* Mutant: the last failure is logged and not published.
GivesUpSilently ==
    /\ connector = "delay"
    /\ attempt = MAX_WIFI_RETRIES
    /\ connector' = "gave_up"
    /\ UNCHANGED <<attempt, monitor, wifi_status, link, config, abort_failed>>

\* It was the last one: the status is Error, and the task returns.
GivesUp ==
    /\ connector = "delay"
    /\ attempt = MAX_WIFI_RETRIES
    /\ connector' = "gave_up"
    /\ wifi_status' = "Error"
    /\ UNCHANGED <<attempt, monitor, link, config, abort_failed>>

-----------------------------------------------------------------------------
(* wifi_status_task *)

Monitor(from, to, status) ==
    /\ monitor = from
    /\ monitor' = to
    /\ wifi_status' = status
    /\ UNCHANGED <<connector, attempt, link, config, abort_failed>>

MonitorStarts == Monitor("boot", "link", "Connecting")

SeesLink == link /\ Monitor("link", "config", "Connecting")

SeesConfig == config /\ Monitor("config", "loss", "Connected")

SeesLoss == ~link /\ Monitor("loss", "link", "Error")

-----------------------------------------------------------------------------
(* The access point and the DHCP server *)

\* The access point accepts: while connect_async runs, while it is aborted, or
\* at any time after that failed.
LinkComesUp ==
    /\ connector \in {"associating", "disconnecting"} \/ abort_failed
    /\ ~link
    /\ link' = TRUE
    /\ UNCHANGED <<connector, attempt, monitor, wifi_status, config, abort_failed>>

LinkDrops ==
    /\ link
    /\ link' = FALSE
    /\ config' = FALSE
    /\ UNCHANGED <<connector, attempt, monitor, wifi_status, abort_failed>>

LeaseGranted ==
    /\ link /\ ~config
    /\ config' = TRUE
    /\ UNCHANGED <<connector, attempt, monitor, wifi_status, link, abort_failed>>

\* The lease is refused at its renewal: the stack drops the address.
LeaseLost ==
    /\ config
    /\ config' = FALSE
    /\ UNCHANGED <<connector, attempt, monitor, wifi_status, link, abort_failed>>

-----------------------------------------------------------------------------
ConnectorStep ==
    \/ RadioStarts
    \/ Associates \/ AssociationFails \/ AssociationTimesOut
    \/ Configured \/ DhcpTimesOut
    \/ Disconnected \/ DisconnectFails \/ NextAttempt \/ GivesUp

MonitorStep == MonitorStarts \/ SeesLink \/ SeesConfig \/ SeesLoss

Environment == LinkComesUp \/ LinkDrops \/ LeaseGranted \/ LeaseLost

Next == ConnectorStep \/ MonitorStep \/ Environment

Spec == Init /\ [][Next]_vars

\* Each task is polled when it is woken, its timers fire, and the calls of the
\* radio that have no timeout (start_async, disconnect_async) return; nothing
\* is assumed of the access point or of DHCP.
FairSpec == Spec /\ WF_vars(ConnectorStep) /\ WF_vars(MonitorStep)

-----------------------------------------------------------------------------
\* The type invariant: there is no address without a link, and attempts count
\* from 1 to MAX_WIFI_RETRIES once the loop has begun.
TypeOK ==
    /\ connector \in {"starting", "associating", "dhcp", "disconnecting", "delay",
                      "done", "gave_up"}
    /\ attempt \in 0 .. MAX_WIFI_RETRIES
    /\ attempt = 0 <=> connector = "starting"
    /\ monitor \in {"boot", "link", "config", "loss"}
    /\ wifi_status \in Statuses
    /\ link \in BOOLEAN
    /\ config \in BOOLEAN
    /\ config => link
    /\ abort_failed \in BOOLEAN

\* The status task has nothing to do: what it waits for is not so.
MonitorSettled ==
    \/ monitor = "link" /\ ~link
    \/ monitor = "config" /\ ~config
    \/ monitor = "loss" /\ link

\* Two tasks write the status, and the status task may wait for an address
\* while the link it belongs to is gone and another attempt runs: once it has
\* settled, the status is still never Connected without a link.  After the
\* last attempt the status is Error and stays so, unless the last disconnect
\* failed and the link that it left behind has been seen up since.
StatusFollowsLink ==
    /\ MonitorSettled /\ wifi_status = "Connected" => link
    /\ connector = "gave_up" =>
          wifi_status = "Error" \/ (abort_failed /\ monitor # "link")

\* The connect task waits for the access point and DHCP with timeouts only, and
\* ends in the end: configured, or after its last attempt, whatever they do.
ConnectorEnds == <>(connector \in {"done", "gave_up"})
=============================================================================
