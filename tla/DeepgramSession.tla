---------------------------- MODULE DeepgramSession --------------------------
(***************************************************************************)
(* read_mic_and_send_loop_task (bin/main_task.rs): one connection, used in *)
(* turns to send a chunk of audio and to drain the responses that are      *)
(* there, with the WebSocket upgrade (networking/deepgram.rs) before and   *)
(* the reconnect after.                                                    *)
(*                                                                         *)
(* Every response is a WebSocket frame of two units, its header and its    *)
(* payload.  The stream of a session is the units 1, 2, 3, ...: "arrived"  *)
(* of them have come in, "consumed" of them have been read, and the        *)
(* receive that is running, or the next one, began at unit "start" + 1.    *)
(* A receive that begins with a payload unit reads garbage.                *)
(***************************************************************************)
EXTENDS Naturals

CONSTANT MaxUnits       \* bound on the units that arrive in one session

ASSUME SessionAssumption == MaxUnits \in Nat

VARIABLES
    phase,      \* what the task is doing
    mic,        \* MIC_PIPE: "alive" while core 1 fills it; after a DMA error
                \* "ending" while it still holds audio, and then "silent"
    server,     \* the far end as the socket sees it: "open" or "closed"
    arrived,    \* units of responses that have come in
    consumed,   \* units read from the connection
    start,      \* units read before the current receive began
    base,       \* units the upgrade read along with the HTTP response
    handled,    \* frames passed to handle_ws_frame in this session
    torn        \* history: a frame was cut by the upgrade or by a timeout

stream == <<arrived, consumed, start, base, handled, torn>>
vars == <<phase, mic, server, stream>>

Streaming == phase \in {"reading_mic", "sending", "receiving", "pong"}

Init ==
    /\ phase = "down"
    /\ mic = "alive"
    /\ server = "closed"
    /\ arrived = 0 /\ consumed = 0 /\ start = 0 /\ base = 0 /\ handled = 0
    /\ torn = FALSE

-----------------------------------------------------------------------------
(* Connecting *)

\* The network is up, or RECONNECT_DELAY has passed since the last session.
StartConnect ==
    /\ phase = "down"
    /\ phase' = "connecting"
    /\ UNCHANGED <<mic, server, stream>>

\* DNS, TCP or TLS fails: wait and try again.
ConnectFails ==
    /\ phase = "connecting"
    /\ phase' = "down"
    /\ UNCHANGED <<mic, server, stream>>

ConnectSucceeds ==
    /\ phase = "connecting"
    /\ phase' = "upgrading"
    /\ server' = "open"
    /\ arrived' = 0 /\ consumed' = 0 /\ start' = 0 /\ base' = 0 /\ handled' = 0
    /\ torn' = FALSE
    /\ UNCHANGED mic

\* The 101 response is in the buffer.  Whatever the same reads brought of the
\* first frames is in that buffer too, and dropped with it.
UpgradeSucceeds ==
    /\ phase = "upgrading"
    /\ phase' = "reading_mic"
    /\ \E n \in 0 .. arrived :
          /\ consumed' = n /\ start' = n /\ base' = n
          /\ torn' = (n % 2 = 1)
    /\ UNCHANGED <<mic, server, arrived, handled>>

\* A write or read error, the end of the stream, a status other than 101 or
\* headers beyond 1024 bytes: the task panics, and the device halts.
UpgradePanics ==
    /\ phase = "upgrading"
    /\ phase' = "panicked"
    /\ UNCHANGED <<mic, server, stream>>

-----------------------------------------------------------------------------
(* The streaming loop *)

\* MIC_PIPE.read returns, which it does only while there is audio to come.
MicChunkRead ==
    /\ phase = "reading_mic"
    /\ \/ mic = "alive" /\ UNCHANGED mic
       \/ mic = "ending" /\ mic' \in {"ending", "silent"}
    /\ phase' = "sending"
    /\ UNCHANGED <<server, stream>>

SendSucceeds ==
    /\ phase = "sending"
    /\ phase' = "receiving"
    /\ UNCHANGED <<mic, server, stream>>

\* The loop is left: Flush is signalled and conn.close() awaited.
LeaveLoop ==
    /\ phase' = "closing"
    /\ UNCHANGED <<mic, server, stream>>

SendFails ==
    /\ phase = "sending"
    /\ LeaveLoop

Aligned == start % 2 = 0

\* Mutant: a frame is handled by its header, its payload left unread.
HeaderIsAFrame ==
    /\ phase = "receiving" /\ Aligned
    /\ consumed = start
    /\ consumed < arrived
    /\ consumed' = consumed + 1
    /\ start' = consumed'
    /\ handled' = handled + 1
    /\ UNCHANGED <<phase, mic, server, arrived, base, torn>>

\* The receive that began at a header reads its header.
ReadHeader ==
    /\ phase = "receiving" /\ Aligned
    /\ consumed = start
    /\ consumed < arrived
    /\ consumed' = consumed + 1
    /\ UNCHANGED <<phase, mic, server, arrived, start, base, handled, torn>>

\* Mutant: the payload is taken from the buffer whether it has come or not.
PayloadNotAwaited ==
    /\ phase = "receiving" /\ Aligned
    /\ consumed = start + 1
    /\ consumed' = consumed + 1
    /\ start' = consumed'
    /\ handled' = handled + 1
    /\ phase' \in {"receiving", "pong", "closing"}
    /\ UNCHANGED <<mic, server, arrived, base, torn>>

\* It reads the payload and returns, and the frame is handled: a close frame
\* ends the session, a ping is answered, and then the next receive begins.
ReadPayload ==
    /\ phase = "receiving" /\ Aligned
    /\ consumed = start + 1
    /\ consumed < arrived
    /\ consumed' = consumed + 1
    /\ start' = consumed'
    /\ handled' = handled + 1
    /\ phase' \in {"receiving", "pong", "closing"}
    /\ UNCHANGED <<mic, server, arrived, base, torn>>

\* Mutant: after a pong the next frame is read and dropped.
PongAwaitsFrame ==
    /\ phase = "pong"
    /\ consumed + 2 <= arrived
    /\ consumed' = consumed + 2
    /\ start' = consumed'
    /\ phase' = "receiving"
    /\ UNCHANGED <<mic, server, arrived, base, handled, torn>>

\* The pong is sent, or not: its errors are ignored.
PongDone ==
    /\ phase = "pong"
    /\ phase' = "receiving"
    /\ UNCHANGED <<mic, server, stream>>

\* A receive that begins within a frame takes payload bytes for a header: it
\* returns some frame that is not one, or an error.
ReadGarbage ==
    /\ phase = "receiving" /\ ~Aligned
    /\ consumed < arrived
    /\ consumed' = consumed + 1
    /\ start' = consumed'
    /\ phase' \in {"receiving", "closing"}
    /\ UNCHANGED <<mic, server, arrived, base, handled, torn>>

\* recv has nothing to read for RECV_POLL: with_timeout drops it, and with it
\* the header if that was all that had come.  (with_timeout polls recv before
\* the timer, so what has arrived, the end of the stream included, is read.)
RecvTimesOut ==
    /\ phase = "receiving"
    /\ server = "open"
    /\ consumed = arrived
    /\ phase' = "reading_mic"
    /\ torn' = (torn \/ consumed # start)
    /\ start' = consumed
    /\ UNCHANGED <<mic, server, arrived, consumed, base, handled>>

\* Mutant: a receive error goes on with the next chunk.
RecvErrorIgnored ==
    /\ phase = "receiving"
    /\ phase' = "reading_mic"
    /\ UNCHANGED <<mic, server, stream>>

\* An error of the connection, or the end of its stream.
RecvFails ==
    /\ phase = "receiving"
    /\ LeaveLoop

\* close() returns, the status is Error, and RECONNECT_DELAY begins.
CloseReturns ==
    /\ phase = "closing"
    /\ phase' = "down"
    /\ UNCHANGED <<mic, server, stream>>

-----------------------------------------------------------------------------
(* The other side, and core 1 *)

UnitArrives ==
    /\ server = "open"
    /\ phase = "upgrading" \/ Streaming
    /\ arrived < MaxUnits
    /\ arrived' = arrived + 1
    /\ UNCHANGED <<phase, mic, server, consumed, start, base, handled, torn>>

ServerCloses ==
    /\ server = "open"
    /\ server' = "closed"
    /\ UNCHANGED <<phase, mic, stream>>

\* available() reports a DMA error: the loop on core 1 returns.
MicDies ==
    /\ mic = "alive"
    /\ mic' \in {"ending", "silent"}
    /\ UNCHANGED <<phase, server, stream>>

-----------------------------------------------------------------------------
\* What the task does as soon as it can, or a timer makes it do.
TaskStep ==
    \/ StartConnect \/ ConnectFails \/ ConnectSucceeds
    \/ UpgradeSucceeds \/ UpgradePanics
    \/ MicChunkRead \/ SendSucceeds \/ SendFails
    \/ ReadHeader \/ ReadPayload \/ ReadGarbage \/ PongDone
    \/ RecvTimesOut \/ RecvFails
    \/ CloseReturns

Next == TaskStep \/ UnitArrives \/ ServerCloses \/ MicDies

Spec == Init /\ [][Next]_vars

\* A connection that is open need not fail.
Unforced == ~(RecvFails /\ server = "open")

\* A ready task is polled, timers fire, and network operations end.  Nothing
\* is assumed of the far end or of core 1.
FairSpec == Spec /\ WF_vars(TaskStep /\ Unforced)

-----------------------------------------------------------------------------
\* The type invariant of the session.
TypeOK ==
    /\ phase \in {"down", "connecting", "upgrading", "reading_mic", "sending",
                  "receiving", "pong", "closing", "panicked"}
    /\ mic \in {"alive", "ending", "silent"}
    /\ server \in {"open", "closed"}
    /\ arrived \in 0 .. MaxUnits
    /\ base \in 0 .. MaxUnits /\ start \in 0 .. MaxUnits /\ consumed \in 0 .. MaxUnits
    /\ base <= start /\ start <= consumed /\ consumed <= arrived
    /\ handled \in 0 .. MaxUnits
    /\ torn \in BOOLEAN

\* As long as no frame is cut, the frames handled are exactly those between
\* the upgrade and the current receive: none twice, none left out, although
\* receives are started, dropped and started again around every chunk sent.
EachFrameOnce == ~torn => start = base + 2 * handled

\* Reading is out of step with the frames only if a frame was cut, and it is
\* a frame cut while its header had come and its payload had not.
OutOfStepOnlyIfTorn == ~torn => Aligned /\ consumed - start \in {0, 1}

\* main_task.rs:167: a timeout means "nothing ready", so it takes nothing.
TimeoutTakesNothing ==
    [][phase = "receiving" /\ phase' = "reading_mic" => start' = start]_vars

\* With the microphone running, a connection whose far end has closed is
\* noticed and opened again.
ClosedSessionReconnects ==
    [](mic = "alive") => (Streaming /\ server = "closed" ~> phase = "connecting")
=============================================================================
