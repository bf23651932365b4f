----------------------------- MODULE Connections -----------------------------
(***************************************************************************)
(* The life of a Connection (networking/connection.rs) in each task that   *)
(* opens one, at the grain of the executor: all tasks run on core 0 and    *)
(* interleave only where they await, so what a handler does between two    *)
(* awaits, claim_buffers included, is one action.                          *)
(*                                                                         *)
(* A TcpSocket lives in the network stack, which reads and writes the      *)
(* socket's buffers on its own, until the Rust value is dropped.           *)
(* Connection::close releases the slot but the value stays in scope: the   *)
(* translation task drops it before its next await, the Deepgram task only *)
(* after RECONNECT_DELAY (bin/main_task.rs 189-198).                       *)
(***************************************************************************)
EXTENDS Naturals

CONSTANTS
    Tasks,              \* the tasks that open connections
    PlainTasks,         \* those configured without TLS (DEEPGRAM_USE_TLS)
    DelayedDrop,        \* those that keep a closed connection across an await
    MAX_CONNECTIONS,    \* the number of buffer pairs
    MAX_TCP_RETRIES,    \* connect attempts per open
    None                \* "no slot", "no socket"

Slots == 0 .. (MAX_CONNECTIONS - 1)

ASSUME ConnectionsAssumption ==
    /\ MAX_CONNECTIONS \in 1 .. 8
    /\ MAX_TCP_RETRIES \in Nat \ {0}
    /\ PlainTasks \subseteq Tasks
    /\ DelayedDrop \subseteq Tasks
    /\ None \notin Slots

VARIABLES
    POOL_IN_USE,    \* the slots whose bit is set
    pc,             \* pc[t]: what task t awaits
    slot,           \* slot[t]: the slot t has claimed and not released
    socket,         \* socket[t]: the pair in use by t's TcpSocket, if it lives
    attempt         \* attempt[t]: TCP connect attempts of the loop t is in

vars == <<POOL_IN_USE, pc, slot, socket, attempt>>

Init ==
    /\ POOL_IN_USE = {}
    /\ pc = [t \in Tasks |-> "idle"]
    /\ slot = [t \in Tasks |-> None]
    /\ socket = [t \in Tasks |-> None]
    /\ attempt = [t \in Tasks |-> 0]

Goto(t, label) == pc' = [pc EXCEPT ![t] = label]

ReleaseSlot(t) ==
    /\ POOL_IN_USE' = POOL_IN_USE \ {slot[t]}
    /\ slot' = [slot EXCEPT ![t] = None]

\* Dropping the TcpSocket takes it out of the stack's socket set.
DropSocket(t) == socket' = [socket EXCEPT ![t] = None]

\* An open that fails after the claim releases the slot and returns, which
\* drops the socket (or the session around it) in the same poll.
FailOpen(t) ==
    /\ ReleaseSlot(t)
    /\ DropSocket(t)
    /\ Goto(t, "idle")
    /\ attempt' = [attempt EXCEPT ![t] = 0]

-----------------------------------------------------------------------------
(* connect_tcp_with_timeout *)

\* The task calls open_tcp_connection(_with_tls), which awaits the DNS query.
Open(t) ==
    /\ pc[t] = "idle"
    /\ Goto(t, "dns")
    /\ UNCHANGED <<POOL_IN_USE, slot, socket, attempt>>

DnsFails(t) ==
    /\ pc[t] = "dns"
    /\ Goto(t, "idle")
    /\ UNCHANGED <<POOL_IN_USE, slot, socket, attempt>>

\* The answer arrives: claim the lowest free pair, make a socket of it, and
\* start the first connect, all before the next await.
DnsAnswers(t) ==
    /\ pc[t] = "dns"
    /\ \E i \in Slots \ POOL_IN_USE :
          /\ \A j \in Slots \ POOL_IN_USE : i <= j
          /\ POOL_IN_USE' = POOL_IN_USE \union {i}
          /\ slot' = [slot EXCEPT ![t] = i]
          /\ socket' = [socket EXCEPT ![t] = i]
    /\ attempt' = [attempt EXCEPT ![t] = 1]
    /\ Goto(t, "tcp")

\* The answer arrives and every pair is taken: Err(NoFreeBuffers).
NoFreeBuffers(t) ==
    /\ pc[t] = "dns"
    /\ Slots \subseteq POOL_IN_USE
    /\ Goto(t, "idle")
    /\ UNCHANGED <<POOL_IN_USE, slot, socket, attempt>>

\* connect() returns an error: the socket is closed and rests for a second.
TcpFails(t) ==
    /\ pc[t] = "tcp"
    /\ Goto(t, "backoff")
    /\ UNCHANGED <<POOL_IN_USE, slot, socket, attempt>>

\* Mutant: the last attempt is followed by another one.
RetryOnceMore(t) ==
    /\ pc[t] = "backoff"
    /\ attempt[t] <= MAX_TCP_RETRIES
    /\ attempt' = [attempt EXCEPT ![t] = @ + 1]
    /\ Goto(t, "tcp")
    /\ UNCHANGED <<POOL_IN_USE, slot, socket>>

\* Mutant: a retry is not counted.
RetryUncounted(t) ==
    /\ pc[t] = "backoff"
    /\ attempt[t] < MAX_TCP_RETRIES
    /\ Goto(t, "tcp")
    /\ UNCHANGED <<POOL_IN_USE, slot, socket, attempt>>

\* The second is over: abort the socket, and try it again.
TcpRetry(t) ==
    /\ pc[t] = "backoff"
    /\ attempt[t] < MAX_TCP_RETRIES
    /\ attempt' = [attempt EXCEPT ![t] = @ + 1]
    /\ Goto(t, "tcp")
    /\ UNCHANGED <<POOL_IN_USE, slot, socket>>

\* That was the last attempt: Err(TcpConnect).
TcpGivesUp(t) ==
    /\ pc[t] = "backoff"
    /\ attempt[t] >= MAX_TCP_RETRIES
    /\ FailOpen(t)

-----------------------------------------------------------------------------
(* open_tcp_connection and open_tcp_connection_with_tls, after the connect *)

PlainOpens(t) ==
    /\ pc[t] = "tcp"
    /\ t \in PlainTasks
    /\ Goto(t, "open")
    /\ attempt' = [attempt EXCEPT ![t] = 0]
    /\ UNCHANGED <<POOL_IN_USE, slot, socket>>

\* TCP is up and Session::new succeeds: the handshake is awaited.
TlsStarts(t) ==
    /\ pc[t] = "tcp"
    /\ t \notin PlainTasks
    /\ Goto(t, "handshake")
    /\ attempt' = [attempt EXCEPT ![t] = 0]
    /\ UNCHANGED <<POOL_IN_USE, slot, socket>>

\* TCP is up but Session::new fails: Err(TlsSessionCreate).
TlsSessionFails(t) ==
    /\ pc[t] = "tcp"
    /\ t \notin PlainTasks
    /\ FailOpen(t)

HandshakeSucceeds(t) ==
    /\ pc[t] = "handshake"
    /\ Goto(t, "open")
    /\ UNCHANGED <<POOL_IN_USE, slot, socket, attempt>>

\* Mutant: the handshake's error path forgets the slot.
HandshakeErrorKeepsSlot(t) ==
    /\ pc[t] = "handshake"
    /\ DropSocket(t)
    /\ Goto(t, "idle")
    /\ UNCHANGED <<POOL_IN_USE, slot, attempt>>

HandshakeFails(t) ==
    /\ pc[t] = "handshake"
    /\ FailOpen(t)

-----------------------------------------------------------------------------
(* close *)

\* The end of close(): the slot is released.  A task that does not await
\* before its connection leaves scope drops the socket in the same poll; the
\* Deepgram task keeps the closed connection while it waits to reconnect.
CloseReturns(t) ==
    /\ ReleaseSlot(t)
    /\ \/ t \notin DelayedDrop /\ DropSocket(t) /\ Goto(t, "idle")
       \/ t \in DelayedDrop /\ UNCHANGED socket /\ Goto(t, "lingering")
    /\ UNCHANGED attempt

\* The task is done with a plain connection: socket.close() does not await.
ClosePlain(t) ==
    /\ pc[t] = "open"
    /\ t \in PlainTasks
    /\ CloseReturns(t)

\* Mutant: the slot is released before close_notify is awaited.
ReleaseBeforeTlsClose(t) ==
    /\ pc[t] = "open"
    /\ t \notin PlainTasks
    /\ ReleaseSlot(t)
    /\ Goto(t, "closing")
    /\ UNCHANGED <<socket, attempt>>

\* The task is done with a TLS connection: close_notify is sent, awaited.
StartTlsClose(t) ==
    /\ pc[t] = "open"
    /\ t \notin PlainTasks
    /\ Goto(t, "closing")
    /\ UNCHANGED <<POOL_IN_USE, slot, socket, attempt>>

\* The TLS close has returned, with or without an error.
FinishTlsClose(t) ==
    /\ pc[t] = "closing"
    /\ CloseReturns(t)

\* RECONNECT_DELAY is over and the loop body ends: the connection is dropped.
LateDrop(t) ==
    /\ pc[t] = "lingering"
    /\ DropSocket(t)
    /\ Goto(t, "idle")
    /\ UNCHANGED <<POOL_IN_USE, slot, attempt>>

-----------------------------------------------------------------------------
\* The answers of the network and the timers: every wait they end has a
\* timeout (set_timeout of 30 s on the socket, 1 s, RECONNECT_DELAY).
Progress(t) ==
    \/ DnsFails(t) \/ DnsAnswers(t) \/ NoFreeBuffers(t)
    \/ TcpFails(t) \/ TcpRetry(t) \/ TcpGivesUp(t)
    \/ PlainOpens(t) \/ TlsStarts(t) \/ TlsSessionFails(t)
    \/ HandshakeSucceeds(t) \/ HandshakeFails(t)
    \/ FinishTlsClose(t) \/ LateDrop(t)

Next == \E t \in Tasks : Open(t) \/ Progress(t) \/ ClosePlain(t) \/ StartTlsClose(t)

Fairness == \A t \in Tasks : WF_vars(Progress(t))

Spec == Init /\ [][Next]_vars

FairSpec == Spec /\ Fairness

-----------------------------------------------------------------------------
Labels == {"idle", "dns", "tcp", "backoff", "handshake", "open", "closing", "lingering"}

\* The type invariant of the connections.
TypeOK ==
    /\ POOL_IN_USE \subseteq Slots
    /\ pc \in [Tasks -> Labels]
    /\ slot \in [Tasks -> Slots \union {None}]
    /\ socket \in [Tasks -> Slots \union {None}]
    /\ attempt \in [Tasks -> 0 .. MAX_TCP_RETRIES]

\* t claimed a pair and has not released it.
Claims(t) == pc[t] \in {"tcp", "backoff", "handshake", "open", "closing"}

\* A bit of the mask is set exactly while a task is between its claim and
\* its release: no error path of an open, and no close, leaks a pair or
\* releases one twice.
NoSlotLeak ==
    /\ \A t \in Tasks : slot[t] # None <=> Claims(t)
    /\ POOL_IN_USE = {slot[t] : t \in {u \in Tasks : Claims(u)}}

\* While a connection is being opened, used or closed, no other task's
\* connection has its pair, and its own socket uses that pair and no other.
ClaimedPairIsPrivate ==
    \A t \in Tasks : Claims(t) =>
        /\ socket[t] = slot[t]
        /\ \A u \in Tasks \ {t} : slot[u] # slot[t]

\* The only way two live sockets can share buffers is that one of them is a
\* closed connection whose task has not dropped it yet.
SharingNeedsLinger ==
    \A t, u \in Tasks :
        t # u /\ socket[t] # None /\ socket[t] = socket[u]
            => pc[t] = "lingering" \/ pc[u] = "lingering"

\* connection.rs 32-33: "only the task that successfully claims a slot may
\* access its buffers", so no two live sockets are on one pair.
NoSharedBuffers ==
    \A t, u \in Tasks : t # u /\ socket[t] # None => socket[t] # socket[u]

\* Every open ends: it returns a connection or an error, however often the
\* TCP connect fails.
OpenReturns ==
    \A t \in Tasks :
        pc[t] \in {"dns", "tcp", "backoff", "handshake"} ~> pc[t] \in {"idle", "open"}
=============================================================================
