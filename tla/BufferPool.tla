----------------------------- MODULE BufferPool ------------------------------
(***************************************************************************)
(* The pool of static rx/tx buffer pairs in networking/connection.rs, at   *)
(* the grain of its atomic operations: claim_buffers (lines 43-79) loads   *)
(* the bitmask POOL_IN_USE, tries to set the lowest free bit by            *)
(* compare_exchange, reloads the mask when that fails, and zeroes the pair *)
(* it won; release_slot (lines 82-85) clears a bit.                        *)
(*                                                                         *)
(* The mask is modelled as the set of its one bits.  contents[s] is the    *)
(* set of tasks whose bytes are in pair s: what a use of the pair leaves   *)
(* behind and what rx.fill(0), tx.fill(0) remove.                          *)
(*                                                                         *)
(* The claim of a pair and the TcpSocket that works on it end at different *)
(* moments: Connection::close releases the slot, and the socket lives on   *)
(* the pair until the Connection is dropped.                               *)
(***************************************************************************)
EXTENDS Naturals, FiniteSets

CONSTANTS
    Tasks,              \* the tasks that open connections
    MAX_CONNECTIONS,    \* the number of buffer pairs
    DelayedDrop,        \* the tasks that keep a closed connection for a while
    NoSlot              \* "no slot claimed", "no socket"

Slots == 0 .. (MAX_CONNECTIONS - 1)

\* The mask is a u8, so it has a bit for at most eight slots.
ASSUME PoolAssumption ==
    /\ MAX_CONNECTIONS \in 1 .. 8
    /\ IsFiniteSet(Tasks)
    /\ DelayedDrop \subseteq Tasks
    /\ NoSlot \notin Slots

VARIABLES
    POOL_IN_USE,    \* the slots whose bit is set
    pc,             \* pc[t]: the atomic operation task t performs next
    current,        \* current[t]: the mask as t last loaded it
    slot,           \* slot[t]: the slot t's compare_exchange won, or NoSlot
    socket,         \* socket[t]: the pair that t's TcpSocket works on, or NoSlot
    contents        \* contents[s]: the tasks whose bytes are in pair s

vars == <<POOL_IN_USE, pc, current, slot, socket, contents>>

Init ==
    /\ POOL_IN_USE = {}
    /\ pc = [t \in Tasks |-> "idle"]
    /\ current = [t \in Tasks |-> {}]
    /\ slot = [t \in Tasks |-> NoSlot]
    /\ socket = [t \in Tasks |-> NoSlot]
    /\ contents = [s \in Slots |-> {}]

Goto(t, label) == pc' = [pc EXCEPT ![t] = label]

Full(mask) == Cardinality(mask) >= MAX_CONNECTIONS

\* i is the first bit of the loaded mask that is zero.
FirstFree(mask, i) ==
    /\ i \in Slots \ mask
    /\ \A j \in Slots \ mask : i <= j

\* A task calls claim_buffers.
CallClaim(t) ==
    /\ pc[t] = "idle"
    /\ Goto(t, "load")
    /\ UNCHANGED <<POOL_IN_USE, current, slot, socket, contents>>

\* let current = POOL_IN_USE.load(..); a full mask has no bit to try.
Load(t) ==
    /\ pc[t] = "load"
    /\ current' = [current EXCEPT ![t] = POOL_IN_USE]
    /\ Goto(t, IF Slots \subseteq POOL_IN_USE THEN "recheck" ELSE "cas")
    /\ UNCHANGED <<POOL_IN_USE, slot, socket, contents>>

\* Mutant: the bit is set by a plain store, without the comparison.
StoreInsteadOfCas(t) ==
    /\ pc[t] = "cas"
    /\ \E i \in Slots :
          /\ FirstFree(current[t], i)
          /\ POOL_IN_USE' = current[t] \union {i}
          /\ slot' = [slot EXCEPT ![t] = i]
    /\ Goto(t, "zero")
    /\ UNCHANGED <<current, socket, contents>>

CasSucceeds(t) ==
    /\ pc[t] = "cas"
    /\ POOL_IN_USE = current[t]
    /\ \E i \in Slots :
          /\ FirstFree(current[t], i)
          /\ POOL_IN_USE' = current[t] \union {i}
          /\ slot' = [slot EXCEPT ![t] = i]
    /\ Goto(t, "zero")
    /\ UNCHANGED <<current, socket, contents>>

\* The mask changed since the load: leave the scan and look at it again.
CasFails(t) ==
    /\ pc[t] = "cas"
    /\ POOL_IN_USE # current[t]
    /\ Goto(t, "recheck")
    /\ UNCHANGED <<POOL_IN_USE, current, slot, socket, contents>>

\* Mutant: a lost exchange is an error at once.
RefuseAfterFailedCas(t) ==
    /\ pc[t] = "recheck"
    /\ Goto(t, "denied")
    /\ UNCHANGED <<POOL_IN_USE, current, slot, socket, contents>>

\* Mutant: a lost exchange is tried again with the mask of the first load.
RetryWithoutReload(t) ==
    /\ pc[t] = "recheck"
    /\ Goto(t, IF Full(POOL_IN_USE) THEN "denied" ELSE IF Full(current[t]) THEN "load" ELSE "cas")
    /\ UNCHANGED <<POOL_IN_USE, current, slot, socket, contents>>

\* A second load, counted: NoFreeBuffers if every bit is set, else try again.
Recheck(t) ==
    /\ pc[t] = "recheck"
    /\ Goto(t, IF Full(POOL_IN_USE) THEN "denied" ELSE "load")
    /\ UNCHANGED <<POOL_IN_USE, current, slot, socket, contents>>

\* Mutant: the pair is handed out without fill(0).
NoFill(t) ==
    /\ pc[t] = "zero"
    /\ socket' = [socket EXCEPT ![t] = slot[t]]
    /\ Goto(t, "holding")
    /\ UNCHANGED <<POOL_IN_USE, current, slot, contents>>

\* rx.fill(0); tx.fill(0); return Ok((i, rx, tx)), and the caller makes its
\* socket on the pair.
ZeroBuffers(t) ==
    /\ pc[t] = "zero"
    /\ contents' = [contents EXCEPT ![slot[t]] = {}]
    /\ socket' = [socket EXCEPT ![t] = slot[t]]
    /\ Goto(t, "holding")
    /\ UNCHANGED <<POOL_IN_USE, current, slot>>

\* The network stack puts bytes of t's socket through the pair, as long as the
\* socket lives: also after close(), for bytes in flight and the handshake of
\* the close.
UseBuffers(t) ==
    /\ socket[t] # NoSlot
    /\ contents' = [contents EXCEPT ![socket[t]] = @ \union {t}]
    /\ UNCHANGED <<POOL_IN_USE, pc, current, slot, socket>>

\* What becomes of the socket when the slot is given back: it is dropped before
\* the next await, as after a failed open, or some tasks keep it for longer.
LeaveConnection(t) ==
    \/ Goto(t, "idle") /\ socket' = [socket EXCEPT ![t] = NoSlot]
    \/ t \in DelayedDrop /\ Goto(t, "lingering") /\ UNCHANGED socket

\* Mutant: the release stores the mask as loaded at the claim, less its bit.
ReleaseFromStaleMask(t) ==
    /\ pc[t] = "holding"
    /\ POOL_IN_USE' = current[t] \ {slot[t]}
    /\ slot' = [slot EXCEPT ![t] = NoSlot]
    /\ LeaveConnection(t)
    /\ UNCHANGED <<current, contents>>

\* release_slot: fetch_and(!bit).
ReleaseSlot(t) ==
    /\ pc[t] = "holding"
    /\ POOL_IN_USE' = POOL_IN_USE \ {slot[t]}
    /\ slot' = [slot EXCEPT ![t] = NoSlot]
    /\ LeaveConnection(t)
    /\ UNCHANGED <<current, contents>>

\* The kept connection goes out of scope.
LateDrop(t) ==
    /\ pc[t] = "lingering"
    /\ socket' = [socket EXCEPT ![t] = NoSlot]
    /\ Goto(t, "idle")
    /\ UNCHANGED <<POOL_IN_USE, current, slot, contents>>

\* The caller of a refused claim gets Err(NoFreeBuffers) and may try later.
ReturnError(t) ==
    /\ pc[t] = "denied"
    /\ Goto(t, "idle")
    /\ UNCHANGED <<POOL_IN_USE, current, slot, socket, contents>>

\* What claim_buffers does by itself once called.
ClaimStep(t) ==
    Load(t) \/ CasSucceeds(t) \/ CasFails(t) \/ Recheck(t) \/ ZeroBuffers(t)

Next ==
    \E t \in Tasks :
        \/ CallClaim(t) \/ ClaimStep(t)
        \/ UseBuffers(t) \/ ReleaseSlot(t) \/ LateDrop(t) \/ ReturnError(t)

\* A task inside claim_buffers has nothing to wait for: it runs on.
Fairness == \A t \in Tasks : WF_vars(ClaimStep(t))

Spec == Init /\ [][Next]_vars

FairSpec == Spec /\ Fairness

-----------------------------------------------------------------------------
Labels == {"idle", "load", "cas", "recheck", "zero", "holding", "lingering", "denied"}

\* The type invariant of the pool.
TypeOK ==
    /\ POOL_IN_USE \subseteq Slots
    /\ pc \in [Tasks -> Labels]
    /\ current \in [Tasks -> SUBSET Slots]
    /\ slot \in [Tasks -> Slots \union {NoSlot}]
    /\ socket \in [Tasks -> Slots \union {NoSlot}]
    /\ contents \in [Slots -> SUBSET Tasks]

\* t won a slot and has not released it.
Owns(t) == pc[t] \in {"zero", "holding"}

\* Two tasks never own the same buffer pair at once: the promise of the
\* SAFETY comment above BufSlot, whatever loads and exchanges interleave.
ExclusiveOwnership ==
    \A t, u \in Tasks : Owns(t) /\ Owns(u) /\ slot[t] = slot[u] => t = u

\* A bit of POOL_IN_USE is set exactly while a task owns its slot: no
\* interleaving leaks a slot (a bit nobody will clear) or frees one in use.
BitsMatchOwners == POOL_IN_USE = {slot[t] : t \in {u \in Tasks : Owns(u)}}

\* A connection finds in its buffers bytes of its own, and of a task that keeps
\* closed connections, whose socket may still work on the pair; of nobody else:
\* fill(0) runs before the pair is handed out, and a task that drops its
\* connection as it closes it has no way to write there.
NoForeignBytes ==
    \A t \in Tasks : pc[t] = "holding" => contents[slot[t]] \subseteq {t} \union DelayedDrop

\* With no more tasks than buffer pairs, NoFreeBuffers is never returned:
\* the second look at the mask cannot find it full, because the task that
\* looks owns none of the set bits.
NeverDenied ==
    Cardinality(Tasks) <= MAX_CONNECTIONS => \A t \in Tasks : pc[t] # "denied"

\* The claim loop is lock-free: while some task is in it, sooner or later a
\* task (not always the same) leaves it with a slot or with an error.
SomeClaimEnds ==
    (\E t \in Tasks : pc[t] \in {"load", "cas", "recheck"})
        ~> (\E t \in Tasks : pc[t] \in {"zero", "denied"})

-----------------------------------------------------------------------------
(* The pool implements the abstract allocator. *)
PhaseOf(label) ==
    CASE label \in {"load", "cas", "recheck"} -> "asking"
      [] label \in {"zero", "holding"} -> "holding"
      [] label = "denied" -> "refused"
      [] OTHER -> "idle"

Allocator ==
    INSTANCE SlotAllocator
    WITH phase <- [t \in Tasks |-> PhaseOf(pc[t])], held <- slot

\* Claiming and releasing through the mask is granting and returning whole
\* slots: each step of the pool is a step of SlotAllocator or changes nothing.
ImplementsAllocator == Allocator!Spec
=============================================================================
