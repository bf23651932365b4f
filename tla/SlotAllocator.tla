---------------------------- MODULE SlotAllocator ----------------------------
(***************************************************************************)
(* What the TCP buffer pool of networking/connection.rs promises its       *)
(* callers, with nothing about how: a task asks for a buffer pair, is      *)
(* either granted a pair nobody else holds or refused because every pair   *)
(* was taken, and gives the pair back when its connection is closed.       *)
(***************************************************************************)
CONSTANTS
    Tasks,      \* the tasks that open connections
    Slots,      \* the indices of the buffer pairs
    NoSlot      \* what a task that holds no pair has in "held"; not a slot

VARIABLES
    phase,      \* phase[t]: where task t is in its use of the allocator
    held        \* held[t]: the slot task t holds, or NoSlot

vars == <<phase, held>>

Phases == {"idle", "asking", "holding", "refused"}

\* The slots some task holds.
Taken == {held[t] : t \in Tasks} \ {NoSlot}

Init ==
    /\ phase = [t \in Tasks |-> "idle"]
    /\ held = [t \in Tasks |-> NoSlot]

Ask(t) ==
    /\ phase[t] = "idle"
    /\ phase' = [phase EXCEPT ![t] = "asking"]
    /\ UNCHANGED held

\* Any slot nobody holds may be granted.
Grant(t) ==
    /\ phase[t] = "asking"
    /\ \E s \in Slots \ Taken : held' = [held EXCEPT ![t] = s]
    /\ phase' = [phase EXCEPT ![t] = "holding"]

\* A request is refused only at a moment when every slot is taken.
Refuse(t) ==
    /\ phase[t] = "asking"
    /\ Slots \subseteq Taken
    /\ phase' = [phase EXCEPT ![t] = "refused"]
    /\ UNCHANGED held

GiveUp(t) ==
    /\ phase[t] = "refused"
    /\ phase' = [phase EXCEPT ![t] = "idle"]
    /\ UNCHANGED held

Return(t) ==
    /\ phase[t] = "holding"
    /\ phase' = [phase EXCEPT ![t] = "idle"]
    /\ held' = [held EXCEPT ![t] = NoSlot]

Next == \E t \in Tasks : Ask(t) \/ Grant(t) \/ Refuse(t) \/ GiveUp(t) \/ Return(t)

Spec == Init /\ [][Next]_vars
=============================================================================
