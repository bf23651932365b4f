--------------------------- MODULE BufferPoolProofs --------------------------
(***************************************************************************)
(* Proofs about BufferPool for every finite set of tasks and every pool of *)
(* one to eight pairs: typing, exclusive ownership, the match between mask *)
(* bits and owners, clean buffers, no refusal with enough pairs, and the   *)
(* refinement of SlotAllocator.                                            *)
(***************************************************************************)
EXTENDS BufferPool, FiniteSetTheorems, TLAPS

\* A task has a slot exactly while it owns one.
SlotOfOwner == \A t \in Tasks : slot[t] \in Slots <=> Owns(t)

\* A socket works on the pair that its task owns, unless it outlives a closed
\* connection of a task that keeps those.
SocketOfOwner ==
    \A t \in Tasks :
        /\ pc[t] = "holding" => socket[t] = slot[t]
        /\ socket[t] # NoSlot => pc[t] = "holding" \/ t \in DelayedDrop

\* The inductive invariant: mask bits and owners determine each other.
OwnershipInv ==
    /\ TypeOK
    /\ SlotOfOwner
    /\ SocketOfOwner
    /\ ExclusiveOwnership
    /\ BitsMatchOwners
    /\ NoForeignBytes

USE DEF Slots, Labels, Goto

-----------------------------------------------------------------------------
\* Every step keeps the variables in their types.
LEMMA TypeStep ==
    ASSUME TypeOK, [Next]_vars
    PROVE  TypeOK'
<1> USE PoolAssumption DEF TypeOK
<1>1. ASSUME NEW t \in Tasks, CallClaim(t)
      PROVE  TypeOK'
  BY <1>1 DEF CallClaim
<1>2. ASSUME NEW t \in Tasks, Load(t)
      PROVE  TypeOK'
  BY <1>2 DEF Load
<1>3. ASSUME NEW t \in Tasks, CasSucceeds(t)
      PROVE  TypeOK'
  BY <1>3 DEF CasSucceeds, FirstFree
<1>4. ASSUME NEW t \in Tasks, CasFails(t)
      PROVE  TypeOK'
  BY <1>4 DEF CasFails
<1>5. ASSUME NEW t \in Tasks, Recheck(t)
      PROVE  TypeOK'
  BY <1>5 DEF Recheck
<1>6. ASSUME NEW t \in Tasks, ZeroBuffers(t)
      PROVE  TypeOK'
  BY <1>6 DEF ZeroBuffers
<1>7. ASSUME NEW t \in Tasks, UseBuffers(t)
      PROVE  TypeOK'
  BY <1>7 DEF UseBuffers
<1>8. ASSUME NEW t \in Tasks, ReleaseSlot(t) \/ LateDrop(t)
      PROVE  TypeOK'
  BY <1>8 DEF ReleaseSlot, LeaveConnection, LateDrop
<1>9. ASSUME NEW t \in Tasks, ReturnError(t)
      PROVE  TypeOK'
  BY <1>9 DEF ReturnError
<1>10. CASE UNCHANGED vars
  BY <1>10 DEF vars
<1> QED
  BY <1>1, <1>2, <1>3, <1>4, <1>5, <1>6, <1>7, <1>8, <1>9, <1>10
  DEF Next, ClaimStep

\* The variables of the pool always have their types.
THEOREM TypeCorrect == Spec => []TypeOK
<1>1. Init => TypeOK
  BY PoolAssumption DEF Init, TypeOK
<1> QED
  BY <1>1, TypeStep, PTL DEF Spec

-----------------------------------------------------------------------------
\* A step that touches neither the mask nor a slot nor who is an owner keeps
\* the relation between them.
LEMMA SameOwners ==
    ASSUME SlotOfOwner, ExclusiveOwnership, BitsMatchOwners,
           UNCHANGED <<POOL_IN_USE, slot>>,
           \A u \in Tasks : Owns(u)' <=> Owns(u)
    PROVE  SlotOfOwner' /\ ExclusiveOwnership' /\ BitsMatchOwners'
BY DEF SlotOfOwner, ExclusiveOwnership, BitsMatchOwners

\* The winning exchange makes t the only owner of the bit it sets.
LEMMA CasKeepsOwnership ==
    ASSUME OwnershipInv, NEW t \in Tasks, CasSucceeds(t)
    PROVE  SlotOfOwner' /\ ExclusiveOwnership' /\ BitsMatchOwners' /\ NoForeignBytes'
<1>1. PICK i \in Slots \ POOL_IN_USE :
         /\ POOL_IN_USE' = POOL_IN_USE \union {i}
         /\ slot' = [slot EXCEPT ![t] = i]
  BY DEF CasSucceeds, FirstFree
<1>2. /\ pc[t] = "cas"
      /\ pc' = [pc EXCEPT ![t] = "zero"]
      /\ contents' = contents
  BY DEF CasSucceeds
<1>3. ~Owns(t) /\ Owns(t)'
  BY <1>2 DEF Owns, OwnershipInv, TypeOK
<1>4. \A u \in Tasks \ {t} : (Owns(u)' <=> Owns(u)) /\ slot'[u] = slot[u]
  BY <1>1, <1>2 DEF Owns, OwnershipInv, TypeOK
<1>5. slot'[t] = i
  BY <1>1 DEF OwnershipInv, TypeOK
<1>6. \A u \in Tasks : Owns(u) => slot[u] # i
  BY <1>1 DEF OwnershipInv, BitsMatchOwners
<1>7. SlotOfOwner'
  BY <1>3, <1>4, <1>5 DEF OwnershipInv, SlotOfOwner
<1>8. ExclusiveOwnership'
  BY <1>3, <1>4, <1>5, <1>6 DEF OwnershipInv, ExclusiveOwnership
<1>9. BitsMatchOwners'
  BY <1>1, <1>3, <1>4, <1>5 DEF OwnershipInv, BitsMatchOwners
<1>10. NoForeignBytes'
  <2> SUFFICES ASSUME NEW u \in Tasks, pc'[u] = "holding"
               PROVE  contents'[slot'[u]] \subseteq {u} \union DelayedDrop
    BY DEF NoForeignBytes
  <2>1. u # t /\ pc[u] = "holding"
    BY <1>2 DEF OwnershipInv, TypeOK
  <2> QED
    BY <2>1, <1>2, <1>4 DEF OwnershipInv, NoForeignBytes
<1> QED
  BY <1>7, <1>8, <1>9, <1>10

\* Zeroing a pair touches the bytes of no other owner's pair.
LEMMA ZeroKeepsOwnership ==
    ASSUME OwnershipInv, NEW t \in Tasks, ZeroBuffers(t)
    PROVE  SlotOfOwner' /\ ExclusiveOwnership' /\ BitsMatchOwners' /\ NoForeignBytes'
<1>1. /\ UNCHANGED <<POOL_IN_USE, slot>>
      /\ \A u \in Tasks : Owns(u)' <=> Owns(u)
      /\ Owns(t)
  BY DEF ZeroBuffers, Owns, OwnershipInv, TypeOK
<1>2. SlotOfOwner' /\ ExclusiveOwnership' /\ BitsMatchOwners'
  BY <1>1, SameOwners DEF OwnershipInv
<1>3. slot[t] \in Slots /\ contents' = [contents EXCEPT ![slot[t]] = {}]
  BY <1>1 DEF ZeroBuffers, OwnershipInv, SlotOfOwner
<1>4. NoForeignBytes'
  <2> SUFFICES ASSUME NEW u \in Tasks, pc'[u] = "holding"
               PROVE  contents'[slot'[u]] \subseteq {u} \union DelayedDrop
    BY DEF NoForeignBytes
  <2>1. CASE u = t
    BY <2>1, <1>1, <1>3 DEF OwnershipInv, TypeOK
  <2>2. CASE u # t
    <3>1. pc[u] = "holding" /\ slot'[u] = slot[u]
      BY <2>2, <1>1 DEF ZeroBuffers, OwnershipInv, TypeOK
    <3>2. Owns(u) /\ slot[u] \in Slots /\ slot[u] # slot[t]
      BY <3>1, <2>2, <1>1 DEF Owns, OwnershipInv, SlotOfOwner, ExclusiveOwnership
    <3>3. contents'[slot[u]] = contents[slot[u]]
      BY <3>2, <1>3 DEF OwnershipInv, TypeOK
    <3> QED
      BY <3>1, <3>3 DEF OwnershipInv, NoForeignBytes
  <2> QED
    BY <2>1, <2>2
<1> QED
  BY <1>2, <1>4

\* A socket puts bytes into its task's own pair, or its task is one of those
\* whose bytes may be anywhere.
LEMMA UseKeepsOwnership ==
    ASSUME OwnershipInv, NEW t \in Tasks, UseBuffers(t)
    PROVE  SlotOfOwner' /\ ExclusiveOwnership' /\ BitsMatchOwners' /\ NoForeignBytes'
<1>1. /\ UNCHANGED <<POOL_IN_USE, pc, slot>>
      /\ socket[t] \in Slots
      /\ contents' = [contents EXCEPT ![socket[t]] = @ \union {t}]
  BY DEF UseBuffers, OwnershipInv, TypeOK
<1>2. \A u \in Tasks : Owns(u)' <=> Owns(u)
  BY <1>1 DEF Owns
<1>3. SlotOfOwner' /\ ExclusiveOwnership' /\ BitsMatchOwners'
  BY <1>1, <1>2, SameOwners DEF OwnershipInv
<1>4. NoForeignBytes'
  <2> SUFFICES ASSUME NEW u \in Tasks, pc[u] = "holding"
               PROVE  contents'[slot[u]] \subseteq {u} \union DelayedDrop
    BY <1>1 DEF NoForeignBytes
  <2>1. slot[u] \in Slots /\ contents[slot[u]] \subseteq {u} \union DelayedDrop
    BY DEF Owns, OwnershipInv, SlotOfOwner, NoForeignBytes
  <2>2. \/ contents'[slot[u]] = contents[slot[u]]
        \/ /\ slot[u] = socket[t]
           /\ contents'[slot[u]] = contents[slot[u]] \union {t}
    BY <1>1, <2>1 DEF OwnershipInv, TypeOK
  <2>3. CASE t \in DelayedDrop
    BY <2>1, <2>2, <2>3
  <2>4. CASE t \notin DelayedDrop
    <3>1. pc[t] = "holding" /\ socket[t] = slot[t]
      BY <1>1, <2>4, PoolAssumption DEF OwnershipInv, SocketOfOwner
    <3>2. slot[u] = socket[t] => u = t
      BY <3>1 DEF Owns, OwnershipInv, ExclusiveOwnership
    <3> QED
      BY <2>1, <2>2, <3>2
  <2> QED
    BY <2>3, <2>4
<1> QED
  BY <1>3, <1>4

\* Clearing a bit takes it from its one owner and from nobody else.
LEMMA ReleaseKeepsOwnership ==
    ASSUME OwnershipInv, NEW t \in Tasks, ReleaseSlot(t)
    PROVE  SlotOfOwner' /\ ExclusiveOwnership' /\ BitsMatchOwners' /\ NoForeignBytes'
<1>1. /\ Owns(t) /\ ~Owns(t)'
      /\ slot[t] \in Slots /\ slot'[t] = NoSlot
      /\ POOL_IN_USE' = POOL_IN_USE \ {slot[t]}
      /\ contents' = contents
  BY DEF ReleaseSlot, LeaveConnection, Owns, OwnershipInv, TypeOK, SlotOfOwner
<1>2. \A u \in Tasks \ {t} : /\ Owns(u)' <=> Owns(u)
                             /\ slot'[u] = slot[u] /\ pc'[u] = pc[u]
  BY DEF ReleaseSlot, LeaveConnection, Owns, OwnershipInv, TypeOK
<1>3. \A u \in Tasks \ {t} : Owns(u) => slot[u] # slot[t]
  BY <1>1 DEF OwnershipInv, ExclusiveOwnership
<1>4. SlotOfOwner' /\ ExclusiveOwnership'
  BY <1>1, <1>2, PoolAssumption DEF OwnershipInv, SlotOfOwner, ExclusiveOwnership
<1>5. BitsMatchOwners'
  BY <1>1, <1>2, <1>3 DEF OwnershipInv, BitsMatchOwners
<1>6. NoForeignBytes'
  BY <1>1, <1>2 DEF ReleaseSlot, LeaveConnection, OwnershipInv, TypeOK, NoForeignBytes
<1> QED
  BY <1>4, <1>5, <1>6

\* Sockets appear with a claimed pair and go with it, or later.
LEMMA SocketStep ==
    ASSUME OwnershipInv, [Next]_vars
    PROVE  SocketOfOwner'
<1> SUFFICES ASSUME NEW u \in Tasks
             PROVE  /\ pc'[u] = "holding" => socket'[u] = slot'[u]
                    /\ socket'[u] # NoSlot => pc'[u] = "holding" \/ u \in DelayedDrop
  BY DEF SocketOfOwner
<1> USE DEF OwnershipInv, TypeOK
<1>0. /\ pc[u] = "holding" => socket[u] = slot[u]
      /\ socket[u] # NoSlot => pc[u] = "holding" \/ u \in DelayedDrop
  BY DEF SocketOfOwner
<1>1. ASSUME NEW t \in Tasks,
             CallClaim(t) \/ Load(t) \/ CasSucceeds(t) \/ CasFails(t) \/ Recheck(t) \/ ReturnError(t)
      PROVE  /\ socket' = socket
             /\ pc'[u] = "holding" <=> pc[u] = "holding"
             /\ pc[u] = "holding" => slot'[u] = slot[u]
  BY <1>1 DEF CallClaim, Load, CasSucceeds, CasFails, Recheck, ReturnError
<1>2. ASSUME NEW t \in Tasks, ZeroBuffers(t)
      PROVE  /\ pc'[u] = "holding" => socket'[u] = slot'[u]
             /\ socket'[u] # NoSlot => pc'[u] = "holding" \/ u \in DelayedDrop
  BY <1>0, <1>2 DEF ZeroBuffers
<1>3. ASSUME NEW t \in Tasks, UseBuffers(t)
      PROVE  UNCHANGED <<pc, slot, socket>>
  BY <1>3 DEF UseBuffers
<1>4. ASSUME NEW t \in Tasks, ReleaseSlot(t)
      PROVE  /\ pc'[u] = "holding" => socket'[u] = slot'[u]
             /\ socket'[u] # NoSlot => pc'[u] = "holding" \/ u \in DelayedDrop
  BY <1>0, <1>4 DEF ReleaseSlot, LeaveConnection
<1>5. ASSUME NEW t \in Tasks, LateDrop(t)
      PROVE  /\ pc'[u] = "holding" => socket'[u] = slot'[u]
             /\ socket'[u] # NoSlot => pc'[u] = "holding" \/ u \in DelayedDrop
  BY <1>0, <1>5 DEF LateDrop
<1>6. CASE UNCHANGED vars
  BY <1>0, <1>6 DEF vars
<1> QED
  BY <1>0, <1>1, <1>2, <1>3, <1>4, <1>5, <1>6 DEF Next, ClaimStep

LEMMA OwnershipStep ==
    ASSUME OwnershipInv, [Next]_vars
    PROVE  OwnershipInv'
<1> USE DEF OwnershipInv
<1>1. TypeOK'
  BY TypeStep
<1>2. ASSUME NEW t \in Tasks,
             \/ CallClaim(t) \/ Load(t) \/ CasFails(t) \/ Recheck(t)
             \/ LateDrop(t) \/ ReturnError(t)
      PROVE  SlotOfOwner' /\ ExclusiveOwnership' /\ BitsMatchOwners' /\ NoForeignBytes'
  <2>1. /\ UNCHANGED <<POOL_IN_USE, slot, contents>>
        /\ \A u \in Tasks : /\ Owns(u)' <=> Owns(u)
                            /\ pc'[u] = "holding" => pc[u] = "holding"
    BY <1>2 DEF CallClaim, Load, CasFails, Recheck, LateDrop, ReturnError, Owns, TypeOK
  <2>2. SlotOfOwner' /\ ExclusiveOwnership' /\ BitsMatchOwners'
    BY <2>1, SameOwners
  <2> QED
    BY <2>1, <2>2 DEF NoForeignBytes
<1>3. ASSUME NEW t \in Tasks, CasSucceeds(t)
      PROVE  SlotOfOwner' /\ ExclusiveOwnership' /\ BitsMatchOwners' /\ NoForeignBytes'
  BY <1>3, CasKeepsOwnership
<1>4. ASSUME NEW t \in Tasks, ZeroBuffers(t) \/ UseBuffers(t)
      PROVE  SlotOfOwner' /\ ExclusiveOwnership' /\ BitsMatchOwners' /\ NoForeignBytes'
  BY <1>4, ZeroKeepsOwnership, UseKeepsOwnership
<1>5. ASSUME NEW t \in Tasks, ReleaseSlot(t)
      PROVE  SlotOfOwner' /\ ExclusiveOwnership' /\ BitsMatchOwners' /\ NoForeignBytes'
  BY <1>5, ReleaseKeepsOwnership
<1>6. ASSUME UNCHANGED vars
      PROVE  SlotOfOwner' /\ ExclusiveOwnership' /\ BitsMatchOwners' /\ NoForeignBytes'
  <2>1. UNCHANGED <<POOL_IN_USE, slot>> /\ \A u \in Tasks : Owns(u)' <=> Owns(u)
    BY <1>6 DEF vars, Owns
  <2>2. SlotOfOwner' /\ ExclusiveOwnership' /\ BitsMatchOwners'
    BY <2>1, SameOwners
  <2>3. NoForeignBytes'
    BY <1>6 DEF vars, NoForeignBytes
  <2> QED
    BY <2>2, <2>3
<1>7. SocketOfOwner'
  BY SocketStep
<1> QED
  BY <1>1, <1>2, <1>3, <1>4, <1>5, <1>6, <1>7 DEF Next, ClaimStep

LEMMA OwnershipInvariant == Spec => []OwnershipInv
<1>1. Init => OwnershipInv
  BY PoolAssumption
  DEF Init, OwnershipInv, TypeOK, SlotOfOwner, SocketOfOwner, ExclusiveOwnership,
      BitsMatchOwners, NoForeignBytes, Owns
<1> QED
  BY <1>1, OwnershipStep, PTL DEF Spec

\* No two tasks ever own the same buffer pair: the SAFETY claim of BufSlot.
THEOREM PoolExclusive == Spec => []ExclusiveOwnership
<1>1. OwnershipInv => ExclusiveOwnership
  BY DEF OwnershipInv
<1> QED
  BY <1>1, OwnershipInvariant, PTL

\* The mask holds exactly the bits of the owned slots: none leaks.
THEOREM PoolNeverLeaks == Spec => []BitsMatchOwners
<1>1. OwnershipInv => BitsMatchOwners
  BY DEF OwnershipInv
<1> QED
  BY <1>1, OwnershipInvariant, PTL

\* A connection's buffers hold nothing that another task put there, but for
\* those that keep closed connections.
THEOREM PoolBuffersClean == Spec => []NoForeignBytes
<1>1. OwnershipInv => NoForeignBytes
  BY DEF OwnershipInv
<1> QED
  BY <1>1, OwnershipInvariant, PTL

\* If every task drops a closed connection before its next await, a
\* connection's buffers hold nothing of any other task.
THEOREM PromptDropKeepsClean ==
    ASSUME DelayedDrop = {}
    PROVE  Spec => [](\A t \in Tasks : pc[t] = "holding" => contents[slot[t]] \subseteq {t})
<1>1. NoForeignBytes => \A t \in Tasks : pc[t] = "holding" => contents[slot[t]] \subseteq {t}
  BY DEF NoForeignBytes
<1> QED
  BY <1>1, PoolBuffersClean, PTL

-----------------------------------------------------------------------------
\* A task that owns nothing sees at most the other tasks' bits in the mask,
\* so with no more tasks than pairs it cannot see the mask full.
LEMMA OutsiderSeesRoom ==
    ASSUME OwnershipInv, Cardinality(Tasks) <= MAX_CONNECTIONS,
           NEW t \in Tasks, ~Owns(t)
    PROVE  ~Full(POOL_IN_USE)
<1> DEFINE Others == Tasks \ {t}
           ownerOf == [s \in POOL_IN_USE |-> CHOOSE u \in Tasks : Owns(u) /\ slot[u] = s]
<1>1. IsFiniteSet(Others) /\ Cardinality(Others) = Cardinality(Tasks) - 1
  BY FS_RemoveElement, PoolAssumption
<1>2. IsFiniteSet(POOL_IN_USE)
  <2>1. IsFiniteSet(Slots)
    BY FS_Interval, PoolAssumption
  <2>2. POOL_IN_USE \in SUBSET Slots
    BY DEF OwnershipInv, TypeOK
  <2> QED
    BY <2>1, <2>2, FS_Subset
<1>3. \A s \in POOL_IN_USE : \E u \in Tasks : Owns(u) /\ slot[u] = s
  BY DEF OwnershipInv, BitsMatchOwners
<1>4. \A s \in POOL_IN_USE : /\ ownerOf[s] \in Others
                             /\ slot[ownerOf[s]] = s
  BY <1>3
<1>5. ownerOf \in [POOL_IN_USE -> Others]
  BY <1>4
<1> HIDE DEF ownerOf, Others
<1>6. ~(Cardinality(Others) < Cardinality(POOL_IN_USE))
  BY <1>1, <1>2, <1>4, <1>5, FS_PigeonHole
<1> QED
  BY <1>1, <1>2, <1>6, FS_CardinalityType, PoolAssumption DEF Full

\* With as many pairs as tasks a claim always gets one: the program's two
\* clients never meet NoFreeBuffers.
THEOREM PoolSuffices == Spec => []NeverDenied
<1>1. Init => NeverDenied
  BY DEF Init, NeverDenied
<1>2. ASSUME OwnershipInv, NeverDenied, [Next]_vars
      PROVE  NeverDenied'
  <2> SUFFICES ASSUME Cardinality(Tasks) <= MAX_CONNECTIONS,
                      NEW u \in Tasks, pc'[u] = "denied"
               PROVE  FALSE
    BY DEF NeverDenied
  <2>1. pc[u] # "denied"
    BY <1>2 DEF NeverDenied
  <2>2. pc[u] = "recheck" /\ Full(POOL_IN_USE)
    BY <1>2, <2>1
    DEF Next, vars, ClaimStep, CallClaim, Load, CasSucceeds, CasFails, Recheck,
        ZeroBuffers, UseBuffers, ReleaseSlot, LeaveConnection, LateDrop, ReturnError,
        OwnershipInv, TypeOK
  <2>3. ~Owns(u)
    BY <2>2 DEF Owns
  <2> QED
    BY <1>2, <2>2, <2>3, OutsiderSeesRoom
<1> QED
  BY <1>1, <1>2, OwnershipInvariant, PTL DEF Spec

-----------------------------------------------------------------------------
\* The slots the abstract allocator counts as taken are the mask's bits.
LEMMA MaskIsTaken ==
    ASSUME OwnershipInv
    PROVE  POOL_IN_USE = Allocator!Taken
<1>1. \A t \in Tasks : slot[t] # NoSlot <=> Owns(t)
  BY PoolAssumption DEF OwnershipInv, TypeOK, SlotOfOwner
<1> QED
  BY <1>1 DEF OwnershipInv, BitsMatchOwners, Allocator!Taken

\* A mask with MAX_CONNECTIONS one bits is the full mask.
LEMMA FullIsAll ==
    ASSUME NEW mask \in SUBSET Slots, Full(mask)
    PROVE  mask = Slots
<1>1. IsFiniteSet(Slots) /\ Cardinality(Slots) = MAX_CONNECTIONS
  <2>1. MAX_CONNECTIONS \in 1 .. 8
    BY PoolAssumption
  <2>2. 0 \in Int /\ MAX_CONNECTIONS - 1 \in Int /\ 0 <= MAX_CONNECTIONS - 1
    BY <2>1
  <2> QED
    BY <2>1, <2>2, FS_Interval
<1>2. /\ IsFiniteSet(mask)
      /\ Cardinality(mask) <= Cardinality(Slots)
      /\ Cardinality(Slots) = Cardinality(mask) => Slots = mask
  BY <1>1, FS_Subset
<1>3. Cardinality(mask) \in Nat
  BY <1>2, FS_CardinalityType
<1> QED
  BY <1>1, <1>2, <1>3, PoolAssumption DEF Full

\* The pool, loads and exchanges included, is an allocator of whole slots.
THEOREM PoolRefinesAllocator == Spec => ImplementsAllocator
<1>1. Init => Allocator!Init
  BY DEF Init, Allocator!Init, PhaseOf
<1>2. ASSUME OwnershipInv, [Next]_vars
      PROVE  [Allocator!Next]_(Allocator!vars)
  <2> USE <1>2 DEF PhaseOf
  <2>1. TypeOK
    BY DEF OwnershipInv
  <2>2. ASSUME NEW t \in Tasks, CallClaim(t)
        PROVE  Allocator!Ask(t)
    BY <2>1, <2>2 DEF CallClaim, TypeOK, Allocator!Ask
  <2>3. ASSUME NEW t \in Tasks, Load(t) \/ CasFails(t)
        PROVE  UNCHANGED Allocator!vars
    BY <2>1, <2>3 DEF Load, CasFails, TypeOK, Allocator!vars
  <2>4. ASSUME NEW t \in Tasks, CasSucceeds(t)
        PROVE  Allocator!Grant(t)
    BY <2>1, <2>4, MaskIsTaken DEF CasSucceeds, FirstFree, TypeOK, Allocator!Grant
  <2>5. ASSUME NEW t \in Tasks, Recheck(t)
        PROVE  Allocator!Refuse(t) \/ UNCHANGED Allocator!vars
    <3>1. CASE Full(POOL_IN_USE)
      <4>1. Slots \subseteq Allocator!Taken
        BY <2>1, <3>1, MaskIsTaken, FullIsAll DEF TypeOK
      <4> QED
        BY <2>1, <2>5, <3>1, <4>1 DEF Recheck, TypeOK, Allocator!Refuse
    <3>2. CASE ~Full(POOL_IN_USE)
      BY <2>1, <2>5, <3>2 DEF Recheck, TypeOK, Allocator!vars
    <3> QED
      BY <3>1, <3>2
  <2>6. ASSUME NEW t \in Tasks, ZeroBuffers(t) \/ UseBuffers(t) \/ LateDrop(t)
        PROVE  UNCHANGED Allocator!vars
    BY <2>1, <2>6 DEF ZeroBuffers, UseBuffers, LateDrop, TypeOK, Allocator!vars
  <2>7. ASSUME NEW t \in Tasks, ReleaseSlot(t)
        PROVE  Allocator!Return(t)
    BY <2>1, <2>7 DEF ReleaseSlot, LeaveConnection, TypeOK, Allocator!Return
  <2>8. ASSUME NEW t \in Tasks, ReturnError(t)
        PROVE  Allocator!GiveUp(t)
    BY <2>1, <2>8 DEF ReturnError, TypeOK, Allocator!GiveUp
  <2>9. CASE UNCHANGED vars
    BY <2>9 DEF vars, Allocator!vars
  <2> QED
    BY <2>2, <2>3, <2>4, <2>5, <2>6, <2>7, <2>8, <2>9
    DEF Next, ClaimStep, Allocator!Next
<1> QED
  BY <1>1, <1>2, OwnershipInvariant, PTL DEF Spec, Allocator!Spec, ImplementsAllocator
=============================================================================
