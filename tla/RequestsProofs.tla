---------------------------- MODULE RequestsProofs ---------------------------
(***************************************************************************)
(* Proofs about Connections and Requests for any tasks, pool, transcripts, *)
(* answers and number of retries: no slot leaks, a claimed pair is         *)
(* private, and live sockets share buffers only through a task that keeps  *)
(* a closed connection across an await.  The translation task does with    *)
(* its connection only what Connections allows, so all this holds while    *)
(* requests run, are cut off and fail.  And whatever the service sends and *)
(* however its answer is cut off, what is shown is the text that was sent. *)
(***************************************************************************)
EXTENDS Requests, SequenceTheorems, WellFoundedInduction, TLAPS

-----------------------------------------------------------------------------
(* Connections *)

\* A task without a claim has a socket only while it lingers, and only the
\* tasks in DelayedDrop linger.
SocketNeedsClaim ==
    \A t \in Tasks :
        /\ pc[t] \in {"idle", "dns"} => socket[t] = None
        /\ pc[t] = "lingering" => t \in DelayedDrop

\* The inductive invariant.
ConnectionInv ==
    /\ TypeOK
    /\ NoSlotLeak
    /\ ClaimedPairIsPrivate
    /\ SocketNeedsClaim

USE DEF Slots, Labels, Goto

-----------------------------------------------------------------------------
\* A step of t that claims nothing and releases nothing: it moves t from one
\* await to another on the same side of the claim.
Moves(t) ==
    /\ UNCHANGED <<POOL_IN_USE, slot, socket>>
    /\ \E label \in Labels : Goto(t, label)
    /\ attempt' \in [Tasks -> 0 .. MAX_TCP_RETRIES]
    /\ Claims(t)' <=> Claims(t)
    /\ pc'[t] \in {"idle", "dns"} => pc[t] \in {"idle", "dns"}
    /\ pc'[t] # "lingering"

LEMMA MovesKeepInv ==
    ASSUME ConnectionInv, NEW t \in Tasks, Moves(t)
    PROVE  ConnectionInv'
<1> USE DEF ConnectionInv, Moves
<1>1. TypeOK'
  BY DEF TypeOK
<1>2. \A u \in Tasks : Claims(u)' <=> Claims(u)
  BY DEF Claims, TypeOK
<1>3. NoSlotLeak' /\ ClaimedPairIsPrivate'
  BY <1>2 DEF NoSlotLeak, ClaimedPairIsPrivate
<1>4. SocketNeedsClaim'
  BY DEF SocketNeedsClaim, TypeOK
<1> QED
  BY <1>1, <1>3, <1>4

\* The claim sets a bit no task owned, for a pair no socket of a claimant uses.
LEMMA ClaimKeepsInv ==
    ASSUME ConnectionInv, NEW t \in Tasks, DnsAnswers(t)
    PROVE  ConnectionInv'
<1> USE DEF ConnectionInv
<1>1. PICK i \in Slots \ POOL_IN_USE :
         /\ POOL_IN_USE' = POOL_IN_USE \union {i}
         /\ slot' = [slot EXCEPT ![t] = i]
         /\ socket' = [socket EXCEPT ![t] = i]
  BY DEF DnsAnswers
<1>2. TypeOK'
  BY <1>1, ConnectionsAssumption DEF DnsAnswers, TypeOK
<1>3. /\ ~Claims(t) /\ Claims(t)'
      /\ slot'[t] = i /\ socket'[t] = i
      /\ pc'[t] = "tcp"
  BY <1>1 DEF DnsAnswers, Claims, TypeOK
<1>4. \A u \in Tasks \ {t} : /\ Claims(u)' <=> Claims(u)
                             /\ slot'[u] = slot[u] /\ socket'[u] = socket[u]
                             /\ pc'[u] = pc[u]
  BY <1>1 DEF DnsAnswers, Claims, TypeOK
<1>5. \A u \in Tasks : slot[u] # i
  BY <1>1, ConnectionsAssumption DEF NoSlotLeak
<1>6. NoSlotLeak'
  <2>1. \A u \in Tasks : slot'[u] # None <=> Claims(u)'
    BY <1>3, <1>4, ConnectionsAssumption DEF NoSlotLeak
  <2>2. POOL_IN_USE' = {slot'[u] : u \in {v \in Tasks : Claims(v)'}}
    BY <1>1, <1>3, <1>4 DEF NoSlotLeak
  <2> QED
    BY <2>1, <2>2 DEF NoSlotLeak
<1>7. ClaimedPairIsPrivate'
  BY <1>3, <1>4, <1>5 DEF ClaimedPairIsPrivate
<1>8. SocketNeedsClaim'
  BY <1>3, <1>4 DEF SocketNeedsClaim
<1> QED
  BY <1>2, <1>6, <1>7, <1>8

\* Releasing a claim clears its bit; the socket is dropped or lingers.
LEMMA ReleaseKeepsInv ==
    ASSUME ConnectionInv, NEW t \in Tasks, Claims(t), ReleaseSlot(t),
           attempt' \in [Tasks -> 0 .. MAX_TCP_RETRIES],
           \/ DropSocket(t) /\ Goto(t, "idle")
           \/ t \in DelayedDrop /\ UNCHANGED socket /\ Goto(t, "lingering")
    PROVE  ConnectionInv'
<1> USE DEF ConnectionInv
<1>1. TypeOK'
  BY DEF ReleaseSlot, DropSocket, TypeOK
<1>2. /\ ~Claims(t)'
      /\ slot'[t] = None
      /\ slot[t] # None
      /\ POOL_IN_USE' = POOL_IN_USE \ {slot[t]}
  BY DEF ReleaseSlot, Claims, TypeOK, NoSlotLeak
<1>3. \A u \in Tasks \ {t} : /\ Claims(u)' <=> Claims(u)
                             /\ slot'[u] = slot[u] /\ socket'[u] = socket[u]
                             /\ pc'[u] = pc[u]
  BY DEF ReleaseSlot, DropSocket, Claims, TypeOK
<1>4. \A u \in Tasks \ {t} : slot[u] # slot[t]
  BY DEF ClaimedPairIsPrivate
<1>5. NoSlotLeak'
  <2>1. \A u \in Tasks : slot'[u] # None <=> Claims(u)'
    BY <1>2, <1>3 DEF NoSlotLeak
  <2>2. POOL_IN_USE' = {slot'[u] : u \in {v \in Tasks : Claims(v)'}}
    BY <1>2, <1>3, <1>4 DEF NoSlotLeak
  <2> QED
    BY <2>1, <2>2 DEF NoSlotLeak
<1>6. ClaimedPairIsPrivate'
  <2> SUFFICES ASSUME NEW u \in Tasks, Claims(u)'
               PROVE  /\ socket'[u] = slot'[u]
                      /\ \A v \in Tasks \ {u} : slot'[v] # slot'[u]
    BY DEF ClaimedPairIsPrivate
  <2>1. u # t /\ Claims(u) /\ slot'[u] # None
    BY <1>2, <1>3, <1>5 DEF NoSlotLeak
  <2> QED
    BY <2>1, <1>2, <1>3 DEF ClaimedPairIsPrivate
<1>7. SocketNeedsClaim'
  BY <1>3 DEF DropSocket, SocketNeedsClaim, TypeOK
<1> QED
  BY <1>1, <1>5, <1>6, <1>7

\* Dropping a lingering connection changes nothing that is claimed.
LEMMA LateDropKeepsInv ==
    ASSUME ConnectionInv, NEW t \in Tasks, LateDrop(t)
    PROVE  ConnectionInv'
<1> USE DEF ConnectionInv
<1>1. TypeOK'
  BY DEF LateDrop, DropSocket, TypeOK
<1>2. /\ UNCHANGED <<POOL_IN_USE, slot>>
      /\ ~Claims(t) /\ ~Claims(t)'
      /\ \A u \in Tasks \ {t} : socket'[u] = socket[u] /\ pc'[u] = pc[u]
      /\ socket'[t] = None /\ pc'[t] = "idle"
  BY DEF LateDrop, DropSocket, Claims, TypeOK
<1>3. \A u \in Tasks : Claims(u)' <=> Claims(u)
  BY <1>2 DEF Claims
<1>4. NoSlotLeak' /\ ClaimedPairIsPrivate' /\ SocketNeedsClaim'
  BY <1>2, <1>3 DEF NoSlotLeak, ClaimedPairIsPrivate, SocketNeedsClaim
<1> QED
  BY <1>1, <1>4

-----------------------------------------------------------------------------
LEMMA ConnectionStep ==
    ASSUME ConnectionInv, [Next]_vars
    PROVE  ConnectionInv'
<1> USE DEF ConnectionInv
<1>1. ASSUME NEW t \in Tasks,
             \/ Open(t) \/ DnsFails(t) \/ NoFreeBuffers(t)
             \/ TcpFails(t) \/ TcpRetry(t)
             \/ PlainOpens(t) \/ TlsStarts(t) \/ HandshakeSucceeds(t)
             \/ StartTlsClose(t)
      PROVE  ConnectionInv'
  <2>1. Moves(t)
    BY <1>1, ConnectionsAssumption
    DEF Open, DnsFails, NoFreeBuffers, TcpFails, TcpRetry, PlainOpens, TlsStarts,
        HandshakeSucceeds, StartTlsClose, Moves, Claims, TypeOK
  <2> QED
    BY <2>1, MovesKeepInv
<1>2. ASSUME NEW t \in Tasks, DnsAnswers(t)
      PROVE  ConnectionInv'
  BY <1>2, ClaimKeepsInv
<1>3. ASSUME NEW t \in Tasks,
             \/ TcpGivesUp(t) \/ TlsSessionFails(t) \/ HandshakeFails(t)
             \/ ClosePlain(t) \/ FinishTlsClose(t)
      PROVE  ConnectionInv'
  <2>1. /\ Claims(t) /\ ReleaseSlot(t)
        /\ attempt' \in [Tasks -> 0 .. MAX_TCP_RETRIES]
        /\ \/ DropSocket(t) /\ Goto(t, "idle")
           \/ t \in DelayedDrop /\ UNCHANGED socket /\ Goto(t, "lingering")
    BY <1>3, ConnectionsAssumption
    DEF TcpGivesUp, TlsSessionFails, HandshakeFails, ClosePlain, FinishTlsClose,
        FailOpen, CloseReturns, Claims, TypeOK
  <2> QED
    BY <2>1, ReleaseKeepsInv
<1>4. ASSUME NEW t \in Tasks, LateDrop(t)
      PROVE  ConnectionInv'
  BY <1>4, LateDropKeepsInv
<1>5. CASE UNCHANGED vars
  BY <1>5
  DEF vars, TypeOK, Claims, NoSlotLeak, ClaimedPairIsPrivate, SocketNeedsClaim
<1> QED
  BY <1>1, <1>2, <1>3, <1>4, <1>5 DEF Next, Progress

LEMMA ConnectionInvariant == Spec => []ConnectionInv
<1>1. Init => ConnectionInv
  BY ConnectionsAssumption
  DEF Init, ConnectionInv, TypeOK, NoSlotLeak, ClaimedPairIsPrivate,
      SocketNeedsClaim, Claims
<1> QED
  BY <1>1, ConnectionStep, PTL DEF Spec

\* No path through an open or a close leaks a slot or releases it twice.
THEOREM SlotsNeverLeak == Spec => []NoSlotLeak
<1>1. ConnectionInv => NoSlotLeak
  BY DEF ConnectionInv
<1> QED
  BY <1>1, ConnectionInvariant, PTL

\* While a task has its claim, nobody else's claim is on the same pair.
THEOREM ClaimIsPrivate == Spec => []ClaimedPairIsPrivate
<1>1. ConnectionInv => ClaimedPairIsPrivate
  BY DEF ConnectionInv
<1> QED
  BY <1>1, ConnectionInvariant, PTL

\* Two sockets that share buffers: one belongs to a lingering connection.
LEMMA SharersLinger == ConnectionInv => SharingNeedsLinger
<1> SUFFICES ASSUME ConnectionInv,
                    NEW t \in Tasks, NEW u \in Tasks,
                    t # u, socket[t] # None, socket[t] = socket[u],
                    pc[t] # "lingering", pc[u] # "lingering"
             PROVE  FALSE
  BY DEF SharingNeedsLinger
<1>1. Claims(t) /\ Claims(u)
  BY DEF ConnectionInv, SocketNeedsClaim, Claims, TypeOK
<1> QED
  BY <1>1 DEF ConnectionInv, ClaimedPairIsPrivate

\* Buffers are shared only through a closed connection not yet dropped.
THEOREM SharingOnlyByLinger == Spec => []SharingNeedsLinger
BY SharersLinger, ConnectionInvariant, PTL

\* The SAFETY comment holds of a program in which every task drops a
\* connection before its first await after close().
THEOREM PromptDropIsSafe ==
    ASSUME DelayedDrop = {}
    PROVE  Spec => []NoSharedBuffers
<1>1. ConnectionInv => NoSharedBuffers
  BY SharersLinger DEF ConnectionInv, SocketNeedsClaim, SharingNeedsLinger, NoSharedBuffers
<1> QED
  BY <1>1, ConnectionInvariant, PTL

HIDE DEF Slots, Labels, Goto

-----------------------------------------------------------------------------
(* Requests *)

\* A request, however it ends, is for the connections a stutter; the close
\* after it is a close.
THEOREM RequestsImplementConnections == RequestsSpec => Spec
<1>1. RequestsInit => Init
  BY DEF RequestsInit
<1>2. [RequestsNext]_allVars => [Next]_vars
  <2> SUFFICES ASSUME [RequestsNext]_allVars
               PROVE  [Next]_vars
    OBVIOUS
  <2>1. CASE Opens
    BY <2>1 DEF Opens, Next
  <2>2. CASE \E t \in Tasks : Proceed(t)
    BY <2>2 DEF Proceed, Next
  <2>3. CASE Request
    BY <2>3 DEF Request
  <2>4. CASE CloseAfterRequest
    BY <2>4, TranslatorAssumption DEF CloseAfterRequest, Next
  <2>5. CASE OthersClose
    BY <2>5 DEF OthersClose, Next
  <2>6. CASE UNCHANGED allVars
    BY <2>6 DEF allVars, vars
  <2> QED
    BY <2>1, <2>2, <2>3, <2>4, <2>5, <2>6 DEF RequestsNext
<1> QED
  BY <1>1, <1>2, PTL DEF RequestsSpec, Spec

\* Requests leak no buffers, whatever the service answers.
THEOREM RequestsLeakNothing == RequestsSpec => []NoSlotLeak
BY RequestsImplementConnections, SlotsNeverLeak, PTL

\* Buffers are shared only through a lingering connection, whatever requests do.
THEOREM RequestsShareByLinger == RequestsSpec => []SharingNeedsLinger
BY RequestsImplementConnections, SharingOnlyByLinger, PTL

-----------------------------------------------------------------------------
(* The searches of the parser *)

\* A set of natural numbers that is not empty has a least one.
LEMMA LeastExists ==
    ASSUME NEW T, T \subseteq Nat, T # {}
    PROVE  \E x \in T : \A z \in T : x <= z
<1>1. \E x \in T : \A z \in T : ~(<<z, x>> \in OpToRel(<, Nat))
  BY NatLessThanWellFounded, WFMin, Zenon
<1>2. PICK x \in T : \A z \in T : ~(z < x)
  <2>1. ASSUME NEW x \in Nat, NEW z \in Nat, z < x
        PROVE  <<z, x>> \in OpToRel(<, Nat)
    BY <2>1, Zenon DEF OpToRel
  <2> QED
    BY <1>1, <2>1, Zenon
<1> QED
  BY <1>2

\* Induction over the natural numbers in a set.
LEMMA CountsUp ==
    ASSUME NEW T, 0 \in T, \A n \in Nat : n \in T => n + 1 \in T
    PROVE  Nat \subseteq T
<1> SUFFICES ASSUME Nat \ T # {} PROVE FALSE
  OBVIOUS
<1>1. PICK x \in Nat \ T : \A z \in Nat \ T : x <= z
  BY LeastExists
<1>2. x # 0 /\ x - 1 \in Nat /\ (x - 1) + 1 = x
  BY <1>1
<1>3. x - 1 \in T
  BY <1>1, <1>2
<1> QED
  BY <1>1, <1>2, <1>3

\* f is the first place of unit u in s from place i on, or 0 if there is none.
IsFirst(f, s, u, i) ==
    \/ f = 0 /\ \A k \in i .. Len(s) : s[k] # u
    \/ f \in i .. Len(s) /\ s[f] = u /\ \A k \in i .. f - 1 : s[k] # u

LEMMA FindsFirst ==
    ASSUME NEW s, Len(s) \in Nat, NEW i \in Nat \ {0}, NEW u
    PROVE  IsFirst(Client!Find(s, u, i), s, u, i)
<1> DEFINE I == {k \in i .. Len(s) : s[k] = u}
<1>1. PICK f : f = Client!Find(s, u, i)
  OBVIOUS
<1>2. f = IF I # {} THEN Client!Min(I) ELSE 0
  BY <1>1, Zenon DEF Client!Find, Client!SelectInSubSeq
<1>3. CASE I = {}
  <2>1. f = 0 /\ \A k \in i .. Len(s) : s[k] # u
    BY <1>2, <1>3
  <2> QED
    BY <2>1, <1>1 DEF IsFirst
<1>4. CASE I # {}
  <2>1. I \subseteq Nat
    OBVIOUS
  <2>2. \E x \in I : \A z \in I : x <= z
    BY <2>1, <1>4, LeastExists
  <2>3. Client!Min(I) \in I /\ \A z \in I : Client!Min(I) <= z
    BY <2>2, Zenon DEF Client!Min
  <2>4. f \in I /\ \A z \in I : f <= z
    BY <2>3, <1>2, <1>4, Zenon
  <2>5. f \in i .. Len(s) /\ s[f] = u /\ \A k \in i .. f - 1 : s[k] # u
    BY <2>4
  <2> QED
    BY <2>5, <1>1 DEF IsFirst
<1> QED
  BY <1>3, <1>4

-----------------------------------------------------------------------------
(* Sequences put together *)

\* w is s and then t.
Joins(w, s, t) ==
    /\ Len(w) = Len(s) + Len(t)
    /\ \A i \in 1 .. Len(s) : w[i] = s[i]
    /\ \A i \in 1 .. Len(t) : w[Len(s) + i] = t[i]

LEMMA ConcatJoins ==
    ASSUME NEW S, NEW s \in Seq(S), NEW t \in Seq(S)
    PROVE  s \o t \in Seq(S) /\ Joins(s \o t, s, t)
<1>1. Len(s) \in Nat /\ Len(t) \in Nat
  BY LenProperties
<1>2. PICK w : w = s \o t
  OBVIOUS
<1>3. /\ w \in Seq(S) /\ Len(w) = Len(s) + Len(t)
      /\ \A i \in 1 .. Len(s) + Len(t) : w[i] = IF i <= Len(s) THEN s[i] ELSE t[i - Len(s)]
  BY <1>2, ConcatProperties, Zenon
<1>4. \A i \in 1 .. Len(s) : w[i] = s[i]
  BY <1>1, <1>3
<1>5. \A i \in 1 .. Len(t) : w[Len(s) + i] = t[i]
  <2> TAKE i \in 1 .. Len(t)
  <2>1. /\ Len(s) + i \in 1 .. Len(s) + Len(t)
        /\ ~(Len(s) + i <= Len(s)) /\ Len(s) + i - Len(s) = i
    BY <1>1
  <2> QED
    BY <1>3, <2>1
<1> QED
  BY <1>2, <1>3, <1>4, <1>5, Zenon DEF Joins

\* The first n units of a sequence.
LEMMA ReadIsPrefix ==
    ASSUME NEW U, NEW w \in Seq(U), NEW n \in 0 .. Len(w)
    PROVE  /\ SubSeq(w, 1, n) \in Seq(U)
           /\ Len(SubSeq(w, 1, n)) = n
           /\ \A i \in 1 .. n : SubSeq(w, 1, n)[i] = w[i]
<1>1. Len(w) \in Nat /\ \A i \in 1 .. n : w[i] \in U
  BY LenProperties, ElementOfSeq
<1>2. PICK r : r = SubSeq(w, 1, n)
  OBVIOUS
<1>3. /\ r \in Seq(U)
      /\ Len(r) = IF 1 <= n THEN n - 1 + 1 ELSE 0
      /\ \A i \in 1 .. n - 1 + 1 : r[i] = w[1 + i - 1]
  BY <1>1, <1>2, SubSeqProperties
<1> QED
  BY <1>1, <1>2, <1>3

\* What follows place k of a sequence.
LEMMA RestOf ==
    ASSUME NEW U, NEW s \in Seq(U), NEW k \in 0 .. Len(s), NEW l \in k .. Len(s)
    PROVE  /\ SubSeq(s, k + 1, l) \in Seq(U)
           /\ Len(SubSeq(s, k + 1, l)) = l - k
           /\ \A i \in 1 .. l - k : SubSeq(s, k + 1, l)[i] = s[k + i]
<1>1. Len(s) \in Nat /\ \A i \in k + 1 .. l : s[i] \in U
  BY LenProperties, ElementOfSeq
<1>2. PICK r : r = SubSeq(s, k + 1, l)
  OBVIOUS
<1>3. /\ r \in Seq(U)
      /\ Len(r) = IF k + 1 <= l THEN l - (k + 1) + 1 ELSE 0
      /\ \A i \in 1 .. l - (k + 1) + 1 : r[i] = s[(k + 1) + i - 1]
  BY <1>1, <1>2, SubSeqProperties
<1>4. Len(r) = l - k /\ \A i \in 1 .. l - k : r[i] = s[k + i]
  BY <1>1, <1>3
<1> QED
  BY <1>2, <1>3, <1>4

-----------------------------------------------------------------------------
(* A text as JSON writes it *)

LEMMA EscapedIs ==
    ASSUME NEW c \in Client!TextUnits
    PROVE  /\ Client!Escaped(c) \in Seq(Client!WrittenUnits)
           /\ c # "quote" => \A i \in 1 .. Len(Client!Escaped(c)) : Client!Escaped(c)[i] # "quote"
           /\ c # "quote" /\ c # "special" => Client!Escaped(c) = <<c>>
<1>1. CASE c = "quote"
  <2>1. Client!Escaped(c) = <<"slash", "quote">>
    BY <1>1 DEF Client!Escaped
  <2>2. <<"slash", "quote">> \in Seq(Client!WrittenUnits)
    BY DEF Client!WrittenUnits
  <2> QED
    BY <1>1, <2>1, <2>2
<1>2. CASE c = "special"
  <2>1. PICK e : e = <<"slash", "char">>
    OBVIOUS
  <2>2. Client!Escaped(c) = e
    BY <1>2, <2>1 DEF Client!Escaped
  <2>3. e \in Seq(Client!WrittenUnits)
    BY <2>1 DEF Client!WrittenUnits
  <2>4. Len(e) = 2 /\ e[1] = "slash" /\ e[2] = "char"
    BY <2>1
  <2>5. \A i \in 1 .. Len(e) : e[i] # "quote"
    BY <2>4
  <2> QED
    BY <1>2, <2>2, <2>3, <2>5, Zenon
<1>3. CASE c # "quote" /\ c # "special"
  <2>1. Client!Escaped(c) = <<c>>
    BY <1>3 DEF Client!Escaped
  <2>2. c \in Client!WrittenUnits
    BY <1>3 DEF Client!TextUnits, Client!WrittenUnits
  <2> QED
    BY <1>3, <2>1, <2>2
<1> QED
  BY <1>1, <1>2, <1>3

\* f[k] is the first k units of the text, written, up to the first n.
Writes(f, text, n) ==
    /\ f \in [0 .. n -> Seq(Client!WrittenUnits)]
    /\ f[0] = <<>>
    /\ \A k \in 1 .. n : f[k] = f[k - 1] \o Client!Escaped(text[k])

LEMMA WritingExists ==
    ASSUME NEW text \in Seq(Client!TextUnits)
    PROVE  \E f : Writes(f, text, Len(text))
<1>1. PICK len \in Nat : len = Len(text)
  BY LenProperties
<1>2. \A k \in 1 .. len : Client!Escaped(text[k]) \in Seq(Client!WrittenUnits)
  BY <1>1, ElementOfSeq, EscapedIs
<1> DEFINE T == {n \in Nat : n <= len => \E f : Writes(f, text, n)}
<1>3. 0 \in T
  <2>1. <<>> \in Seq(Client!WrittenUnits)
    BY EmptySeq
  <2>2. Writes([k \in 0 .. 0 |-> <<>>], text, 0)
    BY <2>1 DEF Writes
  <2> QED
    BY <2>2
<1>4. ASSUME NEW n \in Nat, n \in T PROVE n + 1 \in T
  <2> SUFFICES ASSUME n + 1 <= len PROVE \E f : Writes(f, text, n + 1)
    OBVIOUS
  <2>1. PICK f : Writes(f, text, n)
    BY <1>4
  <2>2. PICK e : e = f[n] \o Client!Escaped(text[n + 1])
    OBVIOUS
  <2>3. e \in Seq(Client!WrittenUnits)
    <3>1. f[n] \in Seq(Client!WrittenUnits) /\ n + 1 \in 1 .. len
      BY <2>1 DEF Writes
    <3>2. Client!Escaped(text[n + 1]) \in Seq(Client!WrittenUnits)
      BY <1>2, <3>1, Zenon
    <3> QED
      BY <2>2, <3>1, <3>2, ConcatProperties, Zenon
  <2>4. PICK g : g = [k \in 0 .. n + 1 |-> IF k <= n THEN f[k] ELSE e]
    OBVIOUS
  <2>5. g \in [0 .. n + 1 -> Seq(Client!WrittenUnits)] /\ g[0] = <<>>
    BY <2>1, <2>3, <2>4 DEF Writes
  <2>6. \A k \in 1 .. n + 1 : g[k] = g[k - 1] \o Client!Escaped(text[k])
    <3> TAKE k \in 1 .. n + 1
    <3>1. CASE k <= n
      <4>1. k \in 1 .. n /\ k - 1 \in 0 .. n + 1 /\ k - 1 <= n /\ k \in 0 .. n + 1
        BY <3>1
      <4>2. g[k] = f[k] /\ g[k - 1] = f[k - 1]
        BY <2>4, <3>1, <4>1
      <4> QED
        BY <2>1, <4>1, <4>2, Zenon DEF Writes
    <3>2. CASE k = n + 1
      <4>1. g[k] = e /\ g[n] = f[n] /\ k - 1 = n
        BY <2>4, <3>2
      <4> QED
        BY <2>2, <3>2, <4>1
    <3>3. k <= n \/ k = n + 1
      OBVIOUS
    <3> QED
      BY <3>1, <3>2, <3>3, Zenon
  <2>7. Writes(g, text, n + 1)
    BY <2>5, <2>6, Zenon DEF Writes
  <2> QED
    BY <2>7
<1>5. Nat \subseteq T
  <2> HIDE DEF T
  <2> QED
    BY <1>3, <1>4, CountsUp
<1> QED
  BY <1>1, <1>5

LEMMA WrittenIsLast ==
    ASSUME NEW text \in Seq(Client!TextUnits)
    PROVE  \E f : Writes(f, text, Len(text)) /\ Client!Written(text) = f[Len(text)]
<1>1. PICK len \in Nat : len = Len(text)
  BY LenProperties
<1> DEFINE Is(g) == g = [n \in 0 .. Len(text) |->
                            IF n = 0 THEN <<>> ELSE g[n - 1] \o Client!Escaped(text[n])]
<1>2. PICK f : Writes(f, text, Len(text))
  BY WritingExists
<1>3. Is(f)
  <2>1. f = [n \in 0 .. Len(text) |-> f[n]]
    BY <1>2 DEF Writes
  <2>2. \A n \in 0 .. Len(text) :
            f[n] = IF n = 0 THEN <<>> ELSE f[n - 1] \o Client!Escaped(text[n])
    <3> TAKE n \in 0 .. Len(text)
    <3>1. CASE n = 0
      BY <1>2, <3>1 DEF Writes
    <3>2. CASE n # 0
      <4>1. n \in 1 .. Len(text)
        BY <1>1, <3>2
      <4> QED
        BY <1>2, <3>2, <4>1, Zenon DEF Writes
    <3> QED
      BY <3>1, <3>2
  <2> QED
    BY <2>1, <2>2, Zenon
<1>4. PICK w : w = CHOOSE g : Is(g)
  OBVIOUS
<1>5. Is(w)
  BY <1>3, <1>4, Zenon
<1>6. Client!Written(text) = w[Len(text)]
  BY <1>4, Zenon DEF Client!Written
<1>7. \A n \in 0 .. len : w[n] = f[n]
  <2> DEFINE T == {n \in Nat : n <= len => w[n] = f[n]}
  <2>1. 0 \in T
    <3>1. 0 \in 0 .. Len(text)
      BY <1>1
    <3>2. w[0] = <<>> /\ f[0] = <<>>
      BY <1>3, <1>5, <3>1, Zenon
    <3> QED
      BY <3>2
  <2>2. ASSUME NEW n \in Nat, n \in T PROVE n + 1 \in T
    <3> SUFFICES ASSUME n + 1 <= len PROVE w[n + 1] = f[n + 1]
      OBVIOUS
    <3>1. PICK m \in 0 .. Len(text) : m = n + 1 /\ m - 1 = n /\ m # 0
      BY <1>1
    <3>2. w[m] = w[m - 1] \o Client!Escaped(text[m])
      BY <1>5, <3>1, Zenon
    <3>3. f[m] = f[m - 1] \o Client!Escaped(text[m])
      BY <1>3, <3>1, Zenon
    <3>4. w[n] = f[n]
      BY <2>2
    <3> QED
      BY <3>1, <3>2, <3>3, <3>4, Zenon
  <2>3. Nat \subseteq T
    <3> HIDE DEF T
    <3> QED
      BY <2>1, <2>2, CountsUp
  <2> QED
    BY <2>3
<1> QED
  BY <1>1, <1>2, <1>6, <1>7

\* A text without escapes is written as it is, and only a quote brings a quote.
LEMMA WrittenIs ==
    ASSUME NEW text \in Seq(Client!TextUnits)
    PROVE  /\ Client!Written(text) \in Seq(Client!WrittenUnits)
           /\ ~Client!HasQuote(text) =>
                  \A i \in 1 .. Len(Client!Written(text)) : Client!Written(text)[i] # "quote"
           /\ ~Client!HasEscape(text) => Client!Written(text) = text
<1>1. PICK len \in Nat : len = Len(text)
  BY LenProperties
<1>2. PICK f : Writes(f, text, Len(text)) /\ Client!Written(text) = f[Len(text)]
  BY WrittenIsLast
<1>3. \A k \in 1 .. len :
          /\ text[k] \in Client!TextUnits
          /\ f[k] \in Seq(Client!WrittenUnits) /\ f[k - 1] \in Seq(Client!WrittenUnits)
          /\ f[k] = f[k - 1] \o Client!Escaped(text[k])
  <2> TAKE k \in 1 .. len
  <2>1. k \in 0 .. Len(text) /\ k - 1 \in 0 .. Len(text) /\ k \in 1 .. Len(text)
    BY <1>1
  <2> QED
    BY <1>2, <2>1, ElementOfSeq DEF Writes
<1>4. f[0] = <<>> /\ f[len] \in Seq(Client!WrittenUnits)
  BY <1>1, <1>2 DEF Writes
<1>5. ASSUME ~Client!HasQuote(text)
      PROVE  \A i \in 1 .. Len(f[len]) : f[len][i] # "quote"
  <2>1. \A k \in 1 .. len : text[k] # "quote"
    BY <1>1, <1>5 DEF Client!HasQuote, Client!Contains
  <2> DEFINE Free(s) == \A i \in 1 .. Len(s) : s[i] # "quote"
             T == {n \in Nat : n <= len => Free(f[n])}
  <2>2. 0 \in T
    BY <1>4
  <2>3. ASSUME NEW n \in Nat, n \in T PROVE n + 1 \in T
    <3> SUFFICES ASSUME n + 1 <= len PROVE Free(f[n + 1])
      OBVIOUS
    <3>1. PICK m \in 1 .. len : m = n + 1 /\ m - 1 = n
      OBVIOUS
    <3>2. f[m] = f[m - 1] \o Client!Escaped(text[m]) /\ f[m - 1] \in Seq(Client!WrittenUnits)
      BY <1>3, <3>1, Zenon
    <3>3. PICK e : e = Client!Escaped(text[m])
      OBVIOUS
    <3>4. e \in Seq(Client!WrittenUnits) /\ Free(e)
      BY <1>3, <2>1, <3>1, <3>3, EscapedIs
    <3>5. PICK s : s = f[n]
      OBVIOUS
    <3>6. s \in Seq(Client!WrittenUnits) /\ Free(s) /\ f[n + 1] = s \o e
      <4>1. s \in Seq(Client!WrittenUnits) /\ f[n + 1] = s \o e
        BY <3>1, <3>3, <3>5, <3>2, Zenon
      <4>2. Free(s)
        BY <2>3, <3>5
      <4> QED
        BY <4>1, <4>2
    <3>7. PICK w : w = s \o e
      OBVIOUS
    <3>8. Joins(w, s, e) /\ Len(s) \in Nat /\ Len(e) \in Nat
      BY <3>4, <3>6, <3>7, ConcatJoins, LenProperties
    <3>9. ASSUME NEW i \in 1 .. Len(w) PROVE w[i] # "quote"
      <4>1. CASE i <= Len(s)
        BY <3>6, <3>8, <4>1 DEF Joins
      <4>2. CASE i > Len(s)
        <5>1. i - Len(s) \in 1 .. Len(e) /\ Len(s) + (i - Len(s)) = i
          BY <3>8, <4>2 DEF Joins
        <5>2. w[Len(s) + (i - Len(s))] = e[i - Len(s)]
          BY <3>8, <5>1 DEF Joins
        <5> QED
          BY <3>4, <5>1, <5>2
      <4> QED
        BY <3>8, <4>1, <4>2 DEF Joins
    <3> QED
      BY <3>6, <3>7, <3>9
  <2>4. Nat \subseteq T
    <3> HIDE DEF T
    <3> QED
      BY <2>2, <2>3, CountsUp
  <2> QED
    BY <2>4
<1>6. ASSUME ~Client!HasEscape(text)
      PROVE  f[len] = text
  <2>1. \A k \in 1 .. len : text[k] # "quote" /\ text[k] # "special"
    BY <1>1, <1>6 DEF Client!HasEscape, Client!HasQuote, Client!Contains
  <2> DEFINE Same(s, n) == Len(s) = n /\ \A i \in 1 .. n : s[i] = text[i]
             T == {n \in Nat : n <= len => Same(f[n], n)}
  <2>2. 0 \in T
    BY <1>4
  <2>3. ASSUME NEW n \in Nat, n \in T PROVE n + 1 \in T
    <3> SUFFICES ASSUME n + 1 <= len PROVE Same(f[n + 1], n + 1)
      OBVIOUS
    <3>1. PICK m \in 1 .. len : m = n + 1 /\ m - 1 = n
      OBVIOUS
    <3>2. f[m] = f[m - 1] \o Client!Escaped(text[m]) /\ f[m - 1] \in Seq(Client!WrittenUnits)
      BY <1>3, <3>1, Zenon
    <3>3. PICK e : e = Client!Escaped(text[m])
      OBVIOUS
    <3>4. e \in Seq(Client!WrittenUnits) /\ Len(e) = 1 /\ e[1] = text[m]
      <4>1. text[m] \in Client!TextUnits /\ text[m] # "quote" /\ text[m] # "special"
        BY <1>3, <2>1, <3>1
      <4>2. PICK c \in Client!TextUnits : c = text[m] /\ c # "quote" /\ c # "special"
        BY <4>1
      <4>3. e = <<c>> /\ e \in Seq(Client!WrittenUnits)
        BY <3>3, <4>2, EscapedIs, Zenon
      <4> QED
        BY <4>2, <4>3
    <3>5. PICK s : s = f[n]
      OBVIOUS
    <3>6. s \in Seq(Client!WrittenUnits) /\ Same(s, n) /\ f[n + 1] = s \o e
      <4>1. s \in Seq(Client!WrittenUnits) /\ f[n + 1] = s \o e
        BY <3>1, <3>3, <3>5, <3>2, Zenon
      <4>2. Same(s, n)
        BY <2>3, <3>5
      <4> QED
        BY <4>1, <4>2
    <3>7. PICK w : w = s \o e
      OBVIOUS
    <3>8. Joins(w, s, e)
      BY <3>4, <3>6, <3>7, ConcatJoins
    <3>9. Same(w, n + 1)
      BY <3>1, <3>4, <3>6, <3>8 DEF Joins
    <3> QED
      BY <3>6, <3>7, <3>9
  <2>4. Nat \subseteq T
    <3> HIDE DEF T
    <3> QED
      BY <2>2, <2>3, CountsUp
  <2>5. Same(f[len], len)
    BY <2>4
  <2>6. PICK w : w = f[len]
    OBVIOUS
  <2>7. PICK U : U = Client!TextUnits \union Client!WrittenUnits
    OBVIOUS
  <2>8. w \in Seq(U) /\ text \in Seq(U)
    <3>1. Client!TextUnits \subseteq U /\ Client!WrittenUnits \subseteq U
      BY <2>7
    <3> QED
      BY <1>4, <2>6, <3>1, SeqMonotonic, Zenon
  <2>9. Len(w) = Len(text) /\ \A i \in 1 .. Len(w) : w[i] = text[i]
    BY <1>1, <2>5, <2>6
  <2>10. w = text
    BY <2>8, <2>9, SeqEqual, Zenon
  <2> QED
    BY <2>6, <2>10
<1> QED
  BY <1>1, <1>2, <1>4, <1>5, <1>6

-----------------------------------------------------------------------------
(* What the service sends *)

WireTextUnits == Client!WrittenUnits \union {"boundary"}
JsonUnits == WireTextUnits \union {"key", "key_end", "json"}

\* w is s with a chunk boundary after its first k units.
Inserts(w, s, k) ==
    /\ Len(w) = Len(s) + 1
    /\ \A i \in 1 .. k : w[i] = s[i]
    /\ w[k + 1] = "boundary"
    /\ \A i \in k + 1 .. Len(s) : w[i + 1] = s[i]

LEMMA WithBoundaryInserts ==
    ASSUME NEW U, "boundary" \in U, NEW s \in Seq(U), NEW k \in 0 .. Len(s)
    PROVE  /\ Client!WithBoundary(s, k) \in Seq(U)
           /\ Inserts(Client!WithBoundary(s, k), s, k)
<1> DEFINE b == <<"boundary">>
<1>1. Len(s) \in Nat
  BY LenProperties
<1>2. PICK a : a = SubSeq(s, 1, k)
  OBVIOUS
<1>3. PICK c : c = SubSeq(s, k + 1, Len(s))
  OBVIOUS
<1>4. a \in Seq(U) /\ Len(a) = k /\ \A i \in 1 .. k : a[i] = s[i]
  BY <1>2, ReadIsPrefix
<1>5. c \in Seq(U) /\ Len(c) = Len(s) - k /\ \A i \in 1 .. Len(s) - k : c[i] = s[k + i]
  <2>1. Len(s) \in k .. Len(s)
    BY <1>1
  <2> QED
    BY <1>3, <2>1, RestOf
<1>6. b \in Seq(U) /\ Len(b) = 1 /\ b[1] = "boundary"
  OBVIOUS
<1> HIDE DEF b
<1>7. PICK t : t = b \o c
  OBVIOUS
<1>8. PICK w : w = a \o t
  OBVIOUS
<1>9. t \in Seq(U) /\ Joins(t, b, c)
  BY <1>5, <1>6, <1>7, ConcatJoins, Zenon
<1>10. w \in Seq(U) /\ Joins(w, a, t)
  BY <1>4, <1>8, <1>9, ConcatJoins, Zenon
<1>11. /\ Len(t) = Len(s) - k + 1 /\ t[1] = "boundary"
       /\ \A i \in 1 .. Len(s) - k : t[1 + i] = s[k + i]
  BY <1>1, <1>5, <1>6, <1>9 DEF Joins
<1>12. /\ Len(w) = Len(s) + 1 /\ \A i \in 1 .. k : w[i] = s[i]
       /\ w[k + 1] = "boundary"
  BY <1>1, <1>4, <1>10, <1>11 DEF Joins
<1>13. \A i \in k + 1 .. Len(s) : w[i + 1] = s[i]
  <2> TAKE i \in k + 1 .. Len(s)
  <2>1. PICK j \in 1 .. Len(s) - k : i = k + j
    BY <1>1
  <2>2. 1 + j \in 1 .. Len(t) /\ k + (1 + j) = i + 1
    BY <1>1, <1>11, <2>1
  <2>3. w[k + (1 + j)] = t[1 + j]
    BY <1>4, <1>10, <2>2 DEF Joins
  <2> QED
    BY <1>11, <2>1, <2>2, <2>3
<1>14. Inserts(w, s, k)
  BY <1>12, <1>13, Zenon DEF Inserts
<1>15. Client!WithBoundary(s, k) = w
  BY <1>2, <1>3, <1>7, <1>8, Zenon DEF Client!WithBoundary, b
<1> QED
  BY <1>10, <1>14, <1>15, Zenon

\* J is the JSON of the written text T.
IsPlain(J, T) ==
    /\ Len(J) = Len(T) + 7
    /\ J[1] = "json" /\ J[2] = "key" /\ J[3] = "key_end" /\ J[4] = "json" /\ J[5] = "quote"
    /\ \A i \in 1 .. Len(T) : J[5 + i] = T[i]
    /\ J[Len(T) + 6] = "quote" /\ J[Len(T) + 7] = "json"

LEMMA PlainJsonIs ==
    ASSUME NEW text \in Seq(Client!TextUnits)
    PROVE  /\ Client!PlainJson(text) \in Seq(JsonUnits)
           /\ IsPlain(Client!PlainJson(text), Client!Written(text))
<1> DEFINE U == JsonUnits
           a == Client!Opening
           b == <<"quote", "json">>
<1>1. PICK T : T = Client!Written(text)
  OBVIOUS
<1>2. T \in Seq(Client!WrittenUnits)
  BY <1>1, WrittenIs, Zenon
<1>3. T \in Seq(U) /\ Len(T) \in Nat
  BY <1>2, SeqMonotonic, LenProperties DEF JsonUnits, WireTextUnits
<1>4. /\ a \in Seq(U) /\ Len(a) = 5
      /\ a[1] = "json" /\ a[2] = "key" /\ a[3] = "key_end" /\ a[4] = "json" /\ a[5] = "quote"
  BY DEF JsonUnits, WireTextUnits, Client!WrittenUnits, Client!Opening
<1>5. b \in Seq(U) /\ Len(b) = 2 /\ b[1] = "quote" /\ b[2] = "json"
  BY DEF JsonUnits, WireTextUnits, Client!WrittenUnits
<1>6. Client!PlainJson(text) = a \o (T \o b)
  BY <1>1, Zenon DEF Client!PlainJson
<1> HIDE DEF U, a, b
<1>7. PICK p : p = T \o b
  OBVIOUS
<1>8. PICK J : J = a \o p
  OBVIOUS
<1>9. p \in Seq(U) /\ Joins(p, T, b)
  BY <1>3, <1>5, <1>7, ConcatJoins, Zenon
<1>10. J \in Seq(U) /\ Joins(J, a, p)
  BY <1>4, <1>8, <1>9, ConcatJoins, Zenon
<1>11. /\ Len(p) = Len(T) + 2
       /\ \A i \in 1 .. Len(T) : p[i] = T[i]
       /\ p[Len(T) + 1] = "quote" /\ p[Len(T) + 2] = "json"
  BY <1>3, <1>5, <1>9 DEF Joins
<1>12. /\ Len(J) = Len(T) + 7
       /\ J[1] = "json" /\ J[2] = "key" /\ J[3] = "key_end" /\ J[4] = "json" /\ J[5] = "quote"
       /\ \A i \in 1 .. Len(p) : J[5 + i] = p[i]
  BY <1>3, <1>4, <1>10, <1>11 DEF Joins
<1>13. \A i \in 1 .. Len(T) : J[5 + i] = T[i]
  BY <1>3, <1>11, <1>12
<1>14. J[Len(T) + 6] = "quote" /\ J[Len(T) + 7] = "json"
  <2>1. /\ Len(T) + 1 \in 1 .. Len(p) /\ 5 + (Len(T) + 1) = Len(T) + 6
        /\ Len(T) + 2 \in 1 .. Len(p) /\ 5 + (Len(T) + 2) = Len(T) + 7
    BY <1>3, <1>11
  <2>2. /\ J[5 + (Len(T) + 1)] = p[Len(T) + 1]
        /\ J[5 + (Len(T) + 2)] = p[Len(T) + 2]
    BY <1>12, <2>1
  <2> QED
    BY <1>11, <2>1, <2>2
<1>15. IsPlain(J, T)
  BY <1>12, <1>13, <1>14, Zenon DEF IsPlain
<1> QED
  BY <1>1, <1>6, <1>7, <1>8, <1>10, <1>15, Zenon DEF U

\* The JSON J holds the text W, as it is sent, between the quotes after the key
\* that ends at place k; the first of them is at place g.
HoldsText(J, W, k, g) ==
    /\ W \in Seq(WireTextUnits) /\ Len(W) \in Nat /\ Len(J) \in Nat
    /\ k \in 2 .. Len(J) /\ J[k - 1] = "key" /\ J[k] = "key_end"
    /\ \A i \in 1 .. k - 1 : J[i] # "key_end"
    /\ g \in k + 1 .. Len(J) /\ J[g] = "quote"
    /\ \A i \in k + 1 .. g - 1 : J[i] # "quote"
    /\ \A i \in 1 .. Len(W) : J[g + i] = W[i]
    /\ g + Len(W) + 1 <= Len(J) /\ J[g + Len(W) + 1] = "quote"

\* The chunks of the JSON J meet within its key.
CutsKey(J) ==
    /\ Len(J) \in Nat \ {0, 1, 2, 3}
    /\ J[1] = "json" /\ J[2] = "key" /\ J[3] = "boundary" /\ J[4] = "key_end"

LEMMA PlainHoldsText ==
    ASSUME NEW T \in Seq(WireTextUnits), NEW J, IsPlain(J, T)
    PROVE  HoldsText(J, T, 3, 5)
<1>1. Len(T) \in Nat
  BY LenProperties
<1>2. /\ Len(J) = Len(T) + 7
      /\ J[1] = "json" /\ J[2] = "key" /\ J[3] = "key_end" /\ J[4] = "json" /\ J[5] = "quote"
      /\ \A i \in 1 .. Len(T) : J[5 + i] = T[i]
      /\ J[Len(T) + 6] = "quote"
  BY DEF IsPlain
<1>3. 5 + Len(T) + 1 = Len(T) + 6
  BY <1>1
<1> QED
  BY <1>1, <1>2, <1>3 DEF HoldsText

\* Chunks that meet outside the text and the key only shift what is found.
LEMMA CutOutsideText ==
    ASSUME NEW T \in Seq(WireTextUnits), NEW p, IsPlain(p, T), NEW k, NEW J, Inserts(J, p, k),
           k \in {1, 3, 4} \/ k = Len(T) + 6
    PROVE  \E key, open : HoldsText(J, T, key, open)
<1>1. Len(T) \in Nat
  BY LenProperties
<1>2. /\ Len(p) = Len(T) + 7
      /\ p[1] = "json" /\ p[2] = "key" /\ p[3] = "key_end" /\ p[4] = "json" /\ p[5] = "quote"
      /\ \A i \in 1 .. Len(T) : p[5 + i] = T[i]
      /\ p[Len(T) + 6] = "quote"
  BY DEF IsPlain
<1>3. /\ Len(J) = Len(T) + 8
      /\ \A i \in 1 .. k : J[i] = p[i]
      /\ J[k + 1] = "boundary"
      /\ \A i \in k + 1 .. Len(T) + 7 : J[i + 1] = p[i]
  BY <1>2 DEF Inserts
<1>4. CASE k \in {1, 3, 4}
  <2>1. \A i \in 1 .. Len(T) : J[6 + i] = T[i]
    <3> TAKE i \in 1 .. Len(T)
    <3>1. 5 + i \in k + 1 .. Len(T) + 7 /\ (5 + i) + 1 = 6 + i
      BY <1>1, <1>4
    <3> QED
      BY <1>2, <1>3, <3>1
  <2>2. J[6] = "quote" /\ J[6 + Len(T) + 1] = "quote"
    <3>1. /\ 5 \in k + 1 .. Len(T) + 7 /\ Len(T) + 6 \in k + 1 .. Len(T) + 7
          /\ (Len(T) + 6) + 1 = 6 + Len(T) + 1
      BY <1>1, <1>4
    <3>2. J[5 + 1] = p[5] /\ J[(Len(T) + 6) + 1] = p[Len(T) + 6]
      BY <1>3, <3>1
    <3> QED
      BY <1>2, <3>1, <3>2
  <2>3. CASE k = 1
    <3>1. J[1] = "json" /\ J[2] = "boundary" /\ J[3] = "key" /\ J[4] = "key_end" /\ J[5] = "json"
      BY <1>1, <1>2, <1>3, <2>3
    <3>2. HoldsText(J, T, 4, 6)
      BY <1>1, <1>3, <2>1, <2>2, <3>1 DEF HoldsText
    <3> QED
      BY <3>2
  <2>4. CASE k \in {3, 4}
    <3>1. J[1] = "json" /\ J[2] = "key" /\ J[3] = "key_end" /\ J[4] # "quote" /\ J[5] # "quote"
      BY <1>1, <1>2, <1>3, <2>4
    <3>2. HoldsText(J, T, 3, 6)
      BY <1>1, <1>3, <2>1, <2>2, <3>1 DEF HoldsText
    <3> QED
      BY <3>2
  <2> QED
    BY <1>4, <2>3, <2>4
<1>5. CASE k = Len(T) + 6
  <2>1. \A i \in 1 .. Len(T) + 6 : J[i] = p[i]
    BY <1>3, <1>5
  <2>2. /\ J[1] = "json" /\ J[2] = "key" /\ J[3] = "key_end" /\ J[4] = "json" /\ J[5] = "quote"
        /\ J[Len(T) + 6] = "quote" /\ 5 + Len(T) + 1 = Len(T) + 6
    BY <1>1, <1>2, <2>1
  <2>3. \A i \in 1 .. Len(T) : J[5 + i] = T[i]
    BY <1>1, <1>2, <2>1
  <2>4. HoldsText(J, T, 3, 5)
    BY <1>1, <1>3, <2>2, <2>3 DEF HoldsText
  <2> QED
    BY <2>4
<1> QED
  BY <1>4, <1>5

\* Chunks that meet in the text leave their boundary in it.
LEMMA CutInText ==
    ASSUME NEW T \in Seq(WireTextUnits), NEW p, IsPlain(p, T),
           NEW n \in 0 .. Len(T), NEW J, Inserts(J, p, 5 + n),
           NEW W \in Seq(WireTextUnits), Inserts(W, T, n)
    PROVE  HoldsText(J, W, 3, 5)
<1>1. Len(T) \in Nat
  BY LenProperties
<1>2. /\ Len(p) = Len(T) + 7
      /\ p[1] = "json" /\ p[2] = "key" /\ p[3] = "key_end" /\ p[4] = "json" /\ p[5] = "quote"
      /\ \A i \in 1 .. Len(T) : p[5 + i] = T[i]
      /\ p[Len(T) + 6] = "quote"
  BY DEF IsPlain
<1>3. /\ Len(J) = Len(T) + 8
      /\ \A i \in 1 .. 5 + n : J[i] = p[i]
      /\ J[5 + n + 1] = "boundary"
      /\ \A i \in 5 + n + 1 .. Len(T) + 7 : J[i + 1] = p[i]
  BY <1>2 DEF Inserts
<1>4. /\ Len(W) = Len(T) + 1
      /\ \A i \in 1 .. n : W[i] = T[i]
      /\ W[n + 1] = "boundary"
      /\ \A i \in n + 1 .. Len(T) : W[i + 1] = T[i]
  BY DEF Inserts
<1>5. J[1] = "json" /\ J[2] = "key" /\ J[3] = "key_end" /\ J[4] = "json" /\ J[5] = "quote"
  BY <1>1, <1>2, <1>3
<1>6. \A i \in 1 .. Len(W) : J[5 + i] = W[i]
  <2> TAKE i \in 1 .. Len(W)
  <2>1. CASE i <= n
    <3>1. i \in 1 .. n /\ i \in 1 .. Len(T) /\ 5 + i \in 1 .. 5 + n
      BY <1>1, <1>4, <2>1
    <3> QED
      BY <1>2, <1>3, <1>4, <3>1
  <2>2. CASE i = n + 1
    <3>1. 5 + i = 5 + n + 1
      BY <2>2
    <3> QED
      BY <1>3, <1>4, <2>2, <3>1
  <2>3. CASE i > n + 1
    <3>1. PICK j \in n + 1 .. Len(T) : i = j + 1
      BY <1>1, <1>4, <2>3
    <3>2. j \in 1 .. Len(T) /\ 5 + j \in 5 + n + 1 .. Len(T) + 7 /\ (5 + j) + 1 = 5 + i
      BY <1>1, <3>1
    <3>3. J[(5 + j) + 1] = p[5 + j] /\ p[5 + j] = T[j] /\ W[j + 1] = T[j]
      BY <1>2, <1>3, <1>4, <3>1, <3>2
    <3> QED
      BY <3>1, <3>2, <3>3
  <2> QED
    BY <1>4, <2>1, <2>2, <2>3
<1>7. J[5 + Len(W) + 1] = "quote" /\ 5 + Len(W) + 1 <= Len(J)
  <2>1. Len(T) + 6 \in 5 + n + 1 .. Len(T) + 7 /\ (Len(T) + 6) + 1 = 5 + Len(W) + 1
    BY <1>1, <1>4
  <2>2. J[(Len(T) + 6) + 1] = p[Len(T) + 6]
    BY <1>3, <2>1
  <2> QED
    BY <1>1, <1>2, <1>3, <1>4, <2>1, <2>2
<1>8. Len(W) \in Nat /\ Len(J) \in Nat /\ 3 \in 2 .. Len(J) /\ 5 \in 3 + 1 .. Len(J)
  BY <1>1, <1>3, <1>4
<1>9. (\A i \in 1 .. 3 - 1 : J[i] # "key_end") /\ (\A i \in 3 + 1 .. 5 - 1 : J[i] # "quote")
  BY <1>5
<1>10. J[3 - 1] = "key"
  BY <1>5
<1> QED
  BY <1>5, <1>6, <1>7, <1>8, <1>9, <1>10, Zenon DEF HoldsText

\* A document with a text, as it is sent.
LEMMA JsonOfText ==
    ASSUME NEW d \in Documents, d.text # None
    PROVE  /\ Client!Json(d) \in Seq(JsonUnits)
           /\ Client!KeyIsCut(d) => CutsKey(Client!Json(d))
           /\ ~Client!KeyIsCut(d) =>
                 \E k, g : HoldsText(Client!Json(d), Client!WireText(d), k, g)
<1>1. PICK T : T = Client!Written(d.text)
  OBVIOUS
<1>2. PICK p : p = Client!PlainJson(d.text)
  OBVIOUS
<1>3. PICK J : J = Client!Json(d)
  OBVIOUS
<1>4. PICK W : W = Client!WireText(d)
  OBVIOUS
<1>5. d.text \in Seq(Client!TextUnits)
  BY DocumentsAssumption
<1>6. p \in Seq(JsonUnits) /\ IsPlain(p, T)
  BY <1>1, <1>2, <1>5, PlainJsonIs, Zenon
<1>7. T \in Seq(WireTextUnits)
  <2>1. T \in Seq(Client!WrittenUnits)
    BY <1>1, <1>5, WrittenIs, Zenon
  <2> QED
    BY <2>1, SeqMonotonic DEF WireTextUnits
<1>8. Len(T) \in Nat /\ Len(p) = Len(T) + 7
  BY <1>6, <1>7, LenProperties DEF IsPlain
<1>9. CASE d.split = None
  <2>1. J = p /\ W = T
    BY <1>1, <1>2, <1>3, <1>4, <1>9, Zenon
    DEF Client!Json, Client!WireText, Client!TextIsCut
  <2>2. HoldsText(J, W, 3, 5)
    BY <1>6, <1>7, <2>1, PlainHoldsText, Zenon
  <2>3. ~Client!KeyIsCut(d)
    BY <1>9, DocumentsAssumption DEF Client!KeyIsCut
  <2> QED
    BY <1>3, <1>4, <1>6, <2>1, <2>2, <2>3, Zenon
<1>10. CASE d.split # None
  <2>1. PICK c : c = d.split
    OBVIOUS
  <2>2. c \in 1 .. Len(T) + 6 /\ c \in 0 .. Len(p)
    BY <1>2, <1>8, <1>10, <2>1, DocumentsAssumption
  <2>3. J = Client!WithBoundary(p, c)
    BY <1>2, <1>3, <1>10, <2>1, Zenon DEF Client!Json
  <2>4. J \in Seq(JsonUnits) /\ Inserts(J, p, c)
    <3>1. "boundary" \in JsonUnits
      BY DEF JsonUnits, WireTextUnits
    <3> QED
      BY <1>6, <2>2, <2>3, <3>1, WithBoundaryInserts, Zenon
  <2>5. Len(Client!Opening) = 5
    BY DEF Client!Opening
  <2>6. Client!TextIsCut(d) = (5 <= c /\ c <= 5 + Len(T))
    BY <1>1, <1>10, <2>1, <2>5, Zenon DEF Client!TextIsCut
  <2>7. W = IF Client!TextIsCut(d) THEN Client!WithBoundary(T, c - 5) ELSE T
    BY <1>1, <1>4, <2>1, <2>5, Zenon DEF Client!WireText
  <2>8. Client!KeyIsCut(d) = (c = 2)
    BY <2>1 DEF Client!KeyIsCut
  <2>9. CASE c = 2
    <3>1. CutsKey(J)
      BY <1>6, <1>8, <2>4, <2>9 DEF Inserts, IsPlain, CutsKey
    <3> QED
      BY <1>3, <2>4, <2>8, <2>9, <3>1
  <2>10. CASE c \in {1, 3, 4} \/ c = Len(T) + 6
    <3>1. c # 2 /\ ~(5 <= c /\ c <= 5 + Len(T))
      BY <1>8, <2>10
    <3>2. W = T
      BY <2>6, <2>7, <3>1, Zenon
    <3>3. \E k, g : HoldsText(J, T, k, g)
      BY <1>6, <1>7, <2>4, <2>10, CutOutsideText, Zenon
    <3> QED
      BY <1>3, <1>4, <2>4, <2>8, <3>1, <3>2, <3>3, Zenon
  <2>11. CASE 5 <= c /\ c <= 5 + Len(T)
    <3>1. PICK n \in 0 .. Len(T) : n = c - 5 /\ 5 + n = c
      BY <1>8, <2>2, <2>11
    <3>2. W = Client!WithBoundary(T, n)
      BY <2>6, <2>7, <2>11, <3>1, Zenon
    <3>3. W \in Seq(WireTextUnits) /\ Inserts(W, T, n)
      <4>1. "boundary" \in WireTextUnits
        BY DEF WireTextUnits
      <4> QED
        BY <1>7, <3>2, <4>1, WithBoundaryInserts, Zenon
    <3>4. Inserts(J, p, 5 + n)
      BY <2>4, <3>1
    <3>5. HoldsText(J, W, 3, 5)
      BY <1>6, <1>7, <3>3, <3>4, CutInText, Zenon
    <3>6. ~Client!KeyIsCut(d)
      <4>1. c # 2
        BY <2>2, <2>11
      <4> QED
        BY <2>8, <4>1, Zenon
    <3> QED
      BY <1>3, <1>4, <2>4, <3>5, <3>6, Zenon
  <2> QED
    BY <1>8, <2>2, <2>9, <2>10, <2>11
<1> QED
  BY <1>9, <1>10

LEMMA JsonOfError ==
    ASSUME NEW d, d.text = None
    PROVE  Client!Json(d) \in Seq(JsonUnits) /\ Client!Json(d) = <<"json">>
BY DEF Client!Json, JsonUnits

\* Where the JSON J begins in a response w that is sent in chunks or not.
Start(chunked) == IF chunked THEN 3 ELSE 2

Carries(w, J, chunked) ==
    /\ w \in Seq(Client!Units) /\ Len(w) \in Nat /\ Len(J) \in Nat
    /\ Len(w) = Start(chunked) + Len(J) + (IF chunked THEN 1 ELSE 0)
    /\ w[1] = "headers" /\ w[2] = "empty_line"
    /\ chunked => w[3] = "size" /\ w[Len(J) + 4] = "last_chunk"
    /\ \A i \in 1 .. Len(J) : w[Start(chunked) + i] = J[i] /\ J[i] \in JsonUnits

LEMMA WireCarriesJson ==
    ASSUME NEW d, Client!Json(d) \in Seq(JsonUnits), d.chunked \in BOOLEAN
    PROVE  Carries(Client!Wire(d), Client!Json(d), d.chunked)
<1> DEFINE U == Client!Units
           h == <<"headers", "empty_line">>
           s == <<"size">>
           l == <<"last_chunk">>
<1>1. PICK J : J = Client!Json(d)
  OBVIOUS
<1>2. J \in Seq(U) /\ Len(J) \in Nat /\ \A i \in 1 .. Len(J) : J[i] \in JsonUnits
  <2>1. JsonUnits \subseteq U
    BY DEF JsonUnits, WireTextUnits, Client!Units
  <2> QED
    BY <1>1, <2>1, SeqMonotonic, LenProperties, ElementOfSeq
<1>3. /\ h \in Seq(U) /\ Len(h) = 2 /\ h[1] = "headers" /\ h[2] = "empty_line"
      /\ s \in Seq(U) /\ Len(s) = 1 /\ s[1] = "size"
      /\ l \in Seq(U) /\ Len(l) = 1 /\ l[1] = "last_chunk"
  BY DEF Client!Units
<1>4. CASE ~d.chunked
  <2>1. Client!Wire(d) = h \o J
    BY <1>1, <1>4 DEF Client!Wire
  <2> HIDE DEF U, h, s, l
  <2>2. PICK w : w = h \o J
    OBVIOUS
  <2>3. w \in Seq(U) /\ Joins(w, h, J)
    BY <1>2, <1>3, <2>2, ConcatJoins, Zenon
  <2>4. /\ Len(w) = 2 + Len(J) /\ Len(w) \in Nat
        /\ w[1] = "headers" /\ w[2] = "empty_line"
        /\ \A i \in 1 .. Len(J) : w[2 + i] = J[i]
    BY <1>2, <1>3, <2>3 DEF Joins
  <2>5. Carries(w, J, FALSE)
    BY <1>2, <2>3, <2>4 DEF Carries, Start, U
  <2>6. d.chunked = FALSE
    BY <1>4
  <2> QED
    BY <1>1, <2>1, <2>2, <2>5, <2>6, Zenon
<1>5. CASE d.chunked
  <2>1. Client!Wire(d) = h \o ((s \o J) \o l)
    BY <1>1, <1>5 DEF Client!Wire
  <2> HIDE DEF U, h, s, l
  <2>2. PICK x : x = s \o J
    OBVIOUS
  <2>3. PICK y : y = x \o l
    OBVIOUS
  <2>4. PICK w : w = h \o y
    OBVIOUS
  <2>5. x \in Seq(U) /\ Joins(x, s, J)
    BY <1>2, <1>3, <2>2, ConcatJoins, Zenon
  <2>6. y \in Seq(U) /\ Joins(y, x, l)
    BY <1>3, <2>3, <2>5, ConcatJoins, Zenon
  <2>7. w \in Seq(U) /\ Joins(w, h, y)
    BY <1>3, <2>4, <2>6, ConcatJoins, Zenon
  <2>8. /\ Len(y) = Len(J) + 2 /\ y[1] = "size" /\ y[Len(J) + 2] = "last_chunk"
        /\ \A i \in 1 .. Len(J) : y[1 + i] = J[i]
    BY <1>2, <1>3, <2>5, <2>6 DEF Joins
  <2>9. /\ Len(w) = Len(J) + 4 /\ Len(w) \in Nat
        /\ w[1] = "headers" /\ w[2] = "empty_line"
        /\ \A i \in 1 .. Len(y) : w[2 + i] = y[i]
    BY <1>2, <1>3, <2>7, <2>8 DEF Joins
  <2>10. w[3] = "size" /\ w[Len(J) + 4] = "last_chunk"
    <3>1. 1 \in 1 .. Len(y) /\ Len(J) + 2 \in 1 .. Len(y)
      BY <1>2, <2>8
    <3>2. w[2 + 1] = y[1] /\ w[2 + (Len(J) + 2)] = y[Len(J) + 2]
      BY <2>9, <3>1
    <3> QED
      BY <1>2, <2>8, <3>2
  <2>11. ASSUME NEW i \in 1 .. Len(J)
         PROVE  w[3 + i] = J[i]
    <3>1. 1 + i \in 1 .. Len(y) /\ 2 + (1 + i) = 3 + i
      BY <1>2, <2>8
    <3>2. w[2 + (1 + i)] = y[1 + i]
      BY <2>9, <3>1
    <3> QED
      BY <2>8, <3>1, <3>2
  <2>12. Carries(w, J, TRUE)
    BY <1>2, <2>7, <2>9, <2>10, <2>11 DEF Carries, Start, U
  <2>13. d.chunked = TRUE
    BY <1>5
  <2> QED
    BY <1>1, <2>1, <2>2, <2>3, <2>4, <2>12, <2>13, Zenon
<1> QED
  BY <1>4, <1>5

-----------------------------------------------------------------------------
(* What is read of it *)

\* The part of a response r that is searched for the text.
BodyOf(r) == Client!strip_chunked_framing(Client!After(r, Client!Find(r, "empty_line", 1)))

\* The body b of a response of which n units have come is the beginning of
\* the JSON J, from place o of the response on.
Begins(b, J, o, r) ==
    /\ b \in Seq(Client!Units) /\ Len(b) \in Nat /\ Len(b) <= Len(J)
    /\ \A i \in 1 .. Len(b) : b[i] = J[i] /\ r[o + i] = J[i]
    /\ Len(b) > 0 => o + Len(b) <= Len(r)

\* The place of the empty line.
LEMMA FindsEmptyLine ==
    ASSUME NEW r, Len(r) \in Nat,
           Len(r) >= 1 => r[1] = "headers",
           Len(r) >= 2 => r[2] = "empty_line"
    PROVE  Client!Find(r, "empty_line", 1) = IF Len(r) >= 2 THEN 2 ELSE 0
<1>1. PICK f : f = Client!Find(r, "empty_line", 1)
  OBVIOUS
<1>2. IsFirst(f, r, "empty_line", 1)
  BY <1>1, FindsFirst
<1>3. f = IF Len(r) >= 2 THEN 2 ELSE 0
  BY <1>2 DEF IsFirst
<1> QED
  BY <1>1, <1>3

\* The last chunk, when it can only be at the end.
LEMMA FindsLastChunk ==
    ASSUME NEW q, Len(q) \in Nat,
           \A i \in 1 .. Len(q) - 1 : q[i] # "last_chunk"
    PROVE  Client!SelectLastInSeq(q, LAMBDA x : x = "last_chunk")
               = IF Len(q) >= 1 /\ q[Len(q)] = "last_chunk" THEN Len(q) ELSE 0
<1> DEFINE I == {i \in 1 .. Len(q) : q[i] = "last_chunk"}
<1>1. PICK f : f = Client!SelectLastInSeq(q, LAMBDA x : x = "last_chunk")
  OBVIOUS
<1>2. f = IF I # {} THEN Client!Max(I) ELSE 0
  BY <1>1, Zenon DEF Client!SelectLastInSeq
<1>3. CASE Len(q) >= 1 /\ q[Len(q)] = "last_chunk"
  <2>1. I = {Len(q)}
    BY <1>3
  <2>2. Client!Max(I) = Len(q)
    BY <2>1 DEF Client!Max
  <2> QED
    BY <1>1, <1>2, <1>3, <2>1, <2>2
<1>4. CASE ~(Len(q) >= 1 /\ q[Len(q)] = "last_chunk")
  <2>1. I = {}
    BY <1>4
  <2> QED
    BY <1>1, <1>2, <1>4, <2>1
<1> QED
  BY <1>3, <1>4

\* r is the first n units of the response w.
IsRead(r, w, n) ==
    /\ r \in Seq(Client!Units) /\ Len(r) = n
    /\ \A i \in 1 .. n : r[i] = w[i]

\* What is searched for the text is the beginning of the JSON, and all of it
\* when the whole response has come.
LEMMA BodyBegins ==
    ASSUME NEW w, NEW J, NEW chunked, Carries(w, J, chunked),
           NEW n \in 2 .. Len(w), NEW r, IsRead(r, w, n)
    PROVE  /\ Begins(BodyOf(r), J, Start(chunked), r)
           /\ n = Len(w) => Len(BodyOf(r)) = Len(J)
<1> DEFINE U == Client!Units
<1>1. w \in Seq(U) /\ Len(w) \in Nat /\ Len(J) \in Nat
  BY DEF Carries
<1>2. r \in Seq(U) /\ Len(r) = n /\ \A i \in 1 .. n : r[i] = w[i]
  BY DEF IsRead
<1>3. r[1] = "headers" /\ r[2] = "empty_line"
  BY <1>2 DEF Carries
<1>4. Client!Find(r, "empty_line", 1) = 2
  <2>1. Len(r) \in Nat /\ Len(r) >= 2
    BY <1>1, <1>2
  <2>2. Client!Find(r, "empty_line", 1) = IF Len(r) >= 2 THEN 2 ELSE 0
    BY <1>3, <2>1, FindsEmptyLine, Zenon
  <2> QED
    BY <2>1, <2>2
<1>5. PICK q : q = SubSeq(r, 3, n)
  OBVIOUS
<1>6. Client!After(r, 2) = q
  BY <1>2, <1>5 DEF Client!After
<1>7. /\ q \in Seq(U) /\ Len(q) = n - 2
      /\ \A i \in 1 .. n - 2 : q[i] = w[2 + i]
  <2>1. /\ SubSeq(r, 2 + 1, n) \in Seq(U) /\ Len(SubSeq(r, 2 + 1, n)) = n - 2
        /\ \A i \in 1 .. n - 2 : SubSeq(r, 2 + 1, n)[i] = r[2 + i]
    BY <1>2, RestOf
  <2> QED
    BY <1>1, <1>2, <1>5, <2>1
<1>8. BodyOf(r) = Client!strip_chunked_framing(q)
  BY <1>4, <1>6 DEF BodyOf
<1>9. PICK b : b = Client!strip_chunked_framing(q)
  OBVIOUS
<1>10. CASE ~chunked
  <2>1. /\ Len(w) = Len(J) + 2
        /\ \A i \in 1 .. Len(J) : w[2 + i] = J[i] /\ J[i] \in JsonUnits
    BY <1>1, <1>10 DEF Carries, Start
  <2>2. \A i \in 1 .. Len(q) : q[i] = J[i] /\ J[i] # "size" /\ r[2 + i] = J[i]
    <3> TAKE i \in 1 .. Len(q)
    <3>1. i \in 1 .. Len(J) /\ i \in 1 .. n - 2 /\ 2 + i \in 1 .. n
      BY <1>1, <1>7, <2>1
    <3>2. w[2 + i] = J[i] /\ J[i] \in JsonUnits /\ q[i] = w[2 + i] /\ r[2 + i] = w[2 + i]
      BY <1>2, <1>7, <2>1, <3>1
    <3> QED
      BY <3>2 DEF JsonUnits, WireTextUnits, Client!WrittenUnits
  <2>3. b = q
    BY <1>7, <1>9, <2>2 DEF Client!strip_chunked_framing
  <2>4. Len(q) <= Len(J) /\ (n = Len(w) => Len(q) = Len(J))
    BY <1>1, <1>7, <1>10 DEF Carries, Start
  <2> QED
    BY <1>2, <1>7, <1>8, <1>9, <1>10, <2>2, <2>3, <2>4 DEF Begins, Start
<1>11. CASE chunked
  <2>1. /\ Len(w) = Len(J) + 4 /\ w[3] = "size" /\ w[Len(J) + 4] = "last_chunk"
        /\ \A i \in 1 .. Len(J) : w[3 + i] = J[i] /\ J[i] \in JsonUnits
    BY <1>1, <1>11 DEF Carries, Start
  <2>2. CASE n = 2
    <3>1. b = <<>>
      BY <1>7, <1>9, <2>2 DEF Client!strip_chunked_framing
    <3>2. Len(b) = 0 /\ b \in Seq(U)
      BY <3>1
    <3>3. Begins(b, J, 3, r)
      BY <1>1, <3>2 DEF Begins
    <3>4. n # Len(w) /\ Start(chunked) = 3
      BY <1>1, <1>11, <2>1, <2>2 DEF Start
    <3> QED
      BY <1>8, <1>9, <3>3, <3>4, Zenon
  <2>3. CASE n > 2
    <3>1. q # <<>> /\ Head(q) = "size" /\ q[1] = "size"
      BY <1>1, <1>7, <2>1, <2>3
    <3>2. \A i \in 1 .. Len(q) - 1 : q[i] # "last_chunk"
      <4> TAKE i \in 1 .. Len(q) - 1
      <4>1. CASE i = 1
        BY <3>1, <4>1
      <4>2. CASE i > 1
        <5>1. i - 1 \in 1 .. Len(J) /\ 3 + (i - 1) = 2 + i /\ i \in 1 .. n - 2
          BY <1>1, <1>7, <2>1, <4>2
        <5>2. q[i] = w[2 + i] /\ w[3 + (i - 1)] = J[i - 1] /\ J[i - 1] \in JsonUnits
          BY <1>7, <2>1, <5>1, Zenon
        <5>3. q[i] \in JsonUnits
          BY <5>1, <5>2
        <5> QED
          BY <5>3 DEF JsonUnits, WireTextUnits, Client!WrittenUnits
      <4> QED
        BY <4>1, <4>2
    <3>3. PICK last : last = Client!SelectLastInSeq(q, LAMBDA x : x = "last_chunk")
      OBVIOUS
    <3>4. last = IF Len(q) >= 1 /\ q[Len(q)] = "last_chunk" THEN Len(q) ELSE 0
      <4>1. Len(q) \in Nat
        BY <1>1, <1>7
      <4> QED
        BY <4>1, <3>2, <3>3, FindsLastChunk, Zenon
    <3>5. (q[Len(q)] = "last_chunk") = (n = Len(w))
      <4>1. CASE n = Len(w)
        BY <1>1, <1>7, <2>1, <4>1
      <4>2. CASE n # Len(w)
        <5>1. CASE n = 3
          BY <1>7, <3>1, <4>2, <5>1
        <5>2. CASE n > 3
          <6>1. n - 3 \in 1 .. Len(J) /\ 3 + (n - 3) = n /\ n - 2 \in 1 .. n - 2 /\ 2 + (n - 2) = n
            BY <1>1, <2>1, <4>2, <5>2
          <6>2. /\ q[n - 2] = w[2 + (n - 2)]
                /\ w[3 + (n - 3)] = J[n - 3] /\ J[n - 3] \in JsonUnits
            BY <1>7, <2>1, <6>1, Zenon
          <6>3. q[n - 2] \in JsonUnits
            BY <6>1, <6>2
          <6>4. q[Len(q)] # "last_chunk"
            BY <1>7, <6>3 DEF JsonUnits, WireTextUnits, Client!WrittenUnits
          <6> QED
            BY <4>2, <6>4
        <5> QED
          BY <2>3, <5>1, <5>2
      <4> QED
        BY <4>1, <4>2
    <3>6. PICK e : e = IF n = Len(w) THEN n - 3 ELSE n - 2
      OBVIOUS
    <3>7. b = SubSeq(q, 2, e)
      <4>1. b = SubSeq(q, 2, IF last = 0 THEN Len(q) ELSE last - 1)
        BY <1>9, <3>1, <3>3, Zenon DEF Client!strip_chunked_framing
      <4>2. (IF last = 0 THEN Len(q) ELSE last - 1) = e
        BY <1>1, <1>7, <2>3, <3>4, <3>5, <3>6
      <4> QED
        BY <4>1, <4>2
    <3>8. e \in 1 .. Len(q) /\ e - 1 <= Len(J) /\ e + 2 <= n /\ (n = Len(w) => e - 1 = Len(J))
      BY <1>1, <1>7, <2>1, <2>3, <3>6
    <3>9. /\ b \in Seq(U) /\ Len(b) = e - 1
          /\ \A i \in 1 .. e - 1 : b[i] = q[1 + i]
      <4>1. /\ SubSeq(q, 1 + 1, e) \in Seq(U) /\ Len(SubSeq(q, 1 + 1, e)) = e - 1
            /\ \A i \in 1 .. e - 1 : SubSeq(q, 1 + 1, e)[i] = q[1 + i]
        BY <1>1, <1>7, <3>8, RestOf
      <4> QED
        BY <3>7, <4>1
    <3>10. \A i \in 1 .. Len(b) : b[i] = J[i] /\ r[3 + i] = J[i]
      <4> TAKE i \in 1 .. Len(b)
      <4>1. /\ i \in 1 .. e - 1 /\ 1 + i \in 1 .. n - 2 /\ 2 + (1 + i) = 3 + i
            /\ i \in 1 .. Len(J) /\ 3 + i \in 1 .. n
        BY <1>1, <1>7, <3>8, <3>9
      <4>2. /\ b[i] = q[1 + i] /\ q[1 + i] = w[2 + (1 + i)]
            /\ w[3 + i] = J[i] /\ r[3 + i] = w[3 + i]
        BY <1>2, <1>7, <2>1, <3>9, <4>1, Zenon
      <4> QED
        BY <4>1, <4>2
    <3>11. Len(b) \in Nat /\ Len(b) <= Len(J) /\ 3 + Len(b) <= Len(r)
      BY <1>1, <1>2, <1>7, <3>8, <3>9
    <3>12. Begins(b, J, 3, r)
      BY <3>9, <3>10, <3>11, Zenon DEF Begins, U
    <3> QED
      BY <1>8, <1>9, <1>11, <3>8, <3>9, <3>12 DEF Start
  <2> QED
    BY <2>2, <2>3
<1> QED
  BY <1>10, <1>11

-----------------------------------------------------------------------------
(* What the parser makes of it *)

\* P is the text W up to its first quote, and stands between two quotes of r.
IsQuoted(P, W, r, o, m) ==
    /\ m \in 0 .. Len(W) /\ o \in Nat \ {0} /\ o + m + 1 <= Len(r)
    /\ P = SubSeq(W, 1, m)
    /\ m < Len(W) => W[m + 1] = "quote"
    /\ r[o] = "quote" /\ r[o + (m + 1)] = "quote"
    /\ \A i \in 1 .. m : r[o + i] = W[i]

Quoted(P, W, r) == \E o \in Nat, m \in Nat : IsQuoted(P, W, r, o, m)

\* The parser's searches in the beginning b of the JSON of a text.
LEMMA Searches ==
    ASSUME NEW J, NEW W, NEW k, NEW g, HoldsText(J, W, k, g),
           NEW o, NEW r, NEW b, Begins(b, J, o, r),
           NEW key, key = Client!Find(b, "key_end", 1),
           NEW open, open = Client!Find(b, "quote", key + 1),
           NEW close, close = Client!Find(b, "quote", open + 1)
    PROVE  /\ key # 0 => key = k
           /\ key # 0 /\ open # 0 => open = g
           /\ key # 0 /\ open # 0 /\ close # 0 =>
                 /\ close \in g + 1 .. g + Len(W) + 1 /\ close <= Len(b)
                 /\ J[close] = "quote"
           /\ Len(b) = Len(J) => key # 0 /\ open # 0 /\ close # 0
<1>1. /\ Len(W) \in Nat /\ Len(J) \in Nat /\ Len(b) \in Nat /\ Len(b) <= Len(J)
      /\ k \in 2 .. Len(J) /\ g \in k + 1 .. Len(J) /\ g + Len(W) + 1 <= Len(J)
      /\ J[k] = "key_end" /\ J[g] = "quote" /\ J[g + Len(W) + 1] = "quote"
      /\ \A i \in 1 .. k - 1 : J[i] # "key_end"
      /\ \A i \in k + 1 .. g - 1 : J[i] # "quote"
      /\ \A i \in 1 .. Len(b) : b[i] = J[i]
  BY DEF HoldsText, Begins
<1>2. IsFirst(key, b, "key_end", 1)
  BY <1>1, FindsFirst
<1>3. (key # 0 => key = k /\ k <= Len(b)) /\ (Len(b) = Len(J) => key # 0)
  BY <1>1, <1>2 DEF IsFirst
<1>4. CASE key = 0
  BY <1>1, <1>3, <1>4
<1>5. CASE key # 0
  <2>1. IsFirst(open, b, "quote", k + 1)
    <3>1. key + 1 = k + 1 /\ k + 1 \in Nat \ {0}
      BY <1>1, <1>3, <1>5
    <3> QED
      BY <1>1, <3>1, FindsFirst
  <2>2. (open # 0 => open = g /\ g <= Len(b)) /\ (Len(b) = Len(J) => open # 0)
    <3>1. CASE open = 0
      <4>1. \A i \in k + 1 .. Len(b) : b[i] # "quote"
        BY <1>1, <2>1, <3>1 DEF IsFirst
      <4> QED
        BY <1>1, <3>1, <4>1
    <3>2. CASE open # 0
      <4>1. /\ open \in k + 1 .. Len(b) /\ b[open] = "quote"
            /\ \A i \in k + 1 .. open - 1 : b[i] # "quote"
        BY <2>1, <3>2 DEF IsFirst
      <4>2. ~(open < g)
        <5> SUFFICES ASSUME open < g PROVE FALSE
          OBVIOUS
        <5>1. open \in k + 1 .. g - 1 /\ open \in 1 .. Len(b)
          BY <1>1, <4>1
        <5>2. J[open] # "quote" /\ b[open] = J[open]
          BY <1>1, <5>1, Zenon
        <5> QED
          BY <4>1, <5>2
      <4>3. ~(g < open)
        <5> SUFFICES ASSUME g < open PROVE FALSE
          OBVIOUS
        <5>1. g \in k + 1 .. open - 1 /\ g \in 1 .. Len(b)
          BY <1>1, <4>1
        <5>2. b[g] # "quote" /\ b[g] = J[g]
          BY <1>1, <4>1, <5>1, Zenon
        <5> QED
          BY <1>1, <5>2
      <4> QED
        BY <1>1, <3>2, <4>1, <4>2, <4>3
    <3> QED
      BY <3>1, <3>2
  <2>3. CASE open = 0
    BY <1>1, <1>3, <2>2, <2>3
  <2>4. CASE open # 0
    <3>1. IsFirst(close, b, "quote", g + 1)
      <4>1. open + 1 = g + 1 /\ g + 1 \in Nat \ {0}
        BY <1>1, <2>2, <2>4
      <4> QED
        BY <1>1, <4>1, FindsFirst
    <3>2. Len(b) = Len(J) => close # 0
      BY <1>1, <3>1 DEF IsFirst
    <3>3. close # 0 => /\ close \in g + 1 .. Len(b) /\ b[close] = "quote"
                       /\ \A i \in g + 1 .. close - 1 : b[i] # "quote"
      BY <3>1 DEF IsFirst
    <3>4. close # 0 => close <= g + Len(W) + 1
      BY <1>1, <3>3
    <3>5. close # 0 => J[close] = "quote"
      BY <1>1, <3>3
    <3> QED
      BY <1>1, <1>3, <2>2, <3>2, <3>3, <3>4, <3>5
  <2> QED
    BY <2>3, <2>4
<1> QED
  BY <1>4, <1>5

\* A text that is found is the text of the document up to a quote.
LEMMA ParsedIsQuoted ==
    ASSUME NEW J, NEW W, NEW k, NEW g, HoldsText(J, W, k, g),
           NEW o \in Nat, NEW r, Len(r) \in Nat,
           Begins(BodyOf(r), J, o, r),
           Client!Parse(r) # None
    PROVE  Client!Utf8(r) /\ Quoted(Client!Parse(r), W, r)
<1>1. PICK b : b = BodyOf(r)
  OBVIOUS
<1>2. PICK key : key = Client!Find(b, "key_end", 1)
  OBVIOUS
<1>3. PICK open : open = Client!Find(b, "quote", key + 1)
  OBVIOUS
<1>4. PICK close : close = Client!Find(b, "quote", open + 1)
  OBVIOUS
<1>5. PICK P : P = SubSeq(b, open + 1, close - 1)
  OBVIOUS
<1>6. /\ Client!Utf8(r) /\ key > 1 /\ open # 0 /\ close # 0
      /\ Client!Parse(r) = P
  BY <1>1, <1>2, <1>3, <1>4, <1>5, Zenon DEF Client!Parse, BodyOf
<1>7. Begins(b, J, o, r)
  BY <1>1
<1>8. /\ open = g /\ close \in g + 1 .. g + Len(W) + 1 /\ close <= Len(b)
      /\ J[close] = "quote"
  <2>1. /\ key # 0 => key = k
        /\ key # 0 /\ open # 0 => open = g
        /\ key # 0 /\ open # 0 /\ close # 0 =>
              /\ close \in g + 1 .. g + Len(W) + 1 /\ close <= Len(b)
              /\ J[close] = "quote"
        /\ Len(b) = Len(J) => key # 0 /\ open # 0 /\ close # 0
    BY <1>2, <1>3, <1>4, <1>7, Searches
  <2>2. key # 0
    BY <1>6
  <2> QED
    BY <1>6, <2>1, <2>2
<1>9. /\ W \in Seq(WireTextUnits) /\ Len(W) \in Nat /\ g \in Nat \ {0}
      /\ J[g] = "quote" /\ \A i \in 1 .. Len(W) : J[g + i] = W[i]
  BY DEF HoldsText
<1>10. /\ b \in Seq(Client!Units) /\ Len(b) \in Nat /\ Len(b) <= Len(J)
       /\ \A i \in 1 .. Len(b) : b[i] = J[i] /\ r[o + i] = J[i]
       /\ o + Len(b) <= Len(r)
  BY <1>7, <1>8, <1>9 DEF Begins
<1>11. PICK m \in Nat : m = close - g - 1
  BY <1>8, <1>9
<1>12. /\ m \in 0 .. Len(W) /\ g + m + 1 <= Len(b)
       /\ close - 1 = g + m /\ close = g + (m + 1)
  BY <1>8, <1>9, <1>11
<1>13. /\ SubSeq(b, g + 1, g + m) \in Seq(Client!Units)
       /\ Len(SubSeq(b, g + 1, g + m)) = m
       /\ \A i \in 1 .. m : SubSeq(b, g + 1, g + m)[i] = b[g + i]
  <2>1. g \in 0 .. Len(b) /\ g + m \in g .. Len(b) /\ (g + m) - g = m
    BY <1>9, <1>10, <1>12
  <2>2. PICK e \in g .. Len(b) : e = g + m
    BY <2>1
  <2>3. /\ SubSeq(b, g + 1, e) \in Seq(Client!Units)
        /\ Len(SubSeq(b, g + 1, e)) = e - g
        /\ \A i \in 1 .. e - g : SubSeq(b, g + 1, e)[i] = b[g + i]
    BY <1>10, <2>1, RestOf, Zenon
  <2>4. e - g = m
    BY <2>1, <2>2
  <2> QED
    BY <2>2, <2>3, <2>4, Zenon
<1>14. /\ P \in Seq(Client!Units) /\ Len(P) = m
       /\ \A i \in 1 .. m : P[i] = b[g + i]
  <2>1. P = SubSeq(b, g + 1, g + m)
    BY <1>5, <1>8, <1>12
  <2> QED
    BY <1>13, <2>1
<1>15. \A i \in 1 .. m : b[g + i] = W[i] /\ r[(o + g) + i] = W[i]
  <2> TAKE i \in 1 .. m
  <2>1. i \in 1 .. Len(W) /\ g + i \in 1 .. Len(b) /\ (o + g) + i = o + (g + i)
    BY <1>9, <1>10, <1>12
  <2>2. J[g + i] = W[i] /\ b[g + i] = J[g + i] /\ r[o + (g + i)] = J[g + i]
    BY <1>9, <1>10, <2>1, Zenon
  <2> QED
    BY <2>1, <2>2
<1>16. P = SubSeq(W, 1, m)
  <2>1. /\ SubSeq(W, 1, m) \in Seq(WireTextUnits) /\ Len(SubSeq(W, 1, m)) = m
        /\ \A i \in 1 .. m : SubSeq(W, 1, m)[i] = W[i]
    BY <1>9, <1>12, ReadIsPrefix, Zenon
  <2>2. PICK t : t = SubSeq(W, 1, m)
    OBVIOUS
  <2>3. t \in Seq(Client!Units)
    <3>1. WireTextUnits \subseteq Client!Units
      BY DEF WireTextUnits, Client!Units
    <3> QED
      BY <2>1, <2>2, <3>1, SeqMonotonic, Zenon
  <2>4. Len(t) = Len(P) /\ \A i \in 1 .. Len(P) : P[i] = t[i]
    BY <1>14, <1>15, <2>1, <2>2
  <2> QED
    BY <1>14, <2>2, <2>3, <2>4, SeqEqual, Zenon
<1>17. m < Len(W) => W[m + 1] = "quote"
  <2> SUFFICES ASSUME m < Len(W) PROVE W[m + 1] = "quote"
    OBVIOUS
  <2>1. m + 1 \in 1 .. Len(W) /\ g + (m + 1) = close
    BY <1>9, <1>12
  <2>2. J[g + (m + 1)] = W[m + 1]
    BY <1>9, <2>1
  <2> QED
    BY <1>8, <2>1, <2>2
<1>18. r[o + g] = "quote" /\ r[(o + g) + (m + 1)] = "quote"
  <2>1. g \in 1 .. Len(b) /\ close \in 1 .. Len(b) /\ (o + g) + (m + 1) = o + close
    BY <1>8, <1>9, <1>10, <1>12
  <2>2. r[o + g] = J[g] /\ r[o + close] = J[close]
    BY <1>10, <2>1, Zenon
  <2> QED
    BY <1>8, <1>9, <2>1, <2>2
<1>19. o + g \in Nat \ {0} /\ (o + g) + m + 1 <= Len(r)
  BY <1>9, <1>10, <1>12
<1>20. IsQuoted(P, W, r, o + g, m)
  BY <1>12, <1>15, <1>16, <1>17, <1>18, <1>19, Zenon DEF IsQuoted
<1>21. Quoted(P, W, r)
  BY <1>11, <1>19, <1>20 DEF Quoted
<1> QED
  BY <1>6, <1>21, Zenon

\* A text that has come in completely is found.
LEMMA CompleteIsParsed ==
    ASSUME NEW J, NEW W, NEW k, NEW g, HoldsText(J, W, k, g),
           NEW o \in Nat, NEW r, Len(r) \in Nat,
           Begins(BodyOf(r), J, o, r), Len(BodyOf(r)) = Len(J),
           Client!Find(r, "empty_line", 1) # 0, Client!Utf8(r)
    PROVE  Client!Parse(r) \in Seq(Client!Units)
<1>1. PICK b : b = BodyOf(r)
  OBVIOUS
<1>2. PICK key : key = Client!Find(b, "key_end", 1)
  OBVIOUS
<1>3. PICK open : open = Client!Find(b, "quote", key + 1)
  OBVIOUS
<1>4. PICK close : close = Client!Find(b, "quote", open + 1)
  OBVIOUS
<1>5. PICK P : P = SubSeq(b, open + 1, close - 1)
  OBVIOUS
<1>6. Begins(b, J, o, r) /\ Len(b) = Len(J)
  BY <1>1
<1>7. /\ key = k /\ open # 0 /\ close # 0 /\ open = g
      /\ close \in g + 1 .. g + Len(W) + 1 /\ close <= Len(b)
  <2>1. /\ key # 0 => key = k
        /\ key # 0 /\ open # 0 => open = g
        /\ key # 0 /\ open # 0 /\ close # 0 =>
              /\ close \in g + 1 .. g + Len(W) + 1 /\ close <= Len(b)
              /\ J[close] = "quote"
        /\ Len(b) = Len(J) => key # 0 /\ open # 0 /\ close # 0
    BY <1>2, <1>3, <1>4, <1>6, Searches
  <2> QED
    BY <1>6, <2>1
<1>8. key > 1 /\ b[key - 1] = "key"
  <2>1. k \in 2 .. Len(J) /\ k - 1 \in 1 .. Len(b) /\ J[k - 1] = "key"
    BY <1>6 DEF HoldsText
  <2>2. b[k - 1] = J[k - 1]
    BY <1>6, <2>1 DEF Begins
  <2> QED
    BY <1>7, <2>1, <2>2
<1>9. Client!Parse(r) = P
  BY <1>1, <1>2, <1>3, <1>4, <1>5, <1>7, <1>8, Zenon DEF Client!Parse, BodyOf
<1>10. b \in Seq(Client!Units) /\ Len(b) \in Nat /\ Len(W) \in Nat /\ g \in Nat
  BY <1>6 DEF Begins, HoldsText
<1>11. \A i \in g + 1 .. close - 1 : b[i] \in Client!Units
  <2> TAKE i \in g + 1 .. close - 1
  <2>1. i \in 1 .. Len(b)
    BY <1>7, <1>10
  <2> QED
    BY <1>10, <2>1, ElementOfSeq, Zenon
<1>12. P \in Seq(Client!Units)
  <2>1. P = SubSeq(b, g + 1, close - 1) /\ g + 1 \in Int /\ close - 1 \in Int
    BY <1>5, <1>7, <1>10
  <2> QED
    BY <1>11, <2>1, SubSeqProperties, Zenon
<1> QED
  BY <1>9, <1>12

\* A text whose key is cut by two chunks is not found.
LEMMA CutKeyHasNoText ==
    ASSUME NEW J, CutsKey(J), NEW o \in Nat, NEW r, Begins(BodyOf(r), J, o, r)
    PROVE  Client!Parse(r) = None
<1>1. PICK b : b = BodyOf(r)
  OBVIOUS
<1>2. PICK key : key = Client!Find(b, "key_end", 1)
  OBVIOUS
<1>3. Len(b) \in Nat /\ Len(b) <= Len(J) /\ \A i \in 1 .. Len(b) : b[i] = J[i]
  BY <1>1 DEF Begins
<1>4. IsFirst(key, b, "key_end", 1)
  BY <1>2, <1>3, FindsFirst
<1>5. ~(key > 1 /\ b[key - 1] = "key")
  <2> SUFFICES ASSUME key > 1, b[key - 1] = "key" PROVE FALSE
    OBVIOUS
  <2>1. PICK m \in Nat : m = Len(b)
    BY <1>3
  <2>2. key \in 1 .. m \/ key = 0
    BY <1>4, <2>1 DEF IsFirst
  <2>3. key \in 1 .. m /\ b[key] = "key_end" /\ \A i \in 1 .. key - 1 : b[i] # "key_end"
    BY <1>4, <2>1, <2>2 DEF IsFirst
  <2>4. key \in {2, 3} \/ key >= 4
    BY <2>3
  <2>5. CASE key \in {2, 3}
    BY <1>3, <2>1, <2>3, <2>5 DEF CutsKey
  <2>6. CASE key >= 4
    <3>1. 4 \in 1 .. Len(b) /\ 3 \in 1 .. Len(b)
      BY <2>1, <2>3, <2>6
    <3>2. b[4] = "key_end" /\ b[3] = "boundary"
      BY <1>3, <3>1, Zenon DEF CutsKey
    <3>3. key = 4
      BY <2>3, <2>6, <3>2
    <3> QED
      BY <3>2, <3>3
  <2> QED
    BY <2>4, <2>5, <2>6
<1> QED
  BY <1>1, <1>2, <1>5, Zenon DEF Client!Parse, BodyOf

\* An error document has no text.
LEMMA ErrorHasNoText ==
    ASSUME NEW o \in Nat, NEW r, Begins(BodyOf(r), <<"json">>, o, r)
    PROVE  Client!Parse(r) = None
<1>1. PICK b : b = BodyOf(r)
  OBVIOUS
<1>2. PICK key : key = Client!Find(b, "key_end", 1)
  OBVIOUS
<1>3. Len(b) \in Nat /\ Len(b) <= 1 /\ \A i \in 1 .. Len(b) : b[i] = <<"json">>[i]
  <2>1. Len(<<"json">>) = 1
    OBVIOUS
  <2> QED
    BY <1>1, <2>1 DEF Begins
<1>4. IsFirst(key, b, "key_end", 1)
  BY <1>2, <1>3, FindsFirst
<1>5. ~(key > 1)
  BY <1>3, <1>4 DEF IsFirst
<1> QED
  BY <1>1, <1>2, <1>5, Zenon DEF Client!Parse, BodyOf

\* Before the empty line has come, there is no body.
LEMMA NoBodyNoText ==
    ASSUME NEW r, Client!Find(r, "empty_line", 1) = 0
    PROVE  Client!Parse(r) = None
BY Zenon DEF Client!Parse

\* Between two quotes no character is cut in half.
LEMMA QuotedIsWhole ==
    ASSUME NEW W, W \in Seq(WireTextUnits), NEW r, Len(r) \in Nat, Client!Utf8(r),
           NEW P, Quoted(P, W, r)
    PROVE  Client!Utf8(P)
<1>1. PICK o \in Nat, m \in Nat : IsQuoted(P, W, r, o, m)
  BY DEF Quoted
<1>2. /\ m \in 0 .. Len(W) /\ o \in Nat \ {0} /\ o + m + 1 <= Len(r)
      /\ r[o] = "quote" /\ r[o + (m + 1)] = "quote"
      /\ \A i \in 1 .. m : r[o + i] = W[i]
      /\ P = SubSeq(W, 1, m)
  BY <1>1 DEF IsQuoted
<1>3. Len(P) = m /\ \A i \in 1 .. m : P[i] = W[i]
  BY <1>2, ReadIsPrefix
<1>4. ASSUME NEW i \in 1 .. Len(P), P[i] = "lead"
      PROVE  i < Len(P) /\ P[i + 1] = "rest"
  <2>1. i \in 1 .. m /\ o + i \in 1 .. Len(r) /\ o + (i + 1) = (o + i) + 1
    BY <1>2, <1>3
  <2>2. r[o + i] = "lead"
    BY <1>2, <1>3, <1>4, <2>1
  <2>3. r[(o + i) + 1] = "rest"
    BY <2>1, <2>2, Zenon DEF Client!Utf8
  <2>4. i # m
    BY <1>2, <2>1, <2>3
  <2>5. i + 1 \in 1 .. m
    BY <1>2, <2>1, <2>4
  <2>6. P[i + 1] = W[i + 1] /\ r[o + (i + 1)] = W[i + 1]
    BY <1>2, <1>3, <2>5, Zenon
  <2> QED
    BY <1>3, <2>1, <2>3, <2>5, <2>6
<1>5. ASSUME NEW i \in 1 .. Len(P), P[i] = "rest"
      PROVE  i > 1 /\ P[i - 1] = "lead"
  <2>1. i \in 1 .. m /\ o + i \in 1 .. Len(r) /\ (o + i) - 1 = o + (i - 1)
    BY <1>2, <1>3
  <2>2. r[o + i] = "rest"
    BY <1>2, <1>3, <1>5, <2>1
  <2>3. r[(o + i) - 1] = "lead"
    BY <2>1, <2>2, Zenon DEF Client!Utf8
  <2>4. i # 1
    BY <1>2, <2>1, <2>3
  <2>5. i - 1 \in 1 .. m
    BY <1>2, <2>1, <2>4
  <2>6. P[i - 1] = W[i - 1] /\ r[o + (i - 1)] = W[i - 1]
    BY <1>2, <1>3, <2>5, Zenon
  <2> QED
    BY <1>3, <2>1, <2>3, <2>5, <2>6
<1> QED
  BY <1>4, <1>5, Zenon DEF Client!Utf8

-----------------------------------------------------------------------------
(* The client *)

\* The service's answer is there once the request is out, and a request fails
\* after data only by filling the buffer.
ClientInv ==
    /\ Client!ClientTypeOK
    /\ phase \in {"idle", "header", "body", "flush"} =>
          document = Client!NoDocument /\ got = 0
    /\ phase = "error" => document = Client!NoDocument \/ got = 0 \/ got >= RespCap

LEMMA DocumentIsSent ==
    ASSUME NEW d \in Documents \union {Client!NoDocument}
    PROVE  /\ Client!Json(d) \in Seq(JsonUnits)
           /\ Carries(Client!Wire(d), Client!Json(d), d.chunked)
           /\ Len(Client!Wire(d)) \in Nat \ {0, 1}
           /\ d.chunked \in BOOLEAN
<1>1. d.chunked \in BOOLEAN /\ (d.text # None => d \in Documents)
  <2>1. CASE d = Client!NoDocument
    <3>1. d.chunked = FALSE /\ d.text = None
      BY <2>1 DEF Client!NoDocument
    <3>2. d.chunked \in BOOLEAN
      BY <3>1, Zenon
    <3> QED
      BY <3>1, <3>2, Zenon
  <2>2. CASE d \in Documents
    BY <2>2, DocumentsAssumption, Zenon
  <2> QED
    BY <2>1, <2>2
<1>2. Client!Json(d) \in Seq(JsonUnits)
  <2>1. CASE d.text = None
    BY <2>1, JsonOfError
  <2>2. CASE d.text # None
    BY <1>1, <2>2, JsonOfText
  <2> QED
    BY <2>1, <2>2
<1>3. Carries(Client!Wire(d), Client!Json(d), d.chunked)
  BY <1>1, <1>2, WireCarriesJson, Zenon
<1>4. Len(Client!Wire(d)) \in Nat \ {0, 1}
  BY <1>3 DEF Carries, Start
<1> QED
  BY <1>1, <1>2, <1>3, <1>4, Zenon

\* Each step of the client keeps its invariant; a step that ends a request
\* does so, too.
LEMMA ClientStepKeepsInv ==
    ASSUME ClientInv, Client!ClientStep
    PROVE  ClientInv'
<1> USE DEF ClientInv, Client!ClientTypeOK
<1>1. CASE Client!BuildRequest
  BY <1>1 DEF Client!BuildRequest
<1>2. CASE Client!WriteHeader
  BY <1>2 DEF Client!WriteHeader
<1>3. CASE Client!WriteBody
  BY <1>3 DEF Client!WriteBody
<1>4. CASE Client!FlushRequest
  <2>1. /\ phase' = "reading" /\ document' \in Documents /\ got' = 0 /\ got \in 0 .. RespCap
    BY <1>4 DEF Client!FlushRequest
  <2>2. Len(Client!Wire(document')) \in Nat /\ RespCap \in Nat
    BY <2>1, DocumentIsSent, DocumentsAssumption
  <2>3. got' \in 0 .. RespCap /\ got' <= Len(Client!Wire(document'))
    BY <2>1, <2>2
  <2> QED
    BY <2>1, <2>3
<1>5. CASE Client!WriteFails
  BY <1>5 DEF Client!WriteFails
<1>6. CASE Client!ReadSome
  <2>1. PICK l : l = Len(Client!Wire(document))
    OBVIOUS
  <2>2. l \in Nat /\ RespCap \in Nat
    BY <2>1, DocumentIsSent, DocumentsAssumption
  <2>3. /\ phase' = phase /\ document' = document /\ phase = "reading"
        /\ \E n \in 1 .. l - got : got + n <= RespCap /\ got' = got + n
    BY <1>6, <2>1 DEF Client!ReadSome, Client!Unread
  <2>4. got' \in 0 .. RespCap /\ got' <= l
    BY <2>2, <2>3
  <2> QED
    BY <2>1, <2>3, <2>4
<1>7. CASE Client!ResponseTooLarge
  BY <1>7 DEF Client!ResponseTooLarge
<1>8. CASE Client!StreamEnds
  BY <1>8 DEF Client!StreamEnds
<1>9. CASE Client!ReadFails
  BY <1>9, DocumentsAssumption DEF Client!ReadFails
<1> QED
  BY <1>1, <1>2, <1>3, <1>4, <1>5, <1>6, <1>7, <1>8, <1>9 DEF Client!ClientStep

LEMMA ClientRestsKeepsInv ==
    ASSUME phase = "idle", document = Client!NoDocument, got = 0
    PROVE  ClientInv
<1>1. Len(Client!Wire(document)) \in Nat
  BY DocumentIsSent
<1> QED
  BY <1>1, DocumentsAssumption DEF ClientInv, Client!ClientTypeOK

LEMMA ClientInvariant == RequestsSpec => []ClientInv
<1>1. RequestsInit => ClientInv
  BY ClientRestsKeepsInv DEF RequestsInit, Client!ClientInit
<1>2. ClientInv /\ [RequestsNext]_allVars => ClientInv'
  <2> SUFFICES ASSUME ClientInv, [RequestsNext]_allVars
               PROVE  ClientInv'
    OBVIOUS
  <2>1. CASE Request
    BY <2>1, ClientStepKeepsInv DEF Request
  <2>2. CASE CloseAfterRequest
    <3>1. phase' = "idle" /\ document' = Client!NoDocument /\ got' = 0
      BY <2>2 DEF CloseAfterRequest
    <3>2. Len(Client!Wire(document')) \in Nat
      BY <3>1, DocumentIsSent
    <3> QED
      BY <3>1, <3>2, DocumentsAssumption DEF ClientInv, Client!ClientTypeOK
  <2>3. CASE UNCHANGED client
    BY <2>3 DEF client, ClientInv, Client!ClientTypeOK
  <2> QED
    BY <2>1, <2>2, <2>3 DEF RequestsNext, Opens, Proceed, OthersClose, allVars
<1> QED
  BY <1>1, <1>2, PTL DEF RequestsSpec

-----------------------------------------------------------------------------
(* The answer *)

\* What is shown for the beginning P of W: as much of it as fits, or that it
\* is invalid; all of it if it fits.
LEMMA ShownOfText ==
    ASSUME NEW W, W \in Seq(WireTextUnits), NEW m \in 0 .. Len(W),
           NEW P, P = SubSeq(W, 1, m), Client!Utf8(P)
    PROVE  /\ Client!Shown(P) \in Seq(Client!Units)
           /\ m <= RxCap => Client!Shown(P) = P
           /\ \/ Client!IsPrefix(Client!Shown(P), W)
              \/ Client!Shown(P) = <<"invalid">> /\ Len(W) > RxCap
<1>1. Len(W) \in Nat /\ m \in Nat /\ m <= Len(W) /\ RxCap \in Nat
  BY LenProperties, DocumentsAssumption
<1>2. P \in Seq(WireTextUnits) /\ Len(P) = m /\ \A i \in 1 .. m : P[i] = W[i]
  BY ReadIsPrefix
<1>3. PICK l : l = IF Len(P) < RxCap THEN Len(P) ELSE RxCap
  OBVIOUS
<1>4. l \in 0 .. m /\ l \in 0 .. Len(W) /\ (m <= RxCap => l = m) /\ (l # m => Len(W) > RxCap)
  BY <1>1, <1>2, <1>3
<1>5. PICK cut : cut = SubSeq(P, 1, l)
  OBVIOUS
<1>6. cut \in Seq(WireTextUnits) /\ Len(cut) = l /\ \A i \in 1 .. l : cut[i] = P[i]
  BY <1>2, <1>4, <1>5, ReadIsPrefix
<1>7. Client!Shown(P) = IF Client!Utf8(cut) THEN cut ELSE <<"invalid">>
  BY <1>3, <1>5, Zenon DEF Client!Shown
<1>8. WireTextUnits \subseteq Client!Units /\ "invalid" \in Client!Units
  BY DEF WireTextUnits, Client!Units
<1>9. cut \in Seq(Client!Units) /\ <<"invalid">> \in Seq(Client!Units)
  BY <1>6, <1>8, SeqMonotonic
<1>10. l = m => cut = P
  <2> SUFFICES ASSUME l = m PROVE cut = P
    OBVIOUS
  <2>1. Len(cut) = Len(P) /\ \A i \in 1 .. Len(cut) : cut[i] = P[i]
    BY <1>2, <1>6
  <2> QED
    BY <1>2, <1>6, <2>1, SeqEqual, Zenon
<1>11. CASE Client!Utf8(cut)
  <2>1. Client!Shown(P) = cut
    BY <1>7, <1>11, Zenon
  <2>2. SubSeq(W, 1, l) \in Seq(WireTextUnits) /\ Len(SubSeq(W, 1, l)) = l
        /\ \A i \in 1 .. l : SubSeq(W, 1, l)[i] = W[i]
    BY <1>4, ReadIsPrefix, Zenon
  <2>3. PICK t : t = SubSeq(W, 1, l)
    OBVIOUS
  <2>4. t \in Seq(WireTextUnits) /\ Len(cut) = Len(t) /\ \A i \in 1 .. Len(cut) : cut[i] = t[i]
    BY <1>2, <1>4, <1>6, <2>2, <2>3
  <2>5. cut = t
    BY <1>6, <2>4, SeqEqual, Zenon
  <2>6. SubSeq(cut, 1, Len(cut)) = cut
    BY <1>6, SubSeqFull, Zenon
  <2>7. Client!IsPrefix(cut, W)
    BY <1>1, <1>4, <1>6, <2>3, <2>5, <2>6 DEF Client!IsPrefix
  <2> QED
    BY <1>4, <1>9, <1>10, <2>1, <2>7, Zenon
<1>12. CASE ~Client!Utf8(cut)
  <2>1. Client!Shown(P) = <<"invalid">>
    BY <1>7, <1>12, Zenon
  <2>2. l # m
    BY <1>10, <1>12, Zenon
  <2> QED
    BY <1>4, <1>9, <2>1, <2>2, Zenon
<1> QED
  BY <1>11, <1>12

\* The response that has been read.
LEMMA ReadBegins ==
    ASSUME NEW d \in Documents \union {Client!NoDocument},
           NEW n \in 0 .. Len(Client!Wire(d)),
           NEW r, r = SubSeq(Client!Wire(d), 1, n)
    PROVE  /\ Len(r) \in Nat
           /\ Client!Find(r, "empty_line", 1) = IF n >= 2 THEN 2 ELSE 0
           /\ n >= 2 =>
                 /\ Begins(BodyOf(r), Client!Json(d), Start(d.chunked), r)
                 /\ n = Len(Client!Wire(d)) => Len(BodyOf(r)) = Len(Client!Json(d))
<1>1. PICK w : w = Client!Wire(d)
  OBVIOUS
<1>2. PICK J : J = Client!Json(d)
  OBVIOUS
<1>3. Carries(w, J, d.chunked) /\ Len(w) \in Nat /\ d.chunked \in BOOLEAN
  BY <1>1, <1>2, DocumentIsSent
<1>4. w \in Seq(Client!Units) /\ w[1] = "headers" /\ w[2] = "empty_line"
  BY <1>3 DEF Carries
<1>5. n \in 0 .. Len(w) /\ r = SubSeq(w, 1, n)
  BY <1>1
<1>6. r \in Seq(Client!Units) /\ Len(r) = n /\ \A i \in 1 .. n : r[i] = w[i]
  BY <1>4, <1>5, ReadIsPrefix
<1>7. /\ Len(r) \in Nat
      /\ Len(r) >= 1 => r[1] = "headers"
      /\ Len(r) >= 2 => r[2] = "empty_line"
  BY <1>3, <1>4, <1>5, <1>6
<1>8. Client!Find(r, "empty_line", 1) = IF Len(r) >= 2 THEN 2 ELSE 0
  BY <1>7, FindsEmptyLine, Zenon
<1>9. ASSUME n >= 2
      PROVE  /\ Begins(BodyOf(r), J, Start(d.chunked), r)
             /\ n = Len(w) => Len(BodyOf(r)) = Len(J)
  <2>1. n \in 2 .. Len(w)
    BY <1>3, <1>5, <1>9
  <2>2. IsRead(r, w, n)
    BY <1>6 DEF IsRead
  <2> QED
    BY <1>3, <2>1, <2>2, BodyBegins
<1> QED
  BY <1>1, <1>2, <1>6, <1>7, <1>8, <1>9, Zenon

\* A text found in a response is the document's, up to a quote in it, and
\* whole characters.
LEMMA ParsedText ==
    ASSUME NEW d \in Documents \union {Client!NoDocument},
           NEW n \in 0 .. Len(Client!Wire(d)),
           NEW P, P = Client!Parse(SubSeq(Client!Wire(d), 1, n)), P # None,
           NEW W, W = Client!WireText(d)
    PROVE  /\ d \in Documents /\ d.text # None /\ ~Client!KeyIsCut(d)
           /\ W \in Seq(WireTextUnits)
           /\ Client!Utf8(P)
           /\ \E m \in 0 .. Len(W) : P = SubSeq(W, 1, m) /\ (m < Len(W) => W[m + 1] = "quote")
<1>1. PICK r : r = SubSeq(Client!Wire(d), 1, n)
  OBVIOUS
<1>2. PICK J : J = Client!Json(d)
  OBVIOUS
<1>3. PICK o : o = Start(d.chunked)
  OBVIOUS
<1>4. o \in Nat
  BY <1>3 DEF Start
<1>5. P = Client!Parse(r)
  BY <1>1
<1>6. Client!Find(r, "empty_line", 1) # 0
  BY <1>5, NoBodyNoText
<1>7. Len(r) \in Nat /\ Begins(BodyOf(r), J, o, r)
  BY <1>1, <1>2, <1>3, <1>6, ReadBegins
<1>8. d.text # None
  <2> SUFFICES ASSUME d.text = None PROVE FALSE
    OBVIOUS
  <2>1. J = <<"json">>
    BY <1>2, JsonOfError
  <2>2. Client!Parse(r) = None
    BY <1>4, <1>7, <2>1, ErrorHasNoText, Zenon
  <2> QED
    BY <1>5, <2>2
<1>9. d \in Documents
  BY <1>8 DEF Client!NoDocument
<1>10. ~Client!KeyIsCut(d)
  <2> SUFFICES ASSUME Client!KeyIsCut(d) PROVE FALSE
    OBVIOUS
  <2>1. CutsKey(J)
    BY <1>2, <1>8, <1>9, JsonOfText, Zenon
  <2>2. Client!Parse(r) = None
    BY <1>4, <1>7, <2>1, CutKeyHasNoText, Zenon
  <2> QED
    BY <1>5, <2>2
<1>11. PICK k, g : HoldsText(J, W, k, g)
  BY <1>2, <1>8, <1>9, <1>10, JsonOfText, Zenon
<1>12. Client!Utf8(r) /\ Quoted(P, W, r)
  BY <1>4, <1>5, <1>7, <1>11, ParsedIsQuoted
<1>13. W \in Seq(WireTextUnits)
  BY <1>11 DEF HoldsText
<1>14. Client!Utf8(P)
  BY <1>7, <1>12, <1>13, QuotedIsWhole, Zenon
<1>15. \E m \in 0 .. Len(W) : P = SubSeq(W, 1, m) /\ (m < Len(W) => W[m + 1] = "quote")
  BY <1>12, Zenon DEF Quoted, IsQuoted
<1> QED
  BY <1>8, <1>9, <1>13, <1>14, <1>15, <1>10, Zenon

\* A document with a text that has come in completely is parsed.
LEMMA CompleteText ==
    ASSUME NEW d \in Documents, d.text # None, ~Client!KeyIsCut(d),
           Client!Utf8(Client!Wire(d))
    PROVE  Client!Parse(SubSeq(Client!Wire(d), 1, Len(Client!Wire(d)))) # None
<1>1. PICK w : w = Client!Wire(d)
  OBVIOUS
<1>2. PICK n : n = Len(w)
  OBVIOUS
<1>3. PICK r : r = SubSeq(w, 1, n)
  OBVIOUS
<1>4. Carries(w, Client!Json(d), d.chunked) /\ n \in Nat \ {0, 1}
  BY <1>1, <1>2, DocumentIsSent
<1>5. r = w
  BY <1>2, <1>3, <1>4, SubSeqFull DEF Carries
<1>6. n >= 2 /\ n \in 0 .. Len(Client!Wire(d)) /\ r = SubSeq(Client!Wire(d), 1, n)
  BY <1>1, <1>2, <1>3, <1>4
<1>7. /\ Len(r) \in Nat /\ Client!Find(r, "empty_line", 1) # 0
      /\ Begins(BodyOf(r), Client!Json(d), Start(d.chunked), r)
      /\ Len(BodyOf(r)) = Len(Client!Json(d))
  <2>1. /\ Len(r) \in Nat
        /\ Client!Find(r, "empty_line", 1) = IF n >= 2 THEN 2 ELSE 0
        /\ n >= 2 =>
              /\ Begins(BodyOf(r), Client!Json(d), Start(d.chunked), r)
              /\ n = Len(Client!Wire(d)) => Len(BodyOf(r)) = Len(Client!Json(d))
    BY <1>6, ReadBegins
  <2> QED
    BY <1>1, <1>2, <1>6, <2>1
<1>8. PICK k, g : HoldsText(Client!Json(d), Client!WireText(d), k, g)
  BY JsonOfText, Zenon
<1>9. Start(d.chunked) \in Nat
  BY DEF Start
<1>10. Client!Utf8(r)
  BY <1>1, <1>5
<1>11. Client!Parse(r) \in Seq(Client!Units)
  BY <1>7, <1>8, <1>9, <1>10, CompleteIsParsed
<1>12. None \notin Seq(Client!Units)
  BY DocumentsAssumption
<1> QED
  BY <1>1, <1>2, <1>3, <1>11, <1>12, Zenon

LEMMA InvMakesAnswerRight == ClientInv => AnswerIsRight
<1> SUFFICES ASSUME ClientInv PROVE AnswerIsRight
  OBVIOUS
<1>1. /\ document \in Documents \union {Client!NoDocument}
      /\ got \in 0 .. RespCap /\ got <= Len(Client!Wire(document))
      /\ phase = "error" => document = Client!NoDocument \/ got = 0 \/ got >= RespCap
  BY DEF ClientInv, Client!ClientTypeOK
<1>2. got \in 0 .. Len(Client!Wire(document)) /\ got \in Nat /\ RespCap \in Nat
  BY <1>1, DocumentIsSent, DocumentsAssumption
<1>3. PICK W : W = Client!WireText(document)
  OBVIOUS
<1>4. PICK P : P = Client!Parsed
  OBVIOUS
<1>5. P = Client!Parse(SubSeq(Client!Wire(document), 1, got))
  BY <1>4 DEF Client!Parsed
<1>6. PICK A : A = Client!Answer
  OBVIOUS
<1>7. A = IF phase = "parsed" /\ P # None THEN Client!Shown(P) ELSE None
  BY <1>4, <1>6 DEF Client!Answer
<1>8. ASSUME A # None
      PROVE  /\ \/ A = document.text
                \/ Client!HasEscape(document.text) /\ A = Client!Written(document.text)
                \/ Client!HasQuote(document.text)
                \/ Client!TextIsCut(document)
                \/ Len(Client!Written(document.text)) > RxCap
             /\ Client!IsPrefix(A, W) \/ (A = <<"invalid">> /\ Len(W) > RxCap)
  <2>1. P # None /\ A = Client!Shown(P)
    BY <1>7, <1>8
  <2>2. /\ document \in Documents /\ document.text # None
        /\ W \in Seq(WireTextUnits) /\ Client!Utf8(P)
        /\ \E m \in 0 .. Len(W) : P = SubSeq(W, 1, m) /\ (m < Len(W) => W[m + 1] = "quote")
    BY <1>1, <1>2, <1>3, <1>5, <2>1, ParsedText
  <2>3. PICK m \in 0 .. Len(W) : P = SubSeq(W, 1, m) /\ (m < Len(W) => W[m + 1] = "quote")
    BY <2>2
  <2>4. /\ m <= RxCap => A = P
        /\ Client!IsPrefix(A, W) \/ (A = <<"invalid">> /\ Len(W) > RxCap)
    <3>1. /\ m <= RxCap => Client!Shown(P) = P
          /\ \/ Client!IsPrefix(Client!Shown(P), W)
             \/ Client!Shown(P) = <<"invalid">> /\ Len(W) > RxCap
      BY <2>2, <2>3, ShownOfText
    <3> QED
      BY <2>1, <3>1
  <2>5. document.text \in Seq(Client!TextUnits)
    BY <2>2, DocumentsAssumption
  <2>6. ASSUME ~Client!HasQuote(document.text), ~Client!TextIsCut(document),
               ~(Len(Client!Written(document.text)) > RxCap)
        PROVE  A = Client!Written(document.text)
    <3>1. W = Client!Written(document.text) /\ Len(W) \in Nat /\ RxCap \in Nat
      BY <1>3, <2>2, <2>6, LenProperties, DocumentsAssumption DEF Client!WireText
    <3>2. \A i \in 1 .. Len(W) : W[i] # "quote"
      BY <2>6, <2>5, <3>1, WrittenIs, Zenon
    <3>3. m = Len(W) /\ m <= RxCap
      BY <2>3, <2>6, <3>1, <3>2
    <3>4. P = W
      BY <2>2, <2>3, <3>3, SubSeqFull
    <3> QED
      BY <2>4, <3>1, <3>3, <3>4
  <2>7. ~Client!HasEscape(document.text) => Client!Written(document.text) = document.text
    BY <2>5, WrittenIs, Zenon
  <2> QED
    BY <2>4, <2>6, <2>7, Zenon
<1>9. Client!WholeOrNothing
  BY <1>6, <1>8, Zenon DEF Client!WholeOrNothing
<1>10. Client!AnswerIsFromText
  BY <1>3, <1>6, <1>8, Zenon DEF Client!AnswerIsFromText
<1>11. Client!CompleteIsUsed
  <2> SUFFICES ASSUME phase \in {"parsed", "error"}, document.text # None,
                      Client!Utf8(Client!Wire(document)), ~Client!KeyIsCut(document),
                      got = Len(Client!Wire(document)), got < RespCap
               PROVE  A # None
    BY <1>6, Zenon DEF Client!CompleteIsUsed
  <2>1. document # Client!NoDocument
    BY DEF Client!NoDocument
  <2>2. got # 0 /\ ~(got >= RespCap)
    BY <1>1, <1>2, DocumentIsSent
  <2>3. phase = "parsed" /\ document \in Documents
    BY <1>1, <2>1, <2>2, Zenon
  <2>4. P # None
    BY <1>5, <2>3, CompleteText
  <2>5. PICK m \in 0 .. Len(W) : P = SubSeq(W, 1, m)
    BY <1>1, <1>2, <1>3, <1>5, <2>4, ParsedText
  <2>6. W \in Seq(WireTextUnits) /\ Client!Utf8(P)
    BY <1>1, <1>2, <1>3, <1>5, <2>4, ParsedText, Zenon
  <2>7. Client!Shown(P) \in Seq(Client!Units)
    BY <2>5, <2>6, ShownOfText, Zenon
  <2>8. None \notin Seq(Client!Units)
    BY DocumentsAssumption
  <2> QED
    BY <1>7, <2>3, <2>4, <2>7, <2>8, Zenon
<1> QED
  BY <1>9, <1>10, <1>11, Zenon DEF AnswerIsRight, Client!AnswerIsRight

\* However the service's answer is cut off, wherever its chunks meet, and
\* however the stream ends.
THEOREM AnswersAreRight == RequestsSpec => []AnswerIsRight
BY ClientInvariant, InvMakesAnswerRight, PTL

-----------------------------------------------------------------------------
(* The client and its connection *)

\* The client is at rest unless its connection is open.
RestsUnlessOpen == pc[Translator] # "open" => phase = "idle"

\* A task that moves on by itself has no open connection before the step.
LEMMA ProgressIsNotFromOpen ==
    ASSUME NEW t \in Tasks, Progress(t)
    PROVE  pc[t] # "open" /\ \E label : Goto(t, label)
BY DEF Progress, DnsFails, DnsAnswers, NoFreeBuffers, TcpFails, TcpRetry, TcpGivesUp,
       PlainOpens, TlsStarts, TlsSessionFails, HandshakeSucceeds, HandshakeFails,
       FinishTlsClose, LateDrop, FailOpen, CloseReturns

LEMMA RestStep ==
    ASSUME TypeOK, RestsUnlessOpen, [RequestsNext]_allVars
    PROVE  RestsUnlessOpen'
<1>1. Translator \in Tasks
  BY TranslatorAssumption
<1>2. CASE Opens
  <2>1. PICK t \in Tasks : Open(t)
    BY <1>2 DEF Opens
  <2>2. pc[t] # "open" /\ pc' = [pc EXCEPT ![t] = "dns"] /\ phase' = phase
    BY <1>2, <2>1 DEF Opens, Open, Goto, client
  <2> QED
    BY <1>1, <2>2 DEF TypeOK, RestsUnlessOpen
<1>3. CASE \E t \in Tasks : Proceed(t)
  <2>1. PICK t \in Tasks : Progress(t)
    BY <1>3 DEF Proceed
  <2>2. PICK label : pc[t] # "open" /\ pc' = [pc EXCEPT ![t] = label]
    BY <2>1, ProgressIsNotFromOpen DEF Goto
  <2>3. phase' = phase
    BY <1>3 DEF Proceed, client
  <2> QED
    BY <1>1, <2>2, <2>3 DEF TypeOK, RestsUnlessOpen
<1>4. CASE Request
  BY <1>4 DEF Request, vars, RestsUnlessOpen
<1>5. CASE CloseAfterRequest
  BY <1>5 DEF CloseAfterRequest, RestsUnlessOpen
<1>6. CASE OthersClose
  <2>1. PICK t \in Tasks \ {Translator} : ClosePlain(t) \/ StartTlsClose(t)
    BY <1>6 DEF OthersClose
  <2>2. \E label : pc' = [pc EXCEPT ![t] = label]
    BY <2>1 DEF ClosePlain, StartTlsClose, CloseReturns, Goto
  <2>3. phase' = phase
    BY <1>6 DEF OthersClose, client
  <2> QED
    BY <1>1, <2>2, <2>3 DEF TypeOK, RestsUnlessOpen
<1>7. CASE UNCHANGED allVars
  BY <1>7 DEF allVars, vars, client, RestsUnlessOpen
<1> QED
  BY <1>2, <1>3, <1>4, <1>5, <1>6, <1>7 DEF RequestsNext

\* The composition is well-typed, and no request runs without its connection.
THEOREM RequestsTypes == RequestsSpec => []RequestsTypeOK
<1>1. RequestsInit => RestsUnlessOpen
  BY DEF RequestsInit, Client!ClientInit, RestsUnlessOpen
<1>2. Spec => []TypeOK
  <2>1. ConnectionInv => TypeOK
    BY DEF ConnectionInv
  <2> QED
    BY <2>1, ConnectionInvariant, PTL
<1>3. RequestsSpec => []TypeOK
  BY <1>2, RequestsImplementConnections, PTL
<1>4. TypeOK /\ RestsUnlessOpen /\ [RequestsNext]_allVars => RestsUnlessOpen'
  BY RestStep
<1>5. TypeOK /\ ClientInv /\ RestsUnlessOpen => RequestsTypeOK
  BY DEF ClientInv, RestsUnlessOpen, RequestsTypeOK
<1> QED
  BY <1>1, <1>3, <1>4, <1>5, ClientInvariant, PTL DEF RequestsSpec
=============================================================================
