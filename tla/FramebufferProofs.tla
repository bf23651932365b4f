-------------------------- MODULE FramebufferProofs --------------------------
(***************************************************************************)
(* Proofs about Framebuffer, for every screen, every clip and everything   *)
(* that is drawn.  The inductive invariant is TypeOK with                  *)
(* DirtyCoversChanges; what a drawing operation has to show is that the    *)
(* rectangle it marks, after clamping and the union with what was dirty    *)
(* before, holds every pixel it writes.                                    *)
(***************************************************************************)
EXTENDS Framebuffer, TLAPS

-----------------------------------------------------------------------------
(* Rectangles *)

\* A span of integers is a rectangle, and contains what its corners enclose.
LEMMA SpanInside ==
    ASSUME NEW x1 \in Int, NEW y1 \in Int, NEW x2 \in Int, NEW y2 \in Int
    PROVE  /\ Span(x1, y1, x2, y2) \in Rects
           /\ \A p \in Int \X Int :
                 Inside(p, Span(x1, y1, x2, y2)) <=>
                    x1 <= p[1] /\ p[1] < x2 /\ y1 <= p[2] /\ p[2] < y2
  BY DEF Span, Rects, Inside, Upper

\* Intersection is intersection.
LEMMA IntersectionInside ==
    ASSUME NEW a \in Rects, NEW b \in Rects
    PROVE  /\ Intersection(a, b) \in Rects
           /\ \A p \in Int \X Int :
                 Inside(p, Intersection(a, b)) <=> Inside(p, a) /\ Inside(p, b)
<1> DEFINE x1 == Upper(a.x, b.x)
           y1 == Upper(a.y, b.y)
           x2 == Lower(a.x + a.w, b.x + b.w)
           y2 == Lower(a.y + a.h, b.y + b.h)
<1>1. x1 \in Int /\ y1 \in Int /\ x2 \in Int /\ y2 \in Int
  BY DEF Rects, Upper, Lower
<1>2. \A p \in Int \X Int :
        (x1 <= p[1] /\ p[1] < x2 /\ y1 <= p[2] /\ p[2] < y2) <=> Inside(p, a) /\ Inside(p, b)
  BY DEF Rects, Upper, Lower, Inside
<1>3. Intersection(a, b) = Span(x1, y1, x2, y2)
  BY DEF Intersection
<1> HIDE DEF x1, y1, x2, y2
<1> QED BY <1>1, <1>2, <1>3, SpanInside

\* A rectangle that holds a pixel is not empty.
LEMMA InsideNotEmpty ==
    ASSUME NEW r \in Rects, NEW p \in Int \X Int, Inside(p, r)
    PROVE  ~Empty(r)
  BY DEF Rects, Inside, Empty

\* The rectangles that lie on the screen and are not empty.
OnScreen(r) ==
    /\ r \in Rects
    /\ r.x >= 0 /\ r.x + r.w <= Width /\ r.w > 0
    /\ r.y >= 0 /\ r.y + r.h <= Height /\ r.h > 0

\* The bounding box of two rectangles on the screen lies there and holds both.
LEMMA UnionCovers ==
    ASSUME NEW a, OnScreen(a), NEW b, OnScreen(b)
    PROVE  /\ OnScreen(BoundingBoxUnion(a, b))
           /\ \A p \in Int \X Int :
                 Inside(p, a) \/ Inside(p, b) => Inside(p, BoundingBoxUnion(a, b))
  BY ScreenAssumption DEF ScreenAssumption, OnScreen, Rects, BoundingBoxUnion, Span, Lower, Upper, Inside

\* What is inside the intersection with the screen lies on it.
LEMMA ClampedOnScreen ==
    ASSUME NEW r \in Rects, NEW c \in Rects
    PROVE  /\ ~Empty(Intersection(r, FbRect)) => OnScreen(Intersection(r, FbRect))
           /\ ~Empty(Intersection(Intersection(r, FbRect), c)) =>
                 OnScreen(Intersection(Intersection(r, FbRect), c))
<1> DEFINE i == Intersection(r, FbRect)
<1>0. FbRect \in Rects
  BY ScreenAssumption DEF ScreenAssumption, FbRect, Rects
<1>1. i \in Rects
  BY <1>0, IntersectionInside
<1>2. i.x >= 0 /\ i.y >= 0
      /\ (i.w > 0 => i.x + i.w <= Width) /\ (i.h > 0 => i.y + i.h <= Height)
  BY <1>0, ScreenAssumption DEF ScreenAssumption, FbRect, Rects, Intersection, Span, Lower, Upper
<1>3. ~Empty(i) => OnScreen(i)
  BY <1>1, <1>2 DEF OnScreen, Rects, Empty
<1>4. ~Empty(Intersection(i, c)) => OnScreen(Intersection(i, c))
  <2> HIDE DEF i
  <2>1. Intersection(i, c) \in Rects
    BY <1>1, IntersectionInside
  <2>2. /\ Intersection(i, c).x >= i.x /\ Intersection(i, c).y >= i.y
        /\ Intersection(i, c).w > 0 => Intersection(i, c).x + Intersection(i, c).w <= i.x + i.w
        /\ Intersection(i, c).h > 0 => Intersection(i, c).y + Intersection(i, c).h <= i.y + i.h
        /\ Intersection(i, c).w > 0 => i.w > 0
        /\ Intersection(i, c).h > 0 => i.h > 0
    BY <1>1 DEF Rects, Intersection, Span, Lower, Upper
  <2> QED BY <1>1, <1>2, <2>1, <2>2, ScreenAssumption DEF ScreenAssumption, OnScreen, Rects, Empty
<1> QED BY <1>3, <1>4

-----------------------------------------------------------------------------
(* Marking *)

DirtyOK(d) == d = NoRect \/ OnScreen(d)

\* TypeOK says of the dirty rectangle what DirtyOK says.
LEMMA DirtyIsOK == TypeOK => DirtyOK(dirty) /\ clip \in Rects
  BY ScreenAssumption DEF TypeOK, DirtyOK, OnScreen, ScreenAssumption, NoRect, Rects

\* A drawable pixel of a rectangle is in the clamped rectangle, and no other.
LEMMA ClampedInside ==
    ASSUME TypeOK, NEW r \in Rects
    PROVE  /\ Clamped(r) \in Rects
           /\ ~Empty(Clamped(r)) => OnScreen(Clamped(r))
           /\ \A p \in Pixels : Inside(p, Clamped(r)) <=> Inside(p, r) /\ ClipContains(p)
<1>1. FbRect \in Rects /\ clip \in Rects
  BY ScreenAssumption, DirtyIsOK DEF ScreenAssumption, FbRect, Rects
<1>2. Pixels \subseteq Int \X Int /\ \A p \in Pixels : Inside(p, FbRect)
  BY ScreenAssumption DEF ScreenAssumption, Pixels, FbRect, Inside
<1>3. Intersection(r, FbRect) \in Rects
  BY <1>1, IntersectionInside
<1>4. CASE clip = NoRect
  <2>1. Clamped(r) = Intersection(r, FbRect)
    BY <1>4 DEF Clamped
  <2> QED BY <1>1, <1>2, <1>3, <1>4, <2>1, IntersectionInside, ClampedOnScreen DEF ClipContains
<1>5. CASE clip # NoRect
  <2>1. Clamped(r) = Intersection(Intersection(r, FbRect), clip)
    BY <1>5 DEF Clamped
  <2> QED BY <1>1, <1>2, <1>3, <1>5, <2>1, IntersectionInside, ClampedOnScreen DEF ClipContains
<1> QED BY <1>4, <1>5

\* Marking a rectangle keeps what was dirty and adds its drawable pixels.
LEMMA MarkDirtyCovers ==
    ASSUME TypeOK, NEW r \in Rects
    PROVE  /\ DirtyOK(MarkDirty(r))
           /\ \A p \in Pixels :
                 Inside(p, dirty) \/ (Inside(p, r) /\ ClipContains(p)) => Inside(p, MarkDirty(r))
<1>1. DirtyOK(dirty)
  BY DirtyIsOK
<1>2. Pixels \subseteq Int \X Int
  BY ScreenAssumption DEF ScreenAssumption, Pixels
<1>3. \A p \in Pixels : ~Inside(p, NoRect)
  BY <1>2 DEF NoRect, Inside
<1>4. /\ Clamped(r) \in Rects
      /\ ~Empty(Clamped(r)) => OnScreen(Clamped(r))
      /\ \A p \in Pixels : Inside(p, Clamped(r)) <=> Inside(p, r) /\ ClipContains(p)
  BY ClampedInside
<1>5. CASE Empty(Clamped(r))
  <2>1. MarkDirty(r) = dirty
    BY <1>5 DEF MarkDirty
  <2>2. \A p \in Pixels : ~Inside(p, Clamped(r))
    BY <1>2, <1>4, <1>5, InsideNotEmpty
  <2> QED BY <1>1, <1>4, <2>1, <2>2
<1>6. CASE ~Empty(Clamped(r)) /\ dirty = NoRect
  <2>1. MarkDirty(r) = Clamped(r)
    BY <1>6 DEF MarkDirty
  <2> QED BY <1>3, <1>4, <1>6, <2>1 DEF DirtyOK
<1>7. CASE ~Empty(Clamped(r)) /\ dirty # NoRect
  <2>1. MarkDirty(r) = BoundingBoxUnion(dirty, Clamped(r))
    BY <1>7 DEF MarkDirty
  <2>2. OnScreen(dirty) /\ OnScreen(Clamped(r))
    BY <1>1, <1>4, <1>7 DEF DirtyOK
  <2> QED BY <1>2, <1>4, <2>1, <2>2, UnionCovers DEF DirtyOK
<1> QED BY <1>5, <1>6, <1>7

-----------------------------------------------------------------------------
(* The inductive invariant *)

IInv == TypeOK /\ DirtyCoversChanges

\* A drawing operation that writes only drawable pixels of a rectangle, in
\* colours, and marks that rectangle, keeps the invariant.
LEMMA DrawKeepsIInv ==
    ASSUME IInv, NEW r \in Rects,
           buf' \in [Pixels -> Colors],
           \A p \in Pixels : buf'[p] # buf[p] => Inside(p, r) /\ ClipContains(p),
           dirty' = MarkDirty(r),
           UNCHANGED <<clip, panel, lost>>
    PROVE  IInv'
<1>1. /\ DirtyOK(MarkDirty(r))
      /\ \A p \in Pixels :
            Inside(p, dirty) \/ (Inside(p, r) /\ ClipContains(p)) => Inside(p, MarkDirty(r))
  BY MarkDirtyCovers DEF IInv
<1>2. TypeOK'
  BY <1>1 DEF IInv, TypeOK, DirtyOK, OnScreen, NoRect, Rects
<1>3. DirtyCoversChanges'
  <2> SUFFICES ASSUME NEW p \in Pixels, buf'[p] # panel[p]
               PROVE  Inside(p, dirty') \/ p \in lost
    BY DEF DirtyCoversChanges
  <2>1. CASE buf'[p] = buf[p]
    BY <1>1, <2>1 DEF IInv, DirtyCoversChanges
  <2>2. CASE buf'[p] # buf[p]
    BY <1>1, <2>2
  <2> QED BY <2>1, <2>2
<1> QED BY <1>2, <1>3 DEF IInv

\* If nothing drawable is written, nothing changes.
LEMMA NothingDrawn ==
    ASSUME IInv, buf' \in [Pixels -> Colors],
           \A p \in Pixels : buf'[p] = buf[p],
           UNCHANGED <<dirty, clip, panel, lost>>
    PROVE  IInv'
<1>1. TypeOK'
  BY DEF IInv, TypeOK
<1>2. DirtyCoversChanges'
  BY DEF IInv, DirtyCoversChanges
<1> QED BY <1>1, <1>2 DEF IInv

LEMMA DrawIterKeepsIInv ==
    ASSUME IInv, NEW points \in SUBSET Points, NEW image \in Images, DrawIter(points, image)
    PROVE  IInv'
<1> DEFINE visible == {p \in points \intersect Pixels : ClipContains(p)}
<1>1. /\ buf' = [p \in Pixels |-> IF p \in visible THEN image[p] ELSE buf[p]]
      /\ UNCHANGED <<clip, panel, lost>>
  BY DEF DrawIter
<1>2. /\ buf' \in [Pixels -> Colors]
      /\ \A p \in Pixels : buf'[p] # buf[p] => p \in visible
  BY <1>1, ScreenAssumption DEF IInv, TypeOK, ScreenAssumption, Pixels
<1>3. CASE visible = {}
  <2>1. dirty' = dirty
    BY <1>3 DEF DrawIter
  <2> QED BY <1>1, <1>2, <1>3, <2>1, NothingDrawn
<1>4. CASE visible # {}
  <2>1. PICK minp \in Pixels, maxp \in Pixels :
          /\ \A p \in visible : minp[1] <= p[1] /\ p[1] <= maxp[1]
                                /\ minp[2] <= p[2] /\ p[2] <= maxp[2]
          /\ dirty' = MarkDirty(Span(minp[1], minp[2], maxp[1] + 1, maxp[2] + 1))
    BY <1>4 DEF DrawIter
  <2> DEFINE r == Span(minp[1], minp[2], maxp[1] + 1, maxp[2] + 1)
  <2>2. /\ minp[1] \in Int /\ minp[2] \in Int /\ maxp[1] + 1 \in Int /\ maxp[2] + 1 \in Int
        /\ Pixels \subseteq Int \X Int
    BY ScreenAssumption DEF ScreenAssumption, Pixels
  <2>3. \A p \in visible : /\ minp[1] <= p[1] /\ p[1] < maxp[1] + 1
                            /\ minp[2] <= p[2] /\ p[2] < maxp[2] + 1
    BY <2>1, ScreenAssumption DEF ScreenAssumption, Pixels
  <2>4. r \in Rects /\ \A p \in visible : Inside(p, r)
    BY <2>2, <2>3, SpanInside
  <2>5. \A p \in visible : ClipContains(p)
    OBVIOUS
  <2> HIDE DEF r, visible
  <2> QED BY <1>1, <1>2, <2>1, <2>4, <2>5, DrawKeepsIInv DEF r
<1> QED BY <1>3, <1>4

LEMMA FillContiguousKeepsIInv ==
    ASSUME IInv, NEW area \in Areas, NEW image \in Images, FillContiguous(area, image)
    PROVE  IInv'
<1>1. /\ area \in Rects
      /\ buf' = [p \in Pixels |->
                    IF Inside(p, area) /\ ClipContains(p) THEN image[p] ELSE buf[p]]
      /\ dirty' = MarkDirty(area)
      /\ UNCHANGED <<clip, panel, lost>>
  BY ScreenAssumption DEF FillContiguous, ScreenAssumption
<1>2. buf' \in [Pixels -> Colors]
  BY <1>1, ScreenAssumption DEF IInv, TypeOK, ScreenAssumption, Pixels
<1>3. \A p \in Pixels : buf'[p] # buf[p] => Inside(p, area) /\ ClipContains(p)
  BY <1>1
<1> QED BY <1>1, <1>2, <1>3, DrawKeepsIInv

LEMMA FillSolidKeepsIInv ==
    ASSUME IInv, NEW area \in Areas, NEW color \in Colors, FillSolid(area, color)
    PROVE  IInv'
<1> DEFINE r == Clamped(area)
<1>1. /\ area \in Rects
      /\ buf' = [p \in Pixels |-> IF Inside(p, r) THEN color ELSE buf[p]]
      /\ dirty' = MarkDirty(r)
      /\ UNCHANGED <<clip, panel, lost>>
  BY ScreenAssumption DEF FillSolid, ScreenAssumption
<1>2. r \in Rects /\ \A p \in Pixels : Inside(p, r) => ClipContains(p)
  BY <1>1, ClampedInside DEF IInv
<1> HIDE DEF r
<1>3. buf' \in [Pixels -> Colors]
  BY <1>1 DEF IInv, TypeOK
<1>4. \A p \in Pixels : buf'[p] # buf[p] => Inside(p, r) /\ ClipContains(p)
  BY <1>1, <1>2
<1> QED BY <1>1, <1>2, <1>3, <1>4, DrawKeepsIInv

\* A flush, whole or cut off, leaves only lost pixels behind.
LEMMA FlushKeepsIInv ==
    ASSUME IInv, FlushSucceeds \/ \E next \in Pixels : FlushFails(next)
    PROVE  IInv' /\ \A p \in Pixels : panel'[p] # buf[p] => p \in lost' /\ panel'[p] = panel[p]
<1>1. PICK sent \in SUBSET Region : Send(sent) /\ lost' = (lost \ Region) \union (Region \ sent)
  <2>1. CASE FlushSucceeds
    BY <2>1 DEF FlushSucceeds
  <2>2. ASSUME NEW next \in Pixels, FlushFails(next)
        PROVE  \E sent \in SUBSET Region :
                  Send(sent) /\ lost' = (lost \ Region) \union (Region \ sent)
    BY <2>2 DEF FlushFails
  <2> QED BY <2>1, <2>2
<1>2. panel' = [p \in Pixels |-> IF p \in sent THEN buf[p] ELSE panel[p]]
      /\ dirty' = NoRect /\ UNCHANGED <<buf, clip>>
  BY <1>1 DEF Send
<1>3. TypeOK'
  <2>1. panel' \in [Pixels -> Colors] /\ lost' \subseteq Pixels
    BY <1>1, <1>2 DEF IInv, TypeOK, Region
  <2> QED BY <1>2, <2>1 DEF IInv, TypeOK, NoRect, Rects
<1>4. ASSUME NEW p \in Pixels, panel'[p] # buf[p]
      PROVE  p \in lost' /\ panel'[p] = panel[p]
  <2>1. p \notin sent /\ panel'[p] = panel[p]
    BY <1>2, <1>4
  <2>2. Inside(p, dirty) \/ p \in lost
    BY <1>4, <2>1 DEF IInv, DirtyCoversChanges
  <2> QED BY <1>1, <2>1, <2>2 DEF Region
<1>5. DirtyCoversChanges'
  BY <1>2, <1>4 DEF DirtyCoversChanges
<1> QED BY <1>3, <1>4, <1>5 DEF IInv

THEOREM IInvInductive == Spec => []IInv
<1>1. Init => IInv
  <2> SUFFICES ASSUME Init PROVE IInv
    OBVIOUS
  <2>1. PICK black \in Colors : buf = [p \in Pixels |-> black]
    BY DEF Init
  <2>2. buf \in [Pixels -> Colors] /\ panel = buf /\ dirty = NoRect /\ clip = NoRect /\ lost = {}
    BY <2>1 DEF Init
  <2> QED BY <2>2 DEF IInv, TypeOK, DirtyCoversChanges, NoRect, Rects
<1>2. IInv /\ [Next]_vars => IInv'
  <2> SUFFICES ASSUME IInv, [Next]_vars PROVE IInv'
    OBVIOUS
  <2>1. ASSUME NEW c \in Clips \union {NoRect}, SetClip(c) PROVE IInv'
    BY <2>1 DEF SetClip, IInv, TypeOK, DirtyCoversChanges
  <2>2. CASE Draw
    BY <2>2, DrawIterKeepsIInv, FillContiguousKeepsIInv, FillSolidKeepsIInv DEF Draw
  <2>3. CASE FlushSucceeds \/ \E next \in Pixels : FlushFails(next)
    BY <2>3, FlushKeepsIInv
  <2>4. CASE UNCHANGED vars
    BY <2>4 DEF vars, IInv, TypeOK, DirtyCoversChanges
  <2> QED BY <2>1, <2>2, <2>3, <2>4 DEF Next
<1> QED BY <1>1, <1>2, PTL DEF Spec

\* The dirty rectangle stays on the screen, so a flush never reads beyond the
\* buffer.
THEOREM FramebufferTypes == Spec => []TypeOK
  BY IInvInductive, PTL DEF IInv

\* No pixel is ever changed that the next flush would not send, except those
\* a failed flush gave up.
THEOREM NoChangeUnsent == Spec => []DirtyCoversChanges
  BY IInvInductive, PTL DEF IInv

\* No drawing operation writes outside the clip.
THEOREM ClipIsKept == Spec => ClipConfines
<1> DEFINE Confined == clip # NoRect => \A p \in Pixels : buf'[p] # buf[p] => Inside(p, clip)
<1>1. IInv /\ [Next]_vars => [Confined]_vars
  <2> SUFFICES ASSUME IInv, Next, clip # NoRect, NEW p \in Pixels, buf'[p] # buf[p]
               PROVE  Inside(p, clip)
    OBVIOUS
  <2>1. CASE Draw
    <3>1. ASSUME NEW points \in SUBSET Points, NEW image \in Images, DrawIter(points, image)
          PROVE  ClipContains(p)
      BY <3>1 DEF DrawIter
    <3>2. ASSUME NEW area \in Areas, NEW image \in Images, FillContiguous(area, image)
          PROVE  ClipContains(p)
      BY <3>2 DEF FillContiguous
    <3>3. ASSUME NEW area \in Areas, NEW color \in Colors, FillSolid(area, color)
          PROVE  ClipContains(p)
      <4>1. area \in Rects /\ Inside(p, Clamped(area))
        BY <3>3, ScreenAssumption DEF FillSolid, ScreenAssumption
      <4> QED BY <4>1, ClampedInside DEF IInv
    <3> QED BY <2>1, <3>1, <3>2, <3>3 DEF Draw, ClipContains
  <2>2. CASE ~Draw
    BY <2>2 DEF Next, SetClip, FlushSucceeds, FlushFails, Send
  <2> QED BY <2>1, <2>2
<1> QED BY <1>1, IInvInductive, PTL DEF Spec, ClipConfines

\* Flushing dirty rectangles only is as good as sending the whole picture.
THEOREM DirtyRectanglesUnseen == Spec => ImplementsCanvas
<1>1. Init => Abstract!Init
  BY DEF Init, Abstract!Init, Abstract!Pictures
<1>2. IInv /\ IInv' /\ [Next]_vars => [Abstract!Next]_(Abstract!vars)
  <2> SUFFICES ASSUME IInv, IInv', [Next]_vars PROVE [Abstract!Next]_(Abstract!vars)
    OBVIOUS
  <2>1. ASSUME NEW c \in Clips \union {NoRect}, SetClip(c) PROVE UNCHANGED Abstract!vars
    BY <2>1 DEF SetClip, Abstract!vars
  <2>2. CASE Draw
    <3>1. UNCHANGED <<panel, lost>>
      BY <2>2 DEF Draw, DrawIter, FillContiguous, FillSolid
    <3> QED BY <3>1 DEF IInv, TypeOK, Abstract!Draw, Abstract!Next, Abstract!Pictures
  <2>3. CASE FlushSucceeds \/ \E next \in Pixels : FlushFails(next)
    <3>1. buf' = buf
      BY <2>3 DEF FlushSucceeds, FlushFails, Send
    <3>2. \A p \in Pixels : panel'[p] # buf[p] => p \in lost' /\ panel'[p] = panel[p]
      BY <2>3, FlushKeepsIInv
    <3> QED BY <3>1, <3>2 DEF IInv, TypeOK, Abstract!Transfer, Abstract!Next, Abstract!Pictures
  <2>4. CASE UNCHANGED vars
    BY <2>4 DEF vars, Abstract!vars
  <2> QED BY <2>1, <2>2, <2>3, <2>4 DEF Next
<1> QED BY <1>1, <1>2, IInvInductive, PTL DEF Spec, ImplementsCanvas, Abstract!Spec
=============================================================================
