----------------------------- MODULE Framebuffer -----------------------------
(***************************************************************************)
(* rendering/framebuffer.rs: drawing into a buffer under an optional clip  *)
(* rectangle, with one rectangle that covers what has changed since the    *)
(* last flush, and the flush of that rectangle to the panel                *)
(* (elecrow_board/display/async_display.rs).  The flush borrows the        *)
(* framebuffer, so nothing is drawn while it awaits its transfers.         *)
(***************************************************************************)
EXTENDS Integers

CONSTANTS
    Width, Height,
    Colors,
    Areas,          \* the rectangles that are drawn, some beyond the screen
    Points,         \* the points that draw_iter is given
    Images,         \* the colours that are given for them, by pixel
    Clips           \* the rectangles that are set as clip

Rects == [x : Int, y : Int, w : Nat, h : Nat]

NoRect == [x |-> 0, y |-> 0, w |-> 0, h |-> 0]      \* Option::None

ASSUME ScreenAssumption ==
    /\ Width \in Nat \ {0} /\ Height \in Nat \ {0}
    /\ Colors # {}
    /\ Areas \subseteq Rects
    /\ Points \subseteq Int \X Int
    /\ Images \subseteq [(0 .. Width - 1) \X (0 .. Height - 1) -> Colors]
    /\ Clips \subseteq Rects /\ \A c \in Clips : c.x >= 0 /\ c.y >= 0 /\ c.w > 0 /\ c.h > 0

Pixels == (0 .. Width - 1) \X (0 .. Height - 1)

FbRect == [x |-> 0, y |-> 0, w |-> Width, h |-> Height]

VARIABLES
    buf,        \* pixel storage
    dirty,      \* bounding box of all modifications since the last flush
    clip,       \* optional clip rectangle
    panel,      \* what the display shows
    lost        \* history: pixels that a failed transfer has left behind

vars == <<buf, dirty, clip, panel, lost>>

-----------------------------------------------------------------------------
(* Rectangles *)

Lower(a, b) == IF a <= b THEN a ELSE b
Upper(a, b) == IF a >= b THEN a ELSE b

Inside(p, r) ==
    /\ r.x <= p[1] /\ p[1] < r.x + r.w
    /\ r.y <= p[2] /\ p[2] < r.y + r.h

Empty(r) == r.w = 0 \/ r.h = 0

\* The rectangle from corner (x1, y1) up to, not including, corner (x2, y2).
Span(x1, y1, x2, y2) == [x |-> x1, y |-> y1, w |-> Upper(x2 - x1, 0), h |-> Upper(y2 - y1, 0)]

Intersection(a, b) ==
    Span(Upper(a.x, b.x), Upper(a.y, b.y),
         Lower(a.x + a.w, b.x + b.w), Lower(a.y + a.h, b.y + b.h))

\* Mutant: the far corner is taken from the size alone.
UnionOfSizes(a, b) ==
    Span(Lower(a.x, b.x), Lower(a.y, b.y), Upper(a.x + a.w, b.w), Upper(a.y + a.h, b.h))

BoundingBoxUnion(a, b) ==
    Span(Lower(a.x, b.x), Lower(a.y, b.y),
         Upper(a.x + a.w, b.x + b.w), Upper(a.y + a.h, b.y + b.h))

\* The part of a rectangle that may be drawn.
Clamped(r) ==
    IF clip = NoRect THEN Intersection(r, FbRect) ELSE Intersection(Intersection(r, FbRect), clip)

ClipContains(p) == clip = NoRect \/ Inside(p, clip)

\* Mutant: a new rectangle replaces the old one.
MarkLastOnly(r) ==
    IF Empty(Clamped(r)) THEN dirty ELSE Clamped(r)

\* The new dirty rectangle.
MarkDirty(r) ==
    LET clamped == Clamped(r) IN
    IF Empty(clamped) THEN dirty
    ELSE IF dirty = NoRect THEN clamped ELSE BoundingBoxUnion(dirty, clamped)

-----------------------------------------------------------------------------
Init ==
    /\ buf \in {[p \in Pixels |-> black] : black \in Colors}
    /\ dirty = NoRect
    /\ clip = NoRect
    /\ panel = buf
    /\ lost = {}

SetClip(c) ==
    /\ clip' = c
    /\ UNCHANGED <<buf, dirty, panel, lost>>

\* Every point on the screen and within the clip is set; the box around them,
\* if there is one, is dirty.
DrawIter(points, image) ==
    LET visible == {p \in points \intersect Pixels : ClipContains(p)} IN
    /\ buf' = [p \in Pixels |-> IF p \in visible THEN image[p] ELSE buf[p]]
    /\ IF visible = {} THEN UNCHANGED dirty
       ELSE \E minp, maxp \in Pixels :
               /\ \A p \in visible : /\ minp[1] <= p[1] /\ p[1] <= maxp[1]
                                     /\ minp[2] <= p[2] /\ p[2] <= maxp[2]
               /\ \A i \in 1 .. 2 : \E p, q \in visible : p[i] = minp[i] /\ q[i] = maxp[i]
               /\ dirty' = MarkDirty(Span(minp[1], minp[2], maxp[1] + 1, maxp[2] + 1))
    /\ UNCHANGED <<clip, panel, lost>>

\* The colours come for the whole area; those off the screen or the clip are
\* skipped.  (draw_text, the caller, gives exactly one for every pixel.)
FillContiguous(area, image) ==
    /\ area.w # 0
    /\ dirty' = MarkDirty(area)
    /\ buf' = [p \in Pixels |->
                  IF Inside(p, area) /\ ClipContains(p) THEN image[p] ELSE buf[p]]
    /\ UNCHANGED <<clip, panel, lost>>

FillSolid(area, color) ==
    LET clipped == Clamped(area) IN
    /\ ~Empty(clipped)
    /\ dirty' = MarkDirty(clipped)
    /\ buf' = [p \in Pixels |-> IF Inside(p, clipped) THEN color ELSE buf[p]]
    /\ UNCHANGED <<clip, panel, lost>>

\* The pixels of the dirty rectangle reach the panel row by row.
Send(sent) ==
    /\ panel' = [p \in Pixels |-> IF p \in sent THEN buf[p] ELSE panel[p]]
    /\ dirty' = NoRect
    /\ UNCHANGED <<buf, clip>>

Region == {p \in Pixels : Inside(p, dirty)}

FlushSucceeds ==
    /\ dirty # NoRect
    /\ Send(Region)
    /\ lost' = lost \ Region

\* A DMA transfer fails on the way: the pixels before "next" have been sent.
\* The rectangle was taken before the transfer, so the rest counts as clean.
FlushFails(next) ==
    LET sent == {p \in Region : p[2] < next[2] \/ (p[2] = next[2] /\ p[1] < next[1])} IN
    /\ dirty # NoRect
    /\ Send(sent)
    /\ lost' = (lost \ Region) \union (Region \ sent)

-----------------------------------------------------------------------------
Draw ==
    \/ \E points \in SUBSET Points, image \in Images : DrawIter(points, image)
    \/ \E area \in Areas, image \in Images : FillContiguous(area, image)
    \/ \E area \in Areas, color \in Colors : FillSolid(area, color)

Next ==
    \/ \E c \in Clips \union {NoRect} : SetClip(c)
    \/ Draw
    \/ FlushSucceeds
    \/ \E next \in Pixels : FlushFails(next)

Spec == Init /\ [][Next]_vars

-----------------------------------------------------------------------------
\* The type invariant.  The dirty rectangle lies on the screen, so the flush
\* indexes the buffer within its bounds.
TypeOK ==
    /\ buf \in [Pixels -> Colors]
    /\ panel \in [Pixels -> Colors]
    /\ clip \in Clips \union {NoRect}
    /\ lost \subseteq Pixels
    /\ dirty \in Rects
    /\ dirty # NoRect =>
          /\ dirty.x >= 0 /\ dirty.x + dirty.w <= Width /\ dirty.w > 0
          /\ dirty.y >= 0 /\ dirty.y + dirty.h <= Height /\ dirty.h > 0

\* Drawing through any operation, under any clip, partly or wholly off the
\* screen, leaves no pixel changed that the next flush would not send.
DirtyCoversChanges ==
    \A p \in Pixels : buf[p] # panel[p] => Inside(p, dirty) \/ p \in lost

\* Pixels outside the clip are never drawn, by any of the three operations.
ClipConfines ==
    [][clip # NoRect => \A p \in Pixels : buf'[p] # buf[p] => Inside(p, clip)]_vars

\* The rectangles cannot be seen: with flushes of dirty rectangles only, the
\* panel is as if every flush sent the whole picture.
Abstract == INSTANCE Canvas WITH picture <- buf
ImplementsCanvas == Abstract!Spec
=============================================================================
