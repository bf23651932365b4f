-------------------------- MODULE TextRenderingProofs -------------------------
(***************************************************************************)
(* Proofs about FlashMap, for every table, page size and region: the pages *)
(* are mapped over free entries only, the scan finds a run if there is     *)
(* one, and the slice shows the bytes asked for.  And about TextRendering, *)
(* for every font, text and limit: the font is mapped in the program as it *)
(* is alone; the lines of word_wrap are the text, fit but for what is not  *)
(* broken, and are full; a line is drawn as it was measured but for what   *)
(* is cut to pixels, and the lines in view are drawn; the cache serves     *)
(* every glyph that is drawn, stays within its limit, and is the list of   *)
(* the glyphs used last that LruCache describes.                           *)
(***************************************************************************)
EXTENDS TextRendering, FiniteSetTheorems, SequenceTheorems, WellFoundedInduction, TLAPS

-----------------------------------------------------------------------------
(* Induction *)

\* A set of natural numbers that is not empty has a least one.
LEMMA LeastExists ==
    ASSUME NEW T, T \subseteq Nat, T # {}
    PROVE  \E x \in T : \A z \in T : x <= z
<1>1. \E x \in T : \A z \in T : ~(<<z, x>> \in OpToRel(<, Nat))
  BY NatLessThanWellFounded, WFMin, Zenon
<1>2. PICK x \in T : \A z \in T : ~(z < x)
  <2>1. ASSUME NEW x \in Nat, NEW z \in Nat, z < x
        PROVE  <<z, x>> \in OpToRel(<, Nat)
    BY <2>1, Zenon DEF OpToRel
  <2> QED
    BY <1>1, <2>1, Zenon
<1> QED
  BY <1>2

\* Induction over the natural numbers in a set.
LEMMA CountsUp ==
    ASSUME NEW T, 0 \in T, \A n \in Nat : n \in T => n + 1 \in T
    PROVE  Nat \subseteq T
<1> SUFFICES ASSUME Nat \ T # {} PROVE FALSE
  OBVIOUS
<1>1. PICK x \in Nat \ T : \A z \in Nat \ T : x <= z
  BY LeastExists
<1>2. x # 0 /\ x - 1 \in Nat /\ (x - 1) + 1 = x
  BY <1>1
<1>3. x - 1 \in T
  BY <1>1, <1>2
<1> QED
  BY <1>1, <1>2, <1>3

\* Induction over the sequences in a set.
LEMMA Grows ==
    ASSUME NEW S, NEW T, <<>> \in T,
           \A s \in Seq(S), e \in S : s \in T => Append(s, e) \in T
    PROVE  Seq(S) \subseteq T
<1> DEFINE N == {n \in Nat : \A s \in Seq(S) : Len(s) = n => s \in T}
<1>1. 0 \in N
  <2>1. \A s \in Seq(S) : Len(s) = 0 => s = <<>>
    BY EmptySeq
  <2> QED
    BY <2>1
<1>2. ASSUME NEW n \in Nat, n \in N PROVE n + 1 \in N
  <2> SUFFICES ASSUME NEW s \in Seq(S), Len(s) = n + 1 PROVE s \in T
    OBVIOUS
  <2>1. s # <<>>
    <3>1. Len(<<>>) = 0
      BY EmptySeq
    <3> QED
      BY <3>1
  <2>2. PICK u \in Seq(S), e \in S : s = Append(u, e)
    BY <2>1, SequenceEmptyOrAppend
  <2>3. Len(u) = n
    <3>1. Len(s) = Len(u) + 1 /\ Len(u) \in Nat
      BY <2>2, AppendProperties, LenProperties
    <3> QED
      BY <3>1
  <2> QED
    BY <1>2, <2>2, <2>3
<1>3. Nat \subseteq N
  <2> HIDE DEF N
  <2> QED
    BY <1>1, <1>2, CountsUp
<1> QED
  BY <1>3, LenProperties

\* Putting a sequence before one that grows.
LEMMA ConcatAppend ==
    ASSUME NEW S, NEW s \in Seq(S), NEW t \in Seq(S), NEW e \in S
    PROVE  s \o Append(t, e) = Append(s \o t, e)
<1>1. <<e>> \in Seq(S)
  OBVIOUS
<1>2. PICK x \in Seq(S) : x = <<e>>
  BY <1>1, Zenon
<1>3. s \o t \in Seq(S)
  BY ConcatProperties
<1>4. Append(t, e) = t \o x /\ Append(s \o t, e) = (s \o t) \o x
  BY <1>2, <1>3, AppendIsConcat, Zenon
<1>5. (s \o t) \o x = s \o (t \o x)
  BY SMT
<1> QED
  BY <1>4, <1>5, Zenon

\* The first part of a sequence.
LEMMA FirstPart ==
    ASSUME NEW S, NEW s \in Seq(S), NEW k \in 0 .. Len(s)
    PROVE  /\ SubSeq(s, 1, k) \in Seq(S) /\ Len(SubSeq(s, 1, k)) = k
           /\ \A n \in 1 .. k : SubSeq(s, 1, k)[n] = s[n]
           /\ SubSeq(s, k + 1, Len(s)) \in Seq(S)
           /\ SubSeq(s, 1, k) \o SubSeq(s, k + 1, Len(s)) = s
<1>1. PICK len \in Nat : len = Len(s)
  BY LenProperties
<1>2. \A n \in 1 .. len : s[n] \in S
  BY <1>1, ElementOfSeq
<1>3. SubSeq(s, 1, k) \in Seq(S) /\ Len(SubSeq(s, 1, k)) = k
      /\ \A n \in 1 .. k : SubSeq(s, 1, k)[n] = s[n]
  BY <1>1, <1>2, SubSeqProperties
<1>4. SubSeq(s, k + 1, len) \in Seq(S)
  BY <1>1, <1>2, SubSeqProperties
<1>5. SubSeq(s, 1, k) \o SubSeq(s, k + 1, len) = SubSeq(s, 1, len)
  <2>1. 1 \in 1 .. Len(s) + 1 /\ k \in 1 - 1 .. Len(s) /\ len \in k .. Len(s)
    BY <1>1
  <2> QED
    BY <2>1, ConcatAdjacentSubSeq, Zenon
<1>6. SubSeq(s, 1, len) = s
  BY <1>1, SubSeqFull
<1> QED
  BY <1>1, <1>3, <1>4, <1>5, <1>6, Zenon

LEMMA SameFirstPart ==
    ASSUME NEW S, NEW s \in Seq(S), NEW t \in Seq(S), NEW k \in Nat,
           k <= Len(s), k <= Len(t), \A n \in 1 .. k : s[n] = t[n]
    PROVE  SubSeq(s, 1, k) = SubSeq(t, 1, k)
<1>1. k \in 0 .. Len(s) /\ k \in 0 .. Len(t)
  BY LenProperties
<1>2. PICK a \in Seq(S) : a = SubSeq(s, 1, k) /\ Len(a) = k /\ \A n \in 1 .. k : a[n] = s[n]
  <2>1. /\ SubSeq(s, 1, k) \in Seq(S) /\ Len(SubSeq(s, 1, k)) = k
        /\ \A n \in 1 .. k : SubSeq(s, 1, k)[n] = s[n]
    BY <1>1, FirstPart, Zenon
  <2> QED
    BY <2>1, Zenon
<1>3. PICK b \in Seq(S) : b = SubSeq(t, 1, k) /\ Len(b) = k /\ \A n \in 1 .. k : b[n] = t[n]
  <2>1. /\ SubSeq(t, 1, k) \in Seq(S) /\ Len(SubSeq(t, 1, k)) = k
        /\ \A n \in 1 .. k : SubSeq(t, 1, k)[n] = t[n]
    BY <1>1, FirstPart, Zenon
  <2> QED
    BY <2>1, Zenon
<1>4. a = b
  BY <1>2, <1>3, SeqEqual
<1> QED
  BY <1>2, <1>3, <1>4

Associates(s, t, u) == (s \o t) \o u = s \o (t \o u)

LEMMA JoinsAssociate ==
    ASSUME NEW S, NEW s \in Seq(S), NEW t \in Seq(S), NEW u \in Seq(S)
    PROVE  Associates(s, t, u)
BY SMT DEF Associates

-----------------------------------------------------------------------------
(* The width of a text *)

Printable == Chars \union {Space}

LEMMA AdvanceIsNat == \A c \in Printable : CharAdvance(c) \in Nat
BY FontAssumption DEF Printable, CharAdvance

\* f[n] is the width of the first n characters of s.
IsWidth(f, s) ==
    /\ f \in [0 .. Len(s) -> Nat] /\ f[0] = 0
    /\ \A n \in 1 .. Len(s) : f[n] = f[n - 1] + CharAdvance(s[n])

\* The widths of a text with one more character.
LEMMA WidthGrows ==
    ASSUME NEW s \in Seq(Printable), NEW c \in Printable, NEW f, IsWidth(f, s),
           NEW g, g = [n \in 0 .. Len(s) + 1 |->
                          IF n <= Len(s) THEN f[n] ELSE f[Len(s)] + CharAdvance(c)]
    PROVE  IsWidth(g, Append(s, c))
<1>1. PICK len \in Nat : len = Len(s)
  BY LenProperties
<1>2. PICK t : t = Append(s, c)
  OBVIOUS
<1>3. Len(t) = len + 1 /\ t[len + 1] = c /\ \A n \in 1 .. len : t[n] = s[n]
  BY <1>1, <1>2, AppendProperties
<1>4. PICK a \in Nat : a = CharAdvance(c)
  BY AdvanceIsNat
<1>5. /\ f \in [0 .. len -> Nat] /\ f[0] = 0
      /\ \A n \in 1 .. len : f[n] = f[n - 1] + CharAdvance(s[n])
  BY <1>1 DEF IsWidth
<1>6. g = [n \in 0 .. len + 1 |-> IF n <= len THEN f[n] ELSE f[len] + a]
  BY <1>1, <1>4
<1>7. g \in [0 .. len + 1 -> Nat] /\ g[0] = 0
  BY <1>5, <1>6
<1>8. \A n \in 1 .. len + 1 : g[n] = g[n - 1] + CharAdvance(t[n])
  BY <1>3, <1>4, <1>5, <1>6
<1>9. IsWidth(g, t)
  BY <1>3, <1>7, <1>8 DEF IsWidth
<1> QED
  BY <1>2, <1>9

LEMMA WidthExists ==
    ASSUME NEW s \in Seq(Printable)
    PROVE  \E f : IsWidth(f, s)
<1> DEFINE T == {t \in Seq(Printable) : \E f : IsWidth(f, t)}
<1>1. <<>> \in T
  <2>1. Len(<<>>) = 0 /\ <<>> \in Seq(Printable)
    BY EmptySeq
  <2>2. IsWidth([n \in 0 .. 0 |-> 0], <<>>)
    BY <2>1 DEF IsWidth
  <2> QED
    BY <2>1, <2>2
<1>2. ASSUME NEW t \in Seq(Printable), NEW c \in Printable, t \in T
      PROVE  Append(t, c) \in T
  <2>1. PICK f : IsWidth(f, t)
    BY <1>2
  <2>2. \E g : IsWidth(g, Append(t, c))
    BY <2>1, WidthGrows
  <2>3. Append(t, c) \in Seq(Printable)
    BY AppendProperties
  <2> QED
    BY <2>2, <2>3
<1>3. Seq(Printable) \subseteq T
  <2> HIDE DEF T
  <2> QED
    BY <1>1, <1>2, Grows
<1> QED
  BY <1>3

\* There is only one such function.
LEMMA WidthIsOne ==
    ASSUME NEW s \in Seq(Printable), NEW f, NEW g, IsWidth(f, s), IsWidth(g, s)
    PROVE  f = g
<1>1. PICK len \in Nat : len = Len(s)
  BY LenProperties
<1> DEFINE T == {n \in Nat : n <= len => f[n] = g[n]}
<1>2. 0 \in T
  BY DEF IsWidth
<1>3. ASSUME NEW n \in Nat, n \in T PROVE n + 1 \in T
  BY <1>1, <1>3 DEF IsWidth
<1>4. Nat \subseteq T
  <2> HIDE DEF T
  <2> QED
    BY <1>2, <1>3, CountsUp
<1>5. \A n \in 0 .. len : f[n] = g[n]
  BY <1>4
<1> QED
  BY <1>1, <1>5 DEF IsWidth

LEMMA WidthIs ==
    ASSUME NEW s \in Seq(Printable), NEW f, IsWidth(f, s)
    PROVE  TextWidth(s) = f[Len(s)] /\ TextWidth(s) \in Nat
<1>1. PICK len \in Nat : len = Len(s)
  BY LenProperties
<1> DEFINE Is(g) == g = [n \in 0 .. Len(s) |-> IF n = 0 THEN 0 ELSE g[n - 1] + CharAdvance(s[n])]
<1>2. Is(f)
  BY <1>1 DEF IsWidth
<1>3. PICK w : w = CHOOSE g : Is(g)
  OBVIOUS
<1>4. Is(w)
  BY <1>2, <1>3, Zenon
<1>5. TextWidth(s) = w[Len(s)]
  BY <1>3 DEF TextWidth
<1>6. \A n \in 0 .. len : w[n] = f[n]
  <2> DEFINE T == {n \in Nat : n <= len => w[n] = f[n]}
  <2>1. 0 \in T
    BY <1>1, <1>4 DEF IsWidth
  <2>2. ASSUME NEW n \in Nat, n \in T PROVE n + 1 \in T
    <3> SUFFICES ASSUME n + 1 <= len PROVE w[n + 1] = f[n + 1]
      OBVIOUS
    <3>1. w[n + 1] = w[n] + CharAdvance(s[n + 1])
      BY <1>1, <1>4
    <3>2. f[n + 1] = f[n] + CharAdvance(s[n + 1])
      BY <1>1 DEF IsWidth
    <3> QED
      BY <2>2, <3>1, <3>2
  <2>3. Nat \subseteq T
    <3> HIDE DEF T
    <3> QED
      BY <2>1, <2>2, CountsUp
  <2> QED
    BY <2>3
<1> QED
  BY <1>1, <1>5, <1>6 DEF IsWidth

LEMMA WidthOfEmpty == TextWidth(<<>>) = 0
<1>1. Len(<<>>) = 0 /\ <<>> \in Seq(Printable)
  BY EmptySeq
<1>2. PICK f : IsWidth(f, <<>>)
  BY <1>1, WidthExists
<1> QED
  BY <1>1, <1>2, WidthIs DEF IsWidth

LEMMA WidthOfAppend ==
    ASSUME NEW s \in Seq(Printable), NEW c \in Printable
    PROVE  TextWidth(Append(s, c)) = TextWidth(s) + CharAdvance(c)
<1>1. PICK len \in Nat : len = Len(s)
  BY LenProperties
<1>2. PICK t \in Seq(Printable) : t = Append(s, c) /\ Len(t) = len + 1
  BY <1>1, AppendProperties
<1>3. PICK f : IsWidth(f, s)
  BY WidthExists
<1>4. PICK g : g = [n \in 0 .. Len(s) + 1 |->
                       IF n <= Len(s) THEN f[n] ELSE f[Len(s)] + CharAdvance(c)]
  OBVIOUS
<1>5. IsWidth(g, t)
  BY <1>2, <1>3, <1>4, WidthGrows, Zenon
<1>6. TextWidth(t) = g[len + 1] /\ TextWidth(s) = f[len]
  BY <1>1, <1>2, <1>3, <1>5, WidthIs
<1> QED
  BY <1>1, <1>2, <1>4, <1>6

LEMMA WidthIsNat ==
    ASSUME NEW s \in Seq(Printable)
    PROVE  TextWidth(s) \in Nat
BY WidthExists, WidthIs

LEMMA WidthOfConcat ==
    ASSUME NEW s \in Seq(Printable), NEW t \in Seq(Printable)
    PROVE  TextWidth(s \o t) = TextWidth(s) + TextWidth(t)
<1> DEFINE T == {u \in Seq(Printable) : TextWidth(s \o u) = TextWidth(s) + TextWidth(u)}
<1>1. <<>> \in T
  <2>1. s \o <<>> = s /\ <<>> \in Seq(Printable)
    BY ConcatEmptySeq, EmptySeq
  <2> QED
    BY <2>1, WidthOfEmpty, WidthIsNat
<1>2. ASSUME NEW u \in Seq(Printable), NEW c \in Printable, u \in T
      PROVE  Append(u, c) \in T
  <2>1. s \o u \in Seq(Printable) /\ Append(u, c) \in Seq(Printable)
    BY ConcatProperties, AppendProperties
  <2>2. s \o Append(u, c) = Append(s \o u, c)
    BY ConcatAppend
  <2>3. TextWidth(Append(s \o u, c)) = TextWidth(s \o u) + CharAdvance(c)
    BY <2>1, WidthOfAppend
  <2>4. TextWidth(Append(u, c)) = TextWidth(u) + CharAdvance(c)
    BY WidthOfAppend
  <2>5. TextWidth(s \o u) = TextWidth(s) + TextWidth(u)
    BY <1>2
  <2>6. TextWidth(s) \in Nat /\ TextWidth(u) \in Nat /\ CharAdvance(c) \in Nat
    BY WidthIsNat, AdvanceIsNat
  <2>7. TextWidth(s \o Append(u, c)) = TextWidth(s) + TextWidth(Append(u, c))
    BY <2>2, <2>3, <2>4, <2>5, <2>6
  <2> QED
    BY <2>1, <2>7
<1>3. Seq(Printable) \subseteq T
  <2> HIDE DEF T
  <2> QED
    BY <1>1, <1>2, Grows
<1> QED
  BY <1>3

-----------------------------------------------------------------------------
(* The letters of a text *)

\* What is kept of s with one more character c, if k is kept of s.
Kept(k, c) == IF c = Space THEN k ELSE Append(k, c)

\* f[n] is what is kept of the first n characters of s.
IsKept(f, s) ==
    /\ f \in [0 .. Len(s) -> Seq(Chars)] /\ f[0] = <<>>
    /\ \A n \in 1 .. Len(s) : f[n] = Kept(f[n - 1], s[n])

LEMMA KeptIsText ==
    ASSUME NEW k \in Seq(Chars), NEW c \in Printable
    PROVE  Kept(k, c) \in Seq(Chars)
<1>1. CASE c = Space
  BY <1>1 DEF Kept
<1>2. CASE c # Space
  BY <1>2, AppendProperties DEF Kept, Printable
<1> QED
  BY <1>1, <1>2

LEMMA KeptGrows ==
    ASSUME NEW s \in Seq(Printable), NEW c \in Printable, NEW f, IsKept(f, s),
           NEW g, g = [n \in 0 .. Len(s) + 1 |->
                          IF n <= Len(s) THEN f[n] ELSE Kept(f[Len(s)], c)]
    PROVE  IsKept(g, Append(s, c))
<1>1. PICK len \in Nat : len = Len(s)
  BY LenProperties
<1>2. PICK t : t = Append(s, c)
  OBVIOUS
<1>3. Len(t) = len + 1 /\ t[len + 1] = c /\ \A n \in 1 .. len : t[n] = s[n]
  BY <1>1, <1>2, AppendProperties
<1>4. /\ f \in [0 .. len -> Seq(Chars)] /\ f[0] = <<>>
      /\ \A n \in 1 .. len : f[n] = Kept(f[n - 1], s[n])
  BY <1>1 DEF IsKept
<1>5. PICK k \in Seq(Chars) : k = Kept(f[len], c)
  <2>1. f[len] \in Seq(Chars)
    BY <1>4
  <2> QED
    BY <2>1, KeptIsText
<1>6. g = [n \in 0 .. len + 1 |-> IF n <= len THEN f[n] ELSE k]
  BY <1>1, <1>5
<1>7. g \in [0 .. len + 1 -> Seq(Chars)] /\ g[0] = <<>>
  <2>1. \A n \in 0 .. len + 1 : g[n] \in Seq(Chars)
    BY <1>4, <1>6
  <2>2. g[0] = f[0]
    BY <1>6
  <2> QED
    BY <1>4, <1>6, <2>1, <2>2, Zenon
<1>8. \A n \in 1 .. len + 1 : g[n] = Kept(g[n - 1], t[n])
  BY <1>3, <1>4, <1>5, <1>6
<1>9. IsKept(g, t)
  BY <1>3, <1>7, <1>8 DEF IsKept
<1> QED
  BY <1>2, <1>9

LEMMA KeptExists ==
    ASSUME NEW s \in Seq(Printable)
    PROVE  \E f : IsKept(f, s)
<1> DEFINE T == {t \in Seq(Printable) : \E f : IsKept(f, t)}
<1>1. <<>> \in T
  <2>1. Len(<<>>) = 0 /\ <<>> \in Seq(Printable) /\ <<>> \in Seq(Chars)
    BY EmptySeq
  <2>2. IsKept([n \in 0 .. 0 |-> <<>>], <<>>)
    BY <2>1 DEF IsKept
  <2> QED
    BY <2>1, <2>2
<1>2. ASSUME NEW t \in Seq(Printable), NEW c \in Printable, t \in T
      PROVE  Append(t, c) \in T
  <2>1. PICK f : IsKept(f, t)
    BY <1>2
  <2>2. \E g : IsKept(g, Append(t, c))
    BY <2>1, KeptGrows
  <2>3. Append(t, c) \in Seq(Printable)
    BY AppendProperties
  <2> QED
    BY <2>2, <2>3
<1>3. Seq(Printable) \subseteq T
  <2> HIDE DEF T
  <2> QED
    BY <1>1, <1>2, Grows
<1> QED
  BY <1>3

LEMMA LettersAre ==
    ASSUME NEW s \in Seq(Printable), NEW f, IsKept(f, s)
    PROVE  Letters(s) = f[Len(s)] /\ Letters(s) \in Seq(Chars)
<1>1. PICK len \in Nat : len = Len(s)
  BY LenProperties
<1> DEFINE Is(g) == g = [n \in 0 .. Len(s) |->
                            IF n = 0 THEN <<>>
                            ELSE IF s[n] = Space THEN g[n - 1] ELSE Append(g[n - 1], s[n])]
<1>2. Is(f)
  <2>1. f = [n \in 0 .. Len(s) |-> f[n]]
    BY DEF IsKept
  <2>2. \A n \in 0 .. Len(s) :
           f[n] = IF n = 0 THEN <<>>
                  ELSE IF s[n] = Space THEN f[n - 1] ELSE Append(f[n - 1], s[n])
    <3> TAKE n \in 0 .. Len(s)
    <3>1. CASE n = 0
      BY <3>1, Zenon DEF IsKept
    <3>2. CASE n # 0
      <4>1. n \in 1 .. Len(s)
        BY <1>1, <3>2
      <4>2. f[n] = Kept(f[n - 1], s[n])
        BY <4>1, Zenon DEF IsKept
      <4> QED
        BY <3>2, <4>2, Zenon DEF Kept
    <3> QED
      BY <3>1, <3>2
  <2> QED
    BY <2>1, <2>2, Zenon
<1>3. PICK w : w = CHOOSE g : Is(g)
  OBVIOUS
<1>4. Is(w)
  BY <1>2, <1>3, Zenon
<1>5. Letters(s) = w[Len(s)]
  BY <1>3 DEF Letters
<1>6. \A n \in 0 .. len : w[n] = f[n]
  <2> DEFINE T == {n \in Nat : n <= len => w[n] = f[n]}
  <2>1. 0 \in T
    BY <1>1, <1>4 DEF IsKept
  <2>2. ASSUME NEW n \in Nat, n \in T PROVE n + 1 \in T
    <3> SUFFICES ASSUME n + 1 <= len PROVE w[n + 1] = f[n + 1]
      OBVIOUS
    <3>1. n + 1 \in 0 .. Len(s) /\ n + 1 # 0 /\ (n + 1) - 1 = n
      BY <1>1
    <3>2. w[n + 1] = Kept(w[n], s[n + 1])
      <4>1. w[n + 1] = IF n + 1 = 0 THEN <<>>
                       ELSE IF s[n + 1] = Space THEN w[(n + 1) - 1]
                       ELSE Append(w[(n + 1) - 1], s[n + 1])
        BY <1>4, <3>1, Zenon
      <4> QED
        BY <3>1, <4>1, Zenon DEF Kept
    <3>3. f[n + 1] = Kept(f[n], s[n + 1])
      BY <1>1 DEF IsKept
    <3> QED
      BY <2>2, <3>2, <3>3
  <2>3. Nat \subseteq T
    <3> HIDE DEF T
    <3> QED
      BY <2>1, <2>2, CountsUp
  <2> QED
    BY <2>3
<1> QED
  BY <1>1, <1>5, <1>6 DEF IsKept

LEMMA LettersOfEmpty == Letters(<<>>) = <<>>
<1>1. Len(<<>>) = 0 /\ <<>> \in Seq(Printable)
  BY EmptySeq
<1>2. PICK f : IsKept(f, <<>>)
  BY <1>1, KeptExists
<1> QED
  BY <1>1, <1>2, LettersAre DEF IsKept

LEMMA LettersOfAppend ==
    ASSUME NEW s \in Seq(Printable), NEW c \in Printable
    PROVE  Letters(Append(s, c)) = Kept(Letters(s), c)
<1>1. PICK len \in Nat : len = Len(s)
  BY LenProperties
<1>2. PICK t \in Seq(Printable) : t = Append(s, c) /\ Len(t) = len + 1
  BY <1>1, AppendProperties
<1>3. PICK f : IsKept(f, s)
  BY KeptExists
<1>4. PICK g : g = [n \in 0 .. Len(s) + 1 |->
                       IF n <= Len(s) THEN f[n] ELSE Kept(f[Len(s)], c)]
  OBVIOUS
<1>5. IsKept(g, t)
  BY <1>2, <1>3, <1>4, KeptGrows, Zenon
<1>6. Letters(t) = g[len + 1] /\ Letters(s) = f[len]
  BY <1>1, <1>2, <1>3, <1>5, LettersAre
<1> QED
  BY <1>1, <1>2, <1>4, <1>6

LEMMA LettersIsText ==
    ASSUME NEW s \in Seq(Printable)
    PROVE  Letters(s) \in Seq(Chars)
BY KeptExists, LettersAre

LEMMA LettersOfConcat ==
    ASSUME NEW s \in Seq(Printable), NEW t \in Seq(Printable)
    PROVE  Letters(s \o t) = Letters(s) \o Letters(t)
<1> DEFINE T == {u \in Seq(Printable) : Letters(s \o u) = Letters(s) \o Letters(u)}
<1>1. Letters(s) \in Seq(Chars)
  BY LettersIsText
<1>2. <<>> \in T
  <2>1. s \o <<>> = s /\ <<>> \in Seq(Printable)
    BY ConcatEmptySeq, EmptySeq
  <2>2. Letters(s) \o <<>> = Letters(s)
    BY <1>1, ConcatEmptySeq
  <2> QED
    BY <2>1, <2>2, LettersOfEmpty
<1>3. ASSUME NEW u \in Seq(Printable), NEW c \in Printable, u \in T
      PROVE  Append(u, c) \in T
  <2>1. s \o u \in Seq(Printable) /\ Append(u, c) \in Seq(Printable)
    BY ConcatProperties, AppendProperties
  <2>2. s \o Append(u, c) = Append(s \o u, c)
    BY ConcatAppend
  <2>3. Letters(Append(s \o u, c)) = Kept(Letters(s \o u), c)
    BY <2>1, LettersOfAppend
  <2>4. Letters(Append(u, c)) = Kept(Letters(u), c)
    BY LettersOfAppend
  <2>5. Letters(s \o u) = Letters(s) \o Letters(u) /\ Letters(u) \in Seq(Chars)
    BY <1>3, LettersIsText
  <2>6. Kept(Letters(s) \o Letters(u), c) = Letters(s) \o Kept(Letters(u), c)
    <3>1. CASE c = Space
      BY <3>1 DEF Kept
    <3>2. CASE c # Space
      <4>1. c \in Chars
        BY <3>2 DEF Printable
      <4>2. PICK a \in Seq(Chars), b \in Seq(Chars) : a = Letters(s) /\ b = Letters(u)
        BY <1>1, <2>5
      <4>3. a \o Append(b, c) = Append(a \o b, c)
        BY <4>1, ConcatAppend
      <4>4. Letters(s) \o Append(Letters(u), c) = Append(Letters(s) \o Letters(u), c)
        BY <4>2, <4>3, Zenon
      <4> QED
        BY <3>2, <4>4 DEF Kept
    <3> QED
      BY <3>1, <3>2
  <2>7. Letters(s \o Append(u, c)) = Letters(s) \o Letters(Append(u, c))
    BY <2>2, <2>3, <2>4, <2>5, <2>6
  <2> QED
    BY <2>1, <2>7
<1>4. Seq(Printable) \subseteq T
  <2> HIDE DEF T
  <2> QED
    BY <1>2, <1>3, Grows
<1> QED
  BY <1>4

\* A word is all letters.
LEMMA LettersOfWord ==
    ASSUME NEW s \in Seq(Chars)
    PROVE  Letters(s) = s /\ s \in Seq(Printable)
<1> DEFINE T == {u \in Seq(Chars) : Letters(u) = u}
<1>1. <<>> \in T
  BY EmptySeq, LettersOfEmpty
<1>2. ASSUME NEW u \in Seq(Chars), NEW c \in Chars, u \in T
      PROVE  Append(u, c) \in T
  <2>1. u \in Seq(Printable) /\ c \in Printable /\ c # Space
    BY FontAssumption, SeqMonotonic DEF Printable
  <2>2. Letters(Append(u, c)) = Append(Letters(u), c)
    BY <2>1, LettersOfAppend DEF Kept
  <2> QED
    BY <1>2, <2>2, AppendProperties
<1>3. Seq(Chars) \subseteq T
  <2> HIDE DEF T
  <2> QED
    BY <1>1, <1>2, Grows
<1> QED
  BY <1>3, SeqMonotonic DEF Printable

-----------------------------------------------------------------------------
(* Lines and words one after the other *)

\* f[n] is the first n sequences of ss, one after the other.
IsFlat(f, ss, S) ==
    /\ f \in [1 .. Len(ss) -> Seq(S)]
    /\ Len(ss) > 0 => f[1] = ss[1]
    /\ \A n \in 2 .. Len(ss) : f[n] = f[n - 1] \o ss[n]

LEMMA FlatGrows ==
    ASSUME NEW S, NEW ss \in Seq(Seq(S)), NEW t \in Seq(S), NEW f, IsFlat(f, ss, S),
           NEW g, g = [n \in 1 .. Len(ss) + 1 |->
                          IF n <= Len(ss) THEN f[n]
                          ELSE IF n = 1 THEN t ELSE f[Len(ss)] \o t]
    PROVE  IsFlat(g, Append(ss, t), S)
<1>1. PICK len \in Nat : len = Len(ss)
  BY LenProperties
<1>2. PICK tt : tt = Append(ss, t)
  OBVIOUS
<1>3. Len(tt) = len + 1 /\ tt[len + 1] = t /\ \A n \in 1 .. len : tt[n] = ss[n]
  BY <1>1, <1>2, AppendProperties
<1>4. /\ f \in [1 .. len -> Seq(S)] /\ (len > 0 => f[1] = ss[1])
      /\ \A n \in 2 .. len : f[n] = f[n - 1] \o ss[n]
  BY <1>1 DEF IsFlat
<1>5. len > 0 => f[len] \o t \in Seq(S)
  BY <1>4, ConcatProperties
<1>6. PICK e : e = f[len] \o t
  OBVIOUS
<1>7. g = [n \in 1 .. len + 1 |-> IF n <= len THEN f[n] ELSE IF n = 1 THEN t ELSE e]
  BY <1>1, <1>6
<1>8. g \in [1 .. len + 1 -> Seq(S)] /\ g[1] = tt[1]
  BY <1>3, <1>4, <1>5, <1>6, <1>7
<1>9. \A n \in 2 .. len + 1 : g[n] = g[n - 1] \o tt[n]
  <2> TAKE n \in 2 .. len + 1
  <2>1. CASE n <= len
    <3>1. n \in 2 .. len /\ n - 1 \in 1 .. len + 1 /\ n - 1 <= len /\ n \in 1 .. len
      BY <2>1
    <3>2. g[n] = f[n] /\ g[n - 1] = f[n - 1] /\ tt[n] = ss[n]
      BY <1>3, <1>7, <3>1
    <3> QED
      BY <1>4, <3>1, <3>2
  <2>2. CASE n = len + 1
    <3>1. n - 1 = len /\ len \in 1 .. len + 1 /\ n \in 1 .. len + 1 /\ n # 1 /\ ~(n <= len)
      BY <2>2
    <3>2. g[n] = e /\ g[len] = f[len]
      BY <1>7, <3>1
    <3> QED
      BY <1>3, <1>6, <2>2, <3>1, <3>2
  <2>3. n <= len \/ n = len + 1
    OBVIOUS
  <2> QED
    BY <2>1, <2>2, <2>3, Zenon
<1>10. IsFlat(g, tt, S)
  BY <1>3, <1>8, <1>9 DEF IsFlat
<1> QED
  BY <1>2, <1>10

LEMMA FlatExists ==
    ASSUME NEW S, NEW ss \in Seq(Seq(S))
    PROVE  \E f : IsFlat(f, ss, S)
<1> DEFINE T == {tt \in Seq(Seq(S)) : \E f : IsFlat(f, tt, S)}
<1>1. <<>> \in T
  <2>1. Len(<<>>) = 0 /\ <<>> \in Seq(Seq(S))
    BY EmptySeq
  <2>2. IsFlat([n \in 1 .. 0 |-> <<>>], <<>>, S)
    BY <2>1 DEF IsFlat
  <2>3. \E f : IsFlat(f, <<>>, S)
    BY <2>2, Zenon
  <2> QED
    BY <2>1, <2>3, Zenon
<1>2. ASSUME NEW tt \in Seq(Seq(S)), NEW t \in Seq(S), tt \in T
      PROVE  Append(tt, t) \in T
  <2>1. PICK f : IsFlat(f, tt, S)
    BY <1>2
  <2>2. \E g : IsFlat(g, Append(tt, t), S)
    BY <2>1, FlatGrows
  <2>3. Append(tt, t) \in Seq(Seq(S))
    BY AppendProperties
  <2> QED
    BY <2>2, <2>3
<1>3. Seq(Seq(S)) \subseteq T
  <2> HIDE DEF T
  <2> QED
    BY <1>1, <1>2, Grows
<1> QED
  BY <1>3

LEMMA FlattenIs ==
    ASSUME NEW S, NEW ss \in Seq(Seq(S)), Len(ss) > 0, NEW f, IsFlat(f, ss, S)
    PROVE  FlattenSeq(ss) = f[Len(ss)] /\ FlattenSeq(ss) \in Seq(S)
<1>1. PICK len \in Nat \ {0} : len = Len(ss)
  BY LenProperties
<1> DEFINE Is(g) == g = [n \in 1 .. Len(ss) |-> IF n = 1 THEN ss[n] ELSE g[n - 1] \o ss[n]]
<1>2. Is(f)
  <2>1. f = [n \in 1 .. Len(ss) |-> f[n]]
    BY DEF IsFlat
  <2>2. \A n \in 1 .. Len(ss) : f[n] = IF n = 1 THEN ss[n] ELSE f[n - 1] \o ss[n]
    <3> TAKE n \in 1 .. Len(ss)
    <3>1. CASE n = 1
      BY <1>1, <3>1 DEF IsFlat
    <3>2. CASE n # 1
      <4>1. n \in 2 .. Len(ss)
        BY <1>1, <3>2
      <4> QED
        BY <3>2, <4>1, Zenon DEF IsFlat
    <3> QED
      BY <3>1, <3>2
  <2> QED
    BY <2>1, <2>2, Zenon
<1>3. PICK w : w = CHOOSE g : Is(g)
  OBVIOUS
<1>4. Is(w)
  BY <1>2, <1>3, Zenon
<1>5. FlattenSeq(ss) = w[Len(ss)]
  <2>1. Len(ss) # 0
    BY <1>1
  <2> QED
    BY <1>3, <2>1, Zenon DEF FlattenSeq
<1>6. \A n \in 1 .. len : w[n] = f[n]
  <2> DEFINE T == {n \in Nat : n + 1 <= len => w[n + 1] = f[n + 1]}
  <2>1. 0 \in T
    BY <1>1, <1>4 DEF IsFlat
  <2>2. ASSUME NEW n \in Nat, n \in T PROVE n + 1 \in T
    <3> SUFFICES ASSUME (n + 1) + 1 <= len PROVE w[(n + 1) + 1] = f[(n + 1) + 1]
      OBVIOUS
    <3>1. PICK m \in 2 .. Len(ss) : m = (n + 1) + 1 /\ m - 1 = n + 1
      BY <1>1
    <3>2. m \in 1 .. Len(ss) /\ m # 1
      BY <1>1, <3>1
    <3>3. w[m] = w[m - 1] \o ss[m]
      BY <1>4, <3>2, Zenon
    <3>4. f[m] = f[m - 1] \o ss[m]
      BY Zenon DEF IsFlat
    <3>5. w[n + 1] = f[n + 1]
      BY <2>2
    <3> QED
      BY <3>1, <3>3, <3>4, <3>5, Zenon
  <2>3. Nat \subseteq T
    <3> HIDE DEF T
    <3> QED
      BY <2>1, <2>2, CountsUp
  <2>4. ASSUME NEW n \in 1 .. len PROVE w[n] = f[n]
    <3>1. n - 1 \in Nat /\ (n - 1) + 1 = n /\ n <= len
      OBVIOUS
    <3>2. n - 1 \in T
      BY <2>3, <3>1, Zenon
    <3> QED
      BY <3>1, <3>2, Zenon
  <2> QED
    BY <2>4
<1> QED
  BY <1>1, <1>5, <1>6 DEF IsFlat

LEMMA FlattenOfEmpty == FlattenSeq(<<>>) = <<>>
<1>1. Len(<<>>) = 0
  BY EmptySeq
<1> QED
  BY <1>1 DEF FlattenSeq

LEMMA FlattenIsText ==
    ASSUME NEW S, NEW ss \in Seq(Seq(S))
    PROVE  FlattenSeq(ss) \in Seq(S)
<1>1. CASE ss = <<>>
  BY <1>1, FlattenOfEmpty, EmptySeq
<1>2. CASE ss # <<>>
  <2>1. Len(ss) > 0
    BY <1>2, EmptySeq
  <2> QED
    BY <2>1, FlatExists, FlattenIs
<1> QED
  BY <1>1, <1>2

LEMMA FlattenOfAppend ==
    ASSUME NEW S, NEW ss \in Seq(Seq(S)), NEW t \in Seq(S)
    PROVE  FlattenSeq(Append(ss, t)) = FlattenSeq(ss) \o t
<1>1. PICK len \in Nat : len = Len(ss)
  BY LenProperties
<1>2. PICK tt \in Seq(Seq(S)) : tt = Append(ss, t) /\ Len(tt) = len + 1
  BY <1>1, AppendProperties
<1>3. PICK f : IsFlat(f, ss, S)
  BY FlatExists
<1>4. PICK g : g = [n \in 1 .. Len(ss) + 1 |->
                       IF n <= Len(ss) THEN f[n]
                       ELSE IF n = 1 THEN t ELSE f[Len(ss)] \o t]
  OBVIOUS
<1>5. IsFlat(g, tt, S)
  BY <1>2, <1>3, <1>4, FlatGrows, Zenon
<1>6. FlattenSeq(tt) = g[len + 1]
  <2>1. Len(tt) > 0
    BY <1>2
  <2> QED
    BY <1>2, <1>5, <2>1, FlattenIs, Zenon
<1>7. CASE len = 0
  <2>1. ss = <<>>
    BY <1>1, <1>7, EmptySeq
  <2>2. g[1] = t
    <3>1. Len(ss) = 0 /\ 1 \in 1 .. Len(ss) + 1
      BY <1>1, <1>7
    <3>2. ~(1 <= Len(ss))
      BY <3>1
    <3> QED
      BY <1>4, <3>1, <3>2
  <2>3. g[len + 1] = t
    BY <1>7, <2>2
  <2>4. <<>> \o t = t
    BY ConcatEmptySeq
  <2> QED
    BY <1>2, <1>6, <2>1, <2>4, <2>3, FlattenOfEmpty
<1>8. CASE len > 0
  <2>1. FlattenSeq(ss) = f[len]
    BY <1>1, <1>3, <1>8, FlattenIs
  <2>2. g[len + 1] = f[len] \o t
    BY <1>1, <1>4, <1>8
  <2> QED
    BY <1>2, <1>6, <2>1, <2>2
<1> QED
  BY <1>7, <1>8

LEMMA FlattenOfTail ==
    ASSUME NEW S, NEW ss \in Seq(Seq(S)), ss # <<>>
    PROVE  FlattenSeq(ss) = Head(ss) \o FlattenSeq(Tail(ss))
<1> DEFINE T == {tt \in Seq(Seq(S)) :
                    tt # <<>> => FlattenSeq(tt) = Head(tt) \o FlattenSeq(Tail(tt))}
<1>1. <<>> \in T
  BY EmptySeq
<1>2. ASSUME NEW tt \in Seq(Seq(S)), NEW t \in Seq(S), tt \in T
      PROVE  Append(tt, t) \in T
  <2>1. PICK new \in Seq(Seq(S)) : new = Append(tt, t)
    BY AppendProperties
  <2>2. FlattenSeq(new) = FlattenSeq(tt) \o t
    BY <2>1, FlattenOfAppend
  <2>3. CASE tt = <<>>
    <3>1. Head(new) = t /\ Tail(new) = <<>>
      BY <2>1, <2>3, HeadTailAppend
    <3>2. <<>> \o t = t /\ t \o <<>> = t
      BY ConcatEmptySeq
    <3> QED
      BY <2>1, <2>2, <2>3, <3>1, <3>2, FlattenOfEmpty
  <2>4. CASE tt # <<>>
    <3>1. Head(new) = Head(tt) /\ Tail(new) = Append(Tail(tt), t)
      BY <2>1, <2>4, HeadTailAppend
    <3>2. Head(tt) \in Seq(S) /\ Tail(tt) \in Seq(Seq(S))
      BY <2>4, HeadTailProperties
    <3>3. FlattenSeq(Tail(new)) = FlattenSeq(Tail(tt)) \o t /\ FlattenSeq(Tail(tt)) \in Seq(S)
      BY <3>1, <3>2, FlattenOfAppend, FlattenIsText
    <3>4. FlattenSeq(tt) = Head(tt) \o FlattenSeq(Tail(tt))
      BY <1>2, <2>4
    <3>5. PICK h \in Seq(S) : h = Head(tt)
      BY <3>2
    <3>6. PICK r \in Seq(S) : r = FlattenSeq(Tail(tt))
      BY <3>3
    <3>7. (h \o r) \o t = h \o (r \o t)
      BY SMT
    <3>8. FlattenSeq(new) = Head(new) \o FlattenSeq(Tail(new))
      BY <2>2, <3>1, <3>3, <3>4, <3>5, <3>6, <3>7, Zenon
    <3> QED
      BY <2>1, <3>8
  <2> QED
    BY <2>3, <2>4
<1>3. Seq(Seq(S)) \subseteq T
  <2> HIDE DEF T
  <2> QED
    BY <1>1, <1>2, Grows
<1> QED
  BY <1>3

-----------------------------------------------------------------------------
(* The first word of a line *)

NoSpace(s) == \A n \in 1 .. Len(s) : s[n] # Space

FirstSpaceAt(s, k) ==
    /\ k \in 1 .. Len(s) /\ s[k] = Space
    /\ \A n \in 1 .. k - 1 : s[n] # Space

LEMMA UpToSpaceIs ==
    ASSUME NEW s \in Seq(Printable)
    PROVE  /\ NoSpace(s) => UpToSpace(s) = 0
           /\ ~NoSpace(s) => FirstSpaceAt(s, UpToSpace(s))
<1>1. PICK len \in Nat : len = Len(s)
  BY LenProperties
<1> DEFINE spaces == {n \in 1 .. Len(s) : s[n] = Space}
<1>2. UpToSpace(s) = IF spaces # {} THEN Min(spaces) ELSE 0
  BY DEF UpToSpace, SelectInSeq
<1>3. CASE NoSpace(s)
  <2>1. spaces = {}
    BY <1>3 DEF NoSpace
  <2> QED
    BY <1>2, <1>3, <2>1
<1>4. CASE ~NoSpace(s)
  <2>1. spaces # {} /\ spaces \subseteq Nat
    BY <1>1, <1>4 DEF NoSpace
  <2>2. \E x \in spaces : \A z \in spaces : x <= z
    <3> HIDE DEF spaces
    <3> QED
      BY <2>1, LeastExists
  <2>3. Min(spaces) \in spaces /\ \A z \in spaces : Min(spaces) <= z
    <3> HIDE DEF spaces
    <3> QED
      BY <2>2 DEF Min
  <2>4. PICK k \in spaces : k = Min(spaces) /\ \A z \in spaces : k <= z
    BY <2>3
  <2>5. k \in 1 .. len /\ s[k] = Space
    BY <1>1, <2>4
  <2>6. ASSUME NEW n \in 1 .. k - 1, s[n] = Space
        PROVE  FALSE
    <3>1. n \in 1 .. len /\ ~(k <= n)
      BY <2>5
    <3>2. n \in spaces
      BY <1>1, <2>6, <3>1, Zenon
    <3> QED
      BY <2>4, <3>1, <3>2, Zenon
  <2>7. FirstSpaceAt(s, k)
    BY <1>1, <2>5, <2>6, Zenon DEF FirstSpaceAt
  <2> QED
    BY <1>2, <1>4, <2>1, <2>4, <2>7, Zenon
<1> QED
  BY <1>3, <1>4

LEMMA FirstSpaceIsOne ==
    ASSUME NEW s \in Seq(Printable), NEW k, FirstSpaceAt(s, k)
    PROVE  UpToSpace(s) = k /\ k \in Nat \ {0} /\ FirstOf(s) = SubSeq(s, 1, k - 1)
<1>1. ~NoSpace(s)
  BY DEF NoSpace, FirstSpaceAt
<1>2. PICK j : j = UpToSpace(s) /\ FirstSpaceAt(s, j)
  BY <1>1, UpToSpaceIs
<1>3. j = k /\ k \in Nat \ {0}
  BY <1>2, LenProperties DEF FirstSpaceAt
<1>4. UpToSpace(s) # 0
  BY <1>2, <1>3
<1> QED
  BY <1>2, <1>3, <1>4, Zenon DEF FirstOf

LEMMA FirstOfWord ==
    ASSUME NEW s \in Seq(Printable), NoSpace(s)
    PROVE  FirstOf(s) = s
BY UpToSpaceIs DEF FirstOf

LEMMA WordsHaveNoSpace ==
    ASSUME NEW s \in Seq(Chars)
    PROVE  NoSpace(s) /\ s \in Seq(Printable)
<1>1. \A n \in 1 .. Len(s) : s[n] \in Chars
  BY ElementOfSeq
<1> QED
  BY <1>1, FontAssumption, SeqMonotonic DEF NoSpace, Printable

LEMMA FirstOfIsText ==
    ASSUME NEW s \in Seq(Printable)
    PROVE  FirstOf(s) \in Seq(Printable)
<1>1. CASE NoSpace(s)
  BY <1>1, FirstOfWord
<1>2. CASE ~NoSpace(s)
  <2>1. PICK k : FirstSpaceAt(s, k)
    BY <1>2, UpToSpaceIs
  <2>2. FirstOf(s) = SubSeq(s, 1, k - 1) /\ k \in Nat \ {0}
    BY <2>1, FirstSpaceIsOne
  <2>3. k <= Len(s)
    BY <2>1, LenProperties DEF FirstSpaceAt
  <2>4. SubSeq(s, 1, k - 1) \in Seq(Printable)
    BY <2>2, <2>3, SMT
  <2> QED
    BY <2>2, <2>4
<1> QED
  BY <1>1, <1>2

\* A line that goes on after a space begins as it did.
LEMMA FirstOfLonger ==
    ASSUME NEW s \in Seq(Printable), NEW t \in Seq(Printable), t # <<>>,
           ~NoSpace(s) \/ t[1] = Space
    PROVE  FirstOf(s \o t) = FirstOf(s)
<1>1. PICK len \in Nat : len = Len(s)
  BY LenProperties
<1>2. PICK more \in Nat : more = Len(t)
  BY LenProperties
<1>3. more >= 1
  BY <1>2, EmptySeq
<1>4. PICK u \in Seq(Printable) : u = s \o t
  BY ConcatProperties
<1>5. /\ Len(u) = len + more
      /\ \A n \in 1 .. len : u[n] = s[n]
      /\ u[len + 1] = t[1]
  BY <1>1, <1>2, <1>3, <1>4, SMT
<1>6. CASE NoSpace(s)
  <2>1. FirstSpaceAt(u, len + 1)
    BY <1>1, <1>3, <1>5, <1>6 DEF NoSpace, FirstSpaceAt
  <2>2. FirstOf(u) = SubSeq(u, 1, (len + 1) - 1)
    BY <2>1, FirstSpaceIsOne
  <2>3. SubSeq(u, 1, len) = s
    BY <1>1, <1>2, <1>4, SMT
  <2>4. (len + 1) - 1 = len
    OBVIOUS
  <2> QED
    BY <1>4, <1>6, <2>2, <2>3, <2>4, FirstOfWord
<1>7. CASE ~NoSpace(s)
  <2>1. PICK k : FirstSpaceAt(s, k)
    BY <1>7, UpToSpaceIs
  <2>2. FirstOf(s) = SubSeq(s, 1, k - 1) /\ k \in Nat \ {0}
    BY <2>1, FirstSpaceIsOne
  <2>3. k <= len
    BY <1>1, <2>1 DEF FirstSpaceAt
  <2>4. FirstSpaceAt(u, k)
    <3>1. k \in 1 .. len /\ k \in 1 .. len + more
      BY <2>2, <2>3
    <3>2. \A n \in 1 .. k - 1 : n \in 1 .. len
      BY <3>1
    <3>3. s[k] = Space /\ \A n \in 1 .. k - 1 : s[n] # Space
      BY <2>1 DEF FirstSpaceAt
    <3> QED
      BY <1>5, <3>1, <3>2, <3>3, Zenon DEF FirstSpaceAt
  <2>5. FirstOf(u) = SubSeq(u, 1, k - 1)
    BY <2>4, FirstSpaceIsOne
  <2>6. SubSeq(u, 1, k - 1) = SubSeq(s, 1, k - 1)
    BY <1>1, <1>2, <1>4, <2>2, <2>3, SMT
  <2> QED
    BY <1>4, <2>2, <2>5, <2>6
<1> QED
  BY <1>6, <1>7

\* Nor does its first word become narrower.
LEMMA FirstWordGrows ==
    ASSUME NEW s \in Seq(Printable), NEW c \in Chars
    PROVE  TextWidth(FirstOf(Append(s, c))) >= TextWidth(FirstOf(s))
<1>1. PICK t \in Seq(Printable) : t = Append(s, c)
  BY AppendProperties DEF Printable
<1>2. CASE NoSpace(s)
  <2>1. NoSpace(t)
    <3>1. c # Space
      BY FontAssumption
    <3> QED
      BY <1>1, <1>2, <3>1, AppendProperties, LenProperties DEF NoSpace, Printable
  <2>2. FirstOf(t) = t /\ FirstOf(s) = s
    BY <1>2, <2>1, FirstOfWord
  <2>3. c \in Printable
    BY DEF Printable
  <2>4. TextWidth(t) = TextWidth(s) + CharAdvance(c)
    BY <1>1, <2>3, WidthOfAppend
  <2>5. TextWidth(s) \in Nat /\ CharAdvance(c) \in Nat
    BY <2>3, WidthIsNat, AdvanceIsNat
  <2> QED
    BY <1>1, <2>2, <2>4, <2>5
<1>3. CASE ~NoSpace(s)
  <2>1. c \in Printable
    BY DEF Printable
  <2>2. <<c>> \in Seq(Printable) /\ <<c>> # <<>>
    BY <2>1
  <2>3. PICK x \in Seq(Printable) : x = <<c>> /\ x # <<>>
    BY <2>2, Zenon
  <2>4. t = s \o x
    BY <1>1, <2>3, AppendIsConcat DEF Printable
  <2>5. FirstOf(t) = FirstOf(s)
    BY <1>3, <2>3, <2>4, FirstOfLonger
  <2>6. TextWidth(FirstOf(s)) \in Nat
    BY FirstOfIsText, WidthIsNat
  <2> QED
    BY <1>1, <2>5, <2>6
<1> QED
  BY <1>2, <1>3

-----------------------------------------------------------------------------
(* Setting the words *)

Words == Seq(Chars) \ {<<>>}

WrapTypes ==
    /\ text \in Seq(Words) /\ words \in Seq(Words)
    /\ rest \in Seq(Chars)
    /\ current_line \in Seq(Printable)
    /\ current_width = TextWidth(current_line)
    /\ lines \in Seq(Seq(Printable))

\* The words left are the last of the text.
WordsLeft ==
    /\ Len(words) <= Len(text)
    /\ \A n \in 1 .. Len(words) : words[n] = text[Len(text) - Len(words) + n]

\* What is true of the lines, of a text that is set or being set.
SetInv == WrapTypes /\ WordsLeft /\ WellWrapped

Fits(s) == TextWidth(s) <= MaxWidth \/ Len(s) = 1 \/ s \in LaterWords

NoRoom(s, t) == TextWidth(s) + CharAdvance(Space) + TextWidth(FirstOf(t)) > MaxWidth

\* What is true of the last line, while words are being set.
LastLineInv ==
    /\ Len(words) < Len(text) <=> current_line # <<>> \/ rest # <<>>
    /\ lines # <<>> => current_line # <<>>
    /\ current_line # <<>> => Fits(current_line)
    /\ lines # <<>> => NoRoom(lines[Len(lines)], current_line)

LEMMA WordsAreText == Seq(Words) \subseteq Seq(Seq(Chars)) /\ Words \subseteq Seq(Printable)
<1>1. Words \subseteq Seq(Chars)
  BY DEF Words
<1>2. \A s \in Seq(Words) : s \in Seq(Seq(Chars))
  BY <1>1, SeqMonotonic
<1> QED
  BY <1>1, <1>2, WordsHaveNoSpace

\* A word that is taken.
LEMMA WordTaken ==
    ASSUME WrapTypes, WordsLeft, NextWord
    PROVE  /\ Head(words) \in Words /\ words' \in Seq(Words)
           /\ WordsLeft' /\ Len(words') < Len(text')
           /\ text' = text
           /\ Len(words) < Len(text) => Head(words) \in LaterWords
           /\ FlattenSeq(words) = Head(words) \o FlattenSeq(words')
<1>1. words \in Seq(Words) /\ words # <<>> /\ words' = Tail(words) /\ text' = text
  BY DEF WrapTypes, NextWord
<1>2. PICK len \in Nat, left \in Nat : len = Len(text) /\ left = Len(words)
  BY LenProperties DEF WrapTypes
<1>3. /\ left >= 1 /\ Head(words) \in Words /\ Tail(words) \in Seq(Words)
      /\ Len(Tail(words)) = left - 1
      /\ Head(words) = words[1]
      /\ \A n \in 1 .. left - 1 : Tail(words)[n] = words[n + 1]
  BY <1>1, <1>2, SMT
<1>4. left <= len /\ \A n \in 1 .. left : words[n] = text[len - left + n]
  BY <1>2 DEF WordsLeft
<1>5. \A n \in 1 .. left - 1 : Tail(words)[n] = text[len - (left - 1) + n]
  BY <1>3, <1>4
<1>6. WordsLeft'
  BY <1>1, <1>2, <1>3, <1>4, <1>5 DEF WordsLeft
<1>7. ASSUME left < len PROVE Head(words) \in LaterWords
  <2>1. (len - left) + 1 \in 2 .. len /\ words[1] = text[(len - left) + 1]
    BY <1>3, <1>4, <1>7
  <2> QED
    BY <1>2, <1>3, <2>1 DEF LaterWords
<1>8. FlattenSeq(words) = Head(words) \o FlattenSeq(Tail(words))
  BY <1>1, WordsAreText, FlattenOfTail
<1> QED
  BY <1>1, <1>2, <1>3, <1>4, <1>6, <1>7, <1>8

\* What is added to the lines is what is taken from the words.
LEMMA KeptStep ==
    ASSUME WrapTypes, WrapTypes', TextIsKept, text' = text,
           NEW x \in Seq(Printable),
           FlattenSeq(lines') \o current_line' = (FlattenSeq(lines) \o current_line) \o x,
           rest \o FlattenSeq(words) = Letters(x) \o (rest' \o FlattenSeq(words'))
    PROVE  TextIsKept'
<1>1. FlattenSeq(lines) \in Seq(Printable)
  BY FlattenIsText DEF WrapTypes
<1>2. PICK a \in Seq(Printable) : a = FlattenSeq(lines) \o current_line
  BY <1>1, ConcatProperties DEF WrapTypes
<1>3. FlattenSeq(words) \in Seq(Chars) /\ FlattenSeq(words') \in Seq(Chars)
  BY FlattenIsText, WordsAreText DEF WrapTypes
<1>4. PICK f \in Seq(Chars), g \in Seq(Chars) : f = FlattenSeq(words) /\ g = FlattenSeq(words')
  BY <1>3
<1>5. PICK r \in Seq(Chars), q \in Seq(Chars) : r = rest /\ q = rest'
  BY DEF WrapTypes
<1>6. Letters(a \o x) = Letters(a) \o Letters(x)
  BY LettersOfConcat
<1>7. PICK la \in Seq(Chars), lx \in Seq(Chars) : la = Letters(a) /\ lx = Letters(x)
  BY LettersIsText
<1>8. (la \o r) \o f = FlattenSeq(text)
  BY <1>2, <1>4, <1>5, <1>7, Zenon DEF TextIsKept
<1>9. r \o f = lx \o (q \o g)
  BY <1>4, <1>5, <1>7, Zenon
<1>10. ((la \o lx) \o q) \o g = FlattenSeq(text)
  <2>1. PICK qg \in Seq(Chars) : qg = q \o g
    BY ConcatProperties
  <2>2. PICK lq \in Seq(Chars) : lq = la \o lx
    BY ConcatProperties
  <2>3. Associates(lq, q, g) /\ Associates(la, lx, qg) /\ Associates(la, r, f)
    BY JoinsAssociate
  <2> QED
    BY <1>8, <1>9, <2>1, <2>2, <2>3, Zenon DEF Associates
<1> QED
  BY <1>2, <1>4, <1>5, <1>6, <1>7, <1>10, Zenon DEF TextIsKept

\* A line that is added.
LEMMA LineAdded ==
    ASSUME WrapTypes, LinesFit, LinesAreFull, text' = text,
           NEW s \in Seq(Printable), lines' = Append(lines, s),
           Fits(s), s = <<>> => text = <<>>,
           lines # <<>> => NoRoom(lines[Len(lines)], s)
    PROVE  /\ lines' \in Seq(Seq(Printable)) /\ lines' # <<>>
           /\ lines'[Len(lines')] = s
           /\ LinesFit' /\ LinesAreFull'
           /\ FlattenSeq(lines') = FlattenSeq(lines) \o s
<1>1. PICK len \in Nat : len = Len(lines)
  BY LenProperties DEF WrapTypes
<1>2. PICK new \in Seq(Seq(Printable)) : new = Append(lines, s)
  BY AppendProperties DEF WrapTypes
<1>3. /\ Len(new) = len + 1 /\ new[len + 1] = s
      /\ \A n \in 1 .. len : new[n] = lines[n]
      /\ DOMAIN new = 1 .. len + 1 /\ DOMAIN lines = 1 .. len
  BY <1>1, <1>2, AppendProperties, LenProperties DEF WrapTypes
<1>4. lines' = new /\ new # <<>>
  BY <1>2, <1>3, EmptySeq
<1>5. FlattenSeq(new) = FlattenSeq(lines) \o s
  BY <1>2, FlattenOfAppend DEF WrapTypes
<1>6. ASSUME NEW n \in DOMAIN new
      PROVE  Fits(new[n]) /\ (new[n] = <<>> => text = <<>>)
  <2>1. CASE n = len + 1
    BY <1>3, <2>1
  <2>2. CASE n \in 1 .. len
    <3>1. new[n] = lines[n] /\ n \in DOMAIN lines
      BY <1>3, <2>2
    <3> QED
      BY <3>1 DEF LinesFit, Fits
  <2> QED
    BY <1>3, <2>1, <2>2
<1>7. LaterWords' = LaterWords
  BY DEF LaterWords
<1>8. LinesFit'
  BY <1>4, <1>6, <1>7, Zenon DEF LinesFit, Fits
<1>9. ASSUME NEW n \in 1 .. len PROVE NoRoom(new[n], new[n + 1])
  <2>1. CASE n = len
    <3>1. lines # <<>> /\ len >= 1
      BY <1>1, <2>1, EmptySeq
    <3>2. new[n] = lines[Len(lines)] /\ new[n + 1] = s
      BY <1>1, <1>3, <2>1, <3>1
    <3> QED
      BY <3>1, <3>2, Zenon
  <2>2. CASE n \in 1 .. len - 1
    <3>1. new[n] = lines[n] /\ new[n + 1] = lines[n + 1] /\ n \in 1 .. Len(lines) - 1
      BY <1>1, <1>3, <2>2
    <3>2. NoRoom(lines[n], lines[n + 1])
      BY <3>1, Zenon DEF LinesAreFull, NoRoom
    <3> QED
      BY <3>1, <3>2, Zenon
  <2> QED
    BY <2>1, <2>2
<1>10. LinesAreFull'
  <2>1. 1 .. Len(new) - 1 = 1 .. len
    BY <1>3
  <2> QED
    BY <1>4, <1>9, <2>1, Zenon DEF LinesAreFull, NoRoom
<1> QED
  BY <1>2, <1>3, <1>4, <1>5, <1>8, <1>10, Zenon

\* Lines that stay as they are.
LEMMA LinesStay ==
    ASSUME LinesFit, LinesAreFull, UNCHANGED <<text, lines>>
    PROVE  LinesFit' /\ LinesAreFull'
BY DEF LinesFit, LinesAreFull, LaterWords

\* A sequence of one character.
LEMMA OneChar ==
    ASSUME NEW c \in Printable
    PROVE  /\ <<c>> \in Seq(Printable) /\ <<c>> # <<>> /\ Len(<<c>>) = 1
           /\ TextWidth(<<c>>) = CharAdvance(c)
           /\ Letters(<<c>>) = IF c = Space THEN <<>> ELSE <<c>>
           /\ c # Space => FirstOf(<<c>>) = <<c>>
<1>1. PICK x \in Seq(Printable) : x = <<c>> /\ x # <<>> /\ Len(x) = 1 /\ x[1] = c
  <2>1. <<c>> \in Seq(Printable) /\ <<c>> # <<>> /\ Len(<<c>>) = 1 /\ <<c>>[1] = c
    OBVIOUS
  <2> QED
    BY <2>1, Zenon
<1>2. <<>> \in Seq(Printable) /\ Append(<<>>, c) = x
  BY <1>1, EmptySeq
<1>3. TextWidth(x) = TextWidth(<<>>) + CharAdvance(c)
  BY <1>2, WidthOfAppend
<1>4. TextWidth(x) = CharAdvance(c)
  BY <1>3, WidthOfEmpty, AdvanceIsNat
<1>5. Letters(x) = Kept(Letters(<<>>), c)
  BY <1>2, LettersOfAppend, Zenon
<1>6. Letters(x) = IF c = Space THEN <<>> ELSE x
  BY <1>2, <1>5, LettersOfEmpty, Zenon DEF Kept
<1>7. ASSUME c # Space PROVE FirstOf(x) = x
  <2>1. NoSpace(x)
    BY <1>1, <1>7 DEF NoSpace
  <2> QED
    BY <2>1, FirstOfWord
<1> QED
  BY <1>1, <1>4, <1>6, <1>7, Zenon

\* A word as it is set.
LEMMA WordIs ==
    ASSUME NEW w \in Words
    PROVE  /\ w \in Seq(Chars) /\ w \in Seq(Printable) /\ w # <<>>
           /\ Letters(w) = w /\ FirstOf(w) = w /\ TextWidth(w) \in Nat
BY WordsHaveNoSpace, LettersOfWord, FirstOfWord, WidthIsNat DEF Words

LEMMA FirstWordStep ==
    ASSUME SetInv, LastLineInv, FirstWord
    PROVE  SetInv' /\ LastLineInv'
<1>1. PICK w \in Words : w = Head(words)
  BY WordTaken DEF SetInv, FirstWord
<1>2. /\ words' \in Seq(Words) /\ WordsLeft' /\ Len(words') < Len(text')
      /\ text' = text /\ FlattenSeq(words) = w \o FlattenSeq(words')
  BY <1>1, WordTaken, Zenon DEF SetInv, FirstWord
<1>3. /\ rest = <<>> /\ rest' = <<>> /\ current_line = <<>> /\ current_line' = w
      /\ lines' = lines /\ current_width' = TextWidth(w) /\ TextWidth(w) <= MaxWidth
  BY <1>1 DEF FirstWord, NextWord
<1>4. lines = <<>>
  BY <1>3 DEF LastLineInv
<1>5. WrapTypes'
  BY <1>2, <1>3, WordIs DEF WrapTypes, SetInv
<1>6. LinesFit' /\ LinesAreFull'
  BY <1>2, <1>3, LinesStay DEF SetInv, WellWrapped
<1>7. TextIsKept'
  <2>1. PICK a \in Seq(Printable) : a = FlattenSeq(lines)
    BY FlattenIsText DEF SetInv, WrapTypes
  <2>2. a \o current_line = a /\ a \o w = a \o current_line'
    BY <1>3, ConcatEmptySeq, WordIs
  <2>3. FlattenSeq(lines') \o current_line' = (FlattenSeq(lines) \o current_line) \o w
    BY <1>3, <2>1, <2>2, Zenon
  <2>4. PICK f \in Seq(Chars) : f = FlattenSeq(words')
    BY <1>2, FlattenIsText, WordsAreText
  <2>5. <<>> \o f = f /\ w \o f \in Seq(Chars)
    BY ConcatEmptySeq, ConcatProperties, WordIs
  <2>6. <<>> \o (w \o f) = w \o f
    BY <2>5, ConcatEmptySeq
  <2>7. rest \o FlattenSeq(words) = Letters(w) \o (rest' \o FlattenSeq(words'))
    BY <1>2, <1>3, <2>4, <2>5, <2>6, WordIs, Zenon
  <2> QED
    BY <1>2, <1>5, <2>3, <2>7, KeptStep, WordIs, Zenon DEF SetInv, WellWrapped
<1>8. LastLineInv'
  BY <1>2, <1>3, <1>4, WordIs, Zenon DEF LastLineInv, Fits
<1> QED
  BY <1>2, <1>5, <1>6, <1>7, <1>8, Zenon DEF SetInv, WellWrapped

LEMMA FirstWordTooWideStep ==
    ASSUME SetInv, LastLineInv, FirstWordTooWide
    PROVE  SetInv' /\ LastLineInv'
<1>1. PICK w \in Words : w = Head(words)
  BY WordTaken DEF SetInv, FirstWordTooWide
<1>2. /\ words' \in Seq(Words) /\ WordsLeft' /\ Len(words') < Len(text')
      /\ text' = text /\ FlattenSeq(words) = w \o FlattenSeq(words')
  BY <1>1, WordTaken, Zenon DEF SetInv, FirstWordTooWide
<1>3. /\ rest = <<>> /\ rest' = w /\ current_line = <<>> /\ current_line' = <<>>
      /\ lines' = lines /\ current_width' = current_width
  BY <1>1 DEF FirstWordTooWide, NextWord
<1>4. lines = <<>>
  BY <1>3 DEF LastLineInv
<1>5. WrapTypes'
  BY <1>2, <1>3, WordIs DEF WrapTypes, SetInv
<1>6. LinesFit' /\ LinesAreFull'
  BY <1>2, <1>3, LinesStay DEF SetInv, WellWrapped
<1>7. TextIsKept'
  <2>1. PICK a \in Seq(Printable) : a = FlattenSeq(lines)
    BY FlattenIsText DEF SetInv, WrapTypes
  <2>2. a \o <<>> = a
    BY ConcatEmptySeq
  <2>3. FlattenSeq(lines') \o current_line' = (FlattenSeq(lines) \o current_line) \o <<>>
    BY <1>3, <2>1, <2>2, Zenon
  <2>4. PICK f \in Seq(Chars) : f = FlattenSeq(words')
    BY <1>2, FlattenIsText, WordsAreText
  <2>5. w \o f \in Seq(Chars)
    BY ConcatProperties, WordIs
  <2>6. <<>> \o (w \o f) = w \o f
    BY <2>5, ConcatEmptySeq
  <2>7. rest \o FlattenSeq(words) = Letters(<<>>) \o (rest' \o FlattenSeq(words'))
    BY <1>2, <1>3, <2>4, <2>6, LettersOfEmpty, Zenon
  <2>8. <<>> \in Seq(Printable)
    BY EmptySeq
  <2> QED
    BY <1>2, <1>5, <2>3, <2>7, <2>8, KeptStep, Zenon DEF SetInv, WellWrapped
<1>8. LastLineInv'
  BY <1>2, <1>3, <1>4, WordIs, Zenon DEF LastLineInv
<1> QED
  BY <1>2, <1>5, <1>6, <1>7, <1>8, Zenon DEF SetInv, WellWrapped

LEMMA BreakCharStep ==
    ASSUME SetInv, LastLineInv, BreakChar
    PROVE  SetInv' /\ LastLineInv'
<1> DEFINE full == current_width + CharAdvance(Head(rest)) > MaxWidth /\ current_line # <<>>
<1>1. PICK c \in Chars : c = Head(rest)
  BY HeadTailProperties DEF SetInv, WrapTypes, BreakChar
<1>2. /\ rest \in Seq(Chars) /\ rest # <<>> /\ rest' = Tail(rest) /\ rest' \in Seq(Chars)
      /\ text' = text /\ words' = words
  BY HeadTailProperties DEF SetInv, WrapTypes, BreakChar
<1>3. /\ lines' = IF full THEN Append(lines, current_line) ELSE lines
      /\ current_line' = IF full THEN <<c>> ELSE Append(current_line, c)
      /\ current_width' = (IF full THEN 0 ELSE current_width) + CharAdvance(c)
  BY <1>1, Zenon DEF BreakChar
<1>4. c \in Printable /\ c # Space
  BY FontAssumption DEF Printable
<1>5. PICK x \in Seq(Printable) : x = <<c>>
  BY <1>4, OneChar
<1>6. /\ x # <<>> /\ Len(x) = 1 /\ TextWidth(x) = CharAdvance(c) /\ Letters(x) = x
      /\ FirstOf(x) = x
  BY <1>4, <1>5, OneChar
<1>7. current_line \in Seq(Printable) /\ current_width = TextWidth(current_line)
  BY DEF SetInv, WrapTypes
<1>8. TextWidth(current_line) \in Nat /\ CharAdvance(c) \in Nat /\ CharAdvance(Space) \in Nat
  BY <1>4, <1>7, WidthIsNat, AdvanceIsNat DEF Printable
<1>9. Append(current_line, c) = current_line \o x
  BY <1>4, <1>5, <1>7, AppendIsConcat, Zenon
<1>10. /\ Append(current_line, c) \in Seq(Printable)
       /\ TextWidth(Append(current_line, c)) = TextWidth(current_line) + CharAdvance(c)
       /\ Append(current_line, c) # <<>>
  BY <1>4, <1>7, AppendProperties, WidthOfAppend
<1>11. current_line' # <<>>
  BY <1>3, <1>5, <1>6, <1>10
<1>12. current_line' \in Seq(Printable) /\ current_width' = TextWidth(current_line')
  <2>1. CASE full
    BY <1>3, <1>5, <1>6, <1>8, <2>1
  <2>2. CASE ~full
    BY <1>3, <1>7, <1>10, <2>2
  <2> QED
    BY <2>1, <2>2
<1>13. PICK a \in Seq(Printable) : a = FlattenSeq(lines)
  BY FlattenIsText DEF SetInv, WrapTypes
<1>14. /\ lines' \in Seq(Seq(Printable)) /\ LinesFit' /\ LinesAreFull'
       /\ FlattenSeq(lines') \o current_line' = (FlattenSeq(lines) \o current_line) \o x
       /\ lines' # <<>> => NoRoom(lines'[Len(lines')], current_line')
       /\ Fits(current_line')
  <2>1. CASE full
    <3>1. lines' = Append(lines, current_line) /\ current_line' = x
      BY <1>3, <1>5, <2>1
    <3>2. Fits(current_line) /\ (lines # <<>> => NoRoom(lines[Len(lines)], current_line))
      BY <2>1 DEF LastLineInv
    <3>3. WrapTypes /\ LinesFit /\ LinesAreFull
      BY DEF SetInv, WellWrapped
    <3>4. /\ lines' \in Seq(Seq(Printable)) /\ LinesFit' /\ LinesAreFull'
          /\ FlattenSeq(lines') = FlattenSeq(lines) \o current_line
          /\ lines'[Len(lines')] = current_line
      BY <1>2, <1>7, <2>1, <3>1, <3>2, <3>3, LineAdded, Zenon
    <3>5. TextWidth(current_line) + CharAdvance(Space) + TextWidth(FirstOf(x)) > MaxWidth
      BY <1>1, <1>6, <1>7, <1>8, <2>1, FontAssumption
    <3>6. NoRoom(lines'[Len(lines')], current_line')
      BY <3>1, <3>4, <3>5, Zenon DEF NoRoom
    <3>7. Fits(x)
      BY <1>6 DEF Fits
    <3> QED
      BY <3>1, <3>4, <3>6, <3>7, Zenon
  <2>2. CASE ~full
    <3>1. lines' = lines /\ current_line' = Append(current_line, c)
      BY <1>3, <2>2
    <3>2. LinesFit' /\ LinesAreFull' /\ lines' \in Seq(Seq(Printable))
      BY <1>2, <3>1, LinesStay DEF SetInv, WellWrapped, WrapTypes
    <3>3. Associates(a, current_line, x)
      BY <1>7, JoinsAssociate
    <3>4. FlattenSeq(lines') \o current_line' = (FlattenSeq(lines) \o current_line) \o x
      BY <1>9, <1>13, <3>1, <3>3, Zenon DEF Associates
    <3>5. Fits(current_line')
      <4>1. CASE current_line = <<>>
        <5>1. current_line' = <<c>>
          BY <3>1, <4>1
        <5> QED
          BY <1>5, <1>6, <5>1 DEF Fits
      <4>2. CASE current_line # <<>>
        <5>1. TextWidth(Append(current_line, c)) <= MaxWidth
          BY <1>1, <1>7, <1>8, <1>10, <2>2, <4>2, FontAssumption
        <5> QED
          BY <3>1, <5>1 DEF Fits
      <4> QED
        BY <4>1, <4>2
    <3>6. ASSUME lines # <<>>
          PROVE  NoRoom(lines[Len(lines)], Append(current_line, c))
      <4>1. lines[Len(lines)] \in Seq(Printable)
        <5>1. Len(lines) \in 1 .. Len(lines)
          BY <3>6, EmptySeq, LenProperties DEF SetInv, WrapTypes
        <5> QED
          BY <5>1, ElementOfSeq DEF SetInv, WrapTypes
      <4>2. PICK l \in Seq(Printable) : l = lines[Len(lines)]
        BY <4>1
      <4>3. NoRoom(l, current_line)
        BY <3>6, <4>2 DEF LastLineInv
      <4>4. TextWidth(FirstOf(Append(current_line, c))) >= TextWidth(FirstOf(current_line))
        BY <1>7, FirstWordGrows
      <4>5. /\ TextWidth(FirstOf(current_line)) \in Nat /\ TextWidth(l) \in Nat
            /\ TextWidth(FirstOf(Append(current_line, c))) \in Nat
        BY <1>7, <1>10, FirstOfIsText, WidthIsNat
      <4>6. NoRoom(l, Append(current_line, c))
        BY <1>8, <4>3, <4>4, <4>5, FontAssumption DEF NoRoom
      <4> QED
        BY <4>2, <4>6
    <3> QED
      BY <3>1, <3>2, <3>4, <3>5, <3>6, Zenon
  <2> QED
    BY <2>1, <2>2, Zenon
<1>15. WrapTypes'
  BY <1>2, <1>12, <1>14 DEF WrapTypes, SetInv
<1>16. WordsLeft'
  BY <1>2 DEF WordsLeft, SetInv
<1>17. TextIsKept'
  <2>1. PICK r \in Seq(Chars), f \in Seq(Chars), tail \in Seq(Chars) :
            r = rest' /\ f = FlattenSeq(words) /\ tail = x
    <3>1. <<c>> \in Seq(Chars)
      OBVIOUS
    <3> QED
      BY <1>2, <1>5, <3>1, FlattenIsText, WordsAreText DEF SetInv, WrapTypes
  <2>2. rest = tail \o r
    BY <1>1, <1>2, <1>5, <2>1, SMT
  <2>3. Associates(tail, r, f)
    BY JoinsAssociate
  <2>4. rest \o FlattenSeq(words) = Letters(x) \o (rest' \o FlattenSeq(words'))
    BY <1>2, <1>6, <2>1, <2>2, <2>3, Zenon DEF Associates
  <2> QED
    BY <1>2, <1>14, <1>15, <2>4, KeptStep, Zenon DEF SetInv, WellWrapped
<1>18. LastLineInv'
  <2>1. Len(words') < Len(text')
    BY <1>2 DEF LastLineInv
  <2>2. Fits(current_line)'
    BY <1>2, <1>14, Zenon DEF Fits, LaterWords
  <2> QED
    BY <1>11, <1>14, <2>1, <2>2, Zenon DEF LastLineInv
<1> QED
  BY <1>14, <1>15, <1>16, <1>17, <1>18, Zenon DEF SetInv, WellWrapped

\* A word and the space before it.
LEMMA SpaceAndWord ==
    ASSUME NEW w \in Words
    PROVE  /\ <<Space>> \o w \in Seq(Printable) /\ <<Space>> \o w # <<>>
           /\ (<<Space>> \o w)[1] = Space
           /\ Letters(<<Space>> \o w) = w
           /\ TextWidth(<<Space>> \o w) = CharAdvance(Space) + TextWidth(w)
           /\ TextWidth(w) \in Nat /\ CharAdvance(Space) \in Nat
<1>1. Space \in Printable
  BY DEF Printable
<1>2. PICK x \in Seq(Printable) : x = <<Space>> /\ Len(x) = 1 /\ x[1] = Space
  <2>1. <<Space>> \in Seq(Printable) /\ Len(<<Space>>) = 1 /\ <<Space>>[1] = Space
    BY <1>1
  <2> QED
    BY <2>1, Zenon
<1>3. Letters(x) = <<>> /\ TextWidth(x) = CharAdvance(Space)
  BY <1>1, <1>2, OneChar
<1>4. w \in Seq(Printable) /\ w \in Seq(Chars) /\ Letters(w) = w
  BY WordIs
<1>5. PICK tail \in Seq(Printable) : tail = x \o w
  BY <1>4, ConcatProperties
<1>6. tail # <<>> /\ tail[1] = Space
  BY <1>2, <1>4, <1>5, SMT
<1>7. Letters(tail) = Letters(x) \o Letters(w) /\ TextWidth(tail) = TextWidth(x) + TextWidth(w)
  BY <1>4, <1>5, LettersOfConcat, WidthOfConcat
<1>8. <<>> \o w = w
  BY <1>4, ConcatEmptySeq
<1>9. TextWidth(w) \in Nat /\ CharAdvance(Space) \in Nat
  BY <1>1, <1>4, WidthIsNat, AdvanceIsNat
<1> QED
  BY <1>2, <1>3, <1>4, <1>5, <1>6, <1>7, <1>8, <1>9, Zenon

LEMMA WordFitsStep ==
    ASSUME SetInv, LastLineInv, WordFits
    PROVE  SetInv' /\ LastLineInv'
<1>1. PICK w \in Words : w = Head(words)
  BY WordTaken DEF SetInv, WordFits
<1>2. /\ words' \in Seq(Words) /\ WordsLeft' /\ Len(words') < Len(text')
      /\ text' = text /\ FlattenSeq(words) = w \o FlattenSeq(words')
  BY <1>1, WordTaken, Zenon DEF SetInv, WordFits
<1>3. PICK x \in Seq(Printable) : x = <<Space>> \o w
  BY SpaceAndWord
<1>4. /\ x # <<>> /\ x[1] = Space /\ Letters(x) = w
      /\ TextWidth(x) = CharAdvance(Space) + TextWidth(w)
      /\ TextWidth(w) \in Nat /\ CharAdvance(Space) \in Nat
  BY <1>3, SpaceAndWord
<1>5. current_line \in Seq(Printable) /\ current_width = TextWidth(current_line)
  BY DEF SetInv, WrapTypes
<1>6. PICK s \in Seq(Printable) : s = current_line /\ s # <<>>
  BY <1>5 DEF WordFits
<1>7. Associates(s, <<Space>>, w)
  <2>1. <<Space>> \in Seq(Printable)
    BY OneChar DEF Printable
  <2> QED
    BY <2>1, WordIs, JoinsAssociate
<1>8. /\ rest = <<>> /\ rest' = <<>> /\ lines' = lines
      /\ current_line' = (s \o <<Space>>) \o w
      /\ current_width' = WidthWith(w) /\ WidthWith(w) <= MaxWidth
  BY <1>1, <1>6 DEF WordFits, NextWord
<1>9. current_line' = s \o x
  BY <1>3, <1>7, <1>8, Zenon DEF Associates
<1>10. /\ s \o x \in Seq(Printable) /\ TextWidth(s \o x) = TextWidth(s) + TextWidth(x)
       /\ FirstOf(s \o x) = FirstOf(s) /\ TextWidth(s) \in Nat
  BY <1>4, ConcatProperties, WidthOfConcat, FirstOfLonger, WidthIsNat
<1>11. WidthWith(w) = TextWidth(s \o x)
  BY <1>4, <1>5, <1>6, <1>10 DEF WidthWith
<1>12. s \o x # <<>>
  BY <1>4, <1>6, SMT
<1>13. WrapTypes'
  <2>1. current_line' \in Seq(Printable) /\ current_width' = TextWidth(current_line')
    BY <1>8, <1>9, <1>10, <1>11, Zenon
  <2>2. text' \in Seq(Words) /\ rest' \in Seq(Chars) /\ lines' \in Seq(Seq(Printable))
    BY <1>2, <1>8 DEF SetInv, WrapTypes
  <2> QED
    BY <1>2, <2>1, <2>2, Zenon DEF WrapTypes
<1>14. LinesFit' /\ LinesAreFull'
  BY <1>2, <1>8, LinesStay DEF SetInv, WellWrapped
<1>15. TextIsKept'
  <2>1. PICK a \in Seq(Printable) : a = FlattenSeq(lines)
    BY FlattenIsText DEF SetInv, WrapTypes
  <2>2. Associates(a, s, x)
    BY JoinsAssociate
  <2>3. FlattenSeq(lines') \o current_line' = (FlattenSeq(lines) \o current_line) \o x
    BY <1>6, <1>8, <1>9, <2>1, <2>2, Zenon DEF Associates
  <2>4. PICK f \in Seq(Chars) : f = FlattenSeq(words')
    BY <1>2, FlattenIsText, WordsAreText
  <2>5. <<>> \o f = f /\ w \o f \in Seq(Chars)
    BY ConcatEmptySeq, ConcatProperties, WordIs
  <2>6. <<>> \o (w \o f) = w \o f
    BY <2>5, ConcatEmptySeq
  <2>7. rest \o FlattenSeq(words) = Letters(x) \o (rest' \o FlattenSeq(words'))
    BY <1>2, <1>4, <1>8, <2>4, <2>5, <2>6, Zenon
  <2> QED
    BY <1>2, <1>13, <2>3, <2>7, KeptStep, Zenon DEF SetInv, WellWrapped
<1>16. LastLineInv'
  <2>1. Fits(current_line)'
    BY <1>8, <1>9, <1>11, Zenon DEF Fits
  <2>2. lines # <<>> => NoRoom(lines[Len(lines)], s)
    BY <1>6, Zenon DEF LastLineInv
  <2>3. lines' # <<>> => NoRoom(lines'[Len(lines')], current_line')
    BY <1>8, <1>9, <1>10, <2>2, Zenon DEF NoRoom
  <2> QED
    BY <1>2, <1>9, <1>12, <2>1, <2>3, Zenon DEF LastLineInv
<1> QED
  BY <1>2, <1>13, <1>14, <1>15, <1>16, Zenon DEF SetInv, WellWrapped

LEMMA WordStartsLineStep ==
    ASSUME SetInv, LastLineInv, WordStartsLine
    PROVE  SetInv' /\ LastLineInv'
<1>1. PICK w \in Words : w = Head(words)
  BY WordTaken DEF SetInv, WordStartsLine
<1>2. /\ words' \in Seq(Words) /\ WordsLeft' /\ Len(words') < Len(text')
      /\ text' = text /\ FlattenSeq(words) = w \o FlattenSeq(words')
      /\ Len(words) < Len(text) => w \in LaterWords
  BY <1>1, WordTaken, Zenon DEF SetInv, WordStartsLine
<1>3. current_line \in Seq(Printable) /\ current_width = TextWidth(current_line)
  BY DEF SetInv, WrapTypes
<1>4. PICK s \in Seq(Printable) : s = current_line /\ s # <<>>
  BY <1>3 DEF WordStartsLine
<1>5. /\ rest = <<>> /\ rest' = <<>> /\ lines' = Append(lines, s)
      /\ current_line' = w /\ current_width' = TextWidth(w) /\ WidthWith(w) > MaxWidth
  BY <1>1, <1>4 DEF WordStartsLine, NextWord
<1>6. Fits(s) /\ (lines # <<>> => NoRoom(lines[Len(lines)], s))
  BY <1>4, Zenon DEF LastLineInv
<1>7. WrapTypes /\ LinesFit /\ LinesAreFull
  BY DEF SetInv, WellWrapped
<1>8. /\ lines' \in Seq(Seq(Printable)) /\ lines' # <<>> /\ LinesFit' /\ LinesAreFull'
      /\ FlattenSeq(lines') = FlattenSeq(lines) \o s
      /\ lines'[Len(lines')] = s
  BY <1>2, <1>4, <1>5, <1>6, <1>7, LineAdded, Zenon
<1>9. WrapTypes'
  <2>1. w \in Seq(Printable) /\ text' \in Seq(Words) /\ rest' \in Seq(Chars)
    BY <1>2, <1>5, <1>7, WordIs DEF WrapTypes
  <2> QED
    BY <1>2, <1>5, <1>8, <2>1, Zenon DEF WrapTypes
<1>10. TextIsKept'
  <2>1. FlattenSeq(lines') \o current_line' = (FlattenSeq(lines) \o current_line) \o w
    BY <1>4, <1>5, <1>8, Zenon
  <2>2. PICK f \in Seq(Chars) : f = FlattenSeq(words')
    BY <1>2, FlattenIsText, WordsAreText
  <2>3. <<>> \o f = f /\ w \o f \in Seq(Chars)
    BY ConcatEmptySeq, ConcatProperties, WordIs
  <2>4. <<>> \o (w \o f) = w \o f
    BY <2>3, ConcatEmptySeq
  <2>5. rest \o FlattenSeq(words) = Letters(w) \o (rest' \o FlattenSeq(words'))
    BY <1>2, <1>5, <2>2, <2>3, <2>4, WordIs, Zenon
  <2> QED
    BY <1>2, <1>9, <2>1, <2>5, KeptStep, WordIs, Zenon DEF SetInv, WellWrapped
<1>11. LastLineInv'
  <2>1. Fits(current_line)'
    <3>1. Len(words) < Len(text)
      BY <1>4, Zenon DEF LastLineInv
    <3> QED
      BY <1>2, <1>5, <3>1, Zenon DEF Fits, LaterWords
  <2>2. NoRoom(s, w)
    <3>1. TextWidth(w) \in Nat /\ TextWidth(s) \in Nat /\ CharAdvance(Space) \in Nat
      BY SpaceAndWord, WidthIsNat
    <3>2. FirstOf(w) = w
      BY WordIs
    <3> QED
      BY <1>3, <1>4, <1>5, <3>1, <3>2, FontAssumption DEF NoRoom, WidthWith
  <2>3. current_line' # <<>>
    BY <1>5, WordIs
  <2> QED
    BY <1>2, <1>5, <1>8, <2>1, <2>2, <2>3, Zenon DEF LastLineInv
<1> QED
  BY <1>2, <1>8, <1>9, <1>10, <1>11, Zenon DEF SetInv, WellWrapped

LEMMA WrapEndsStep ==
    ASSUME SetInv, LastLineInv, WrapEnds
    PROVE  SetInv' /\ lines' # <<>>
<1>1. PICK s \in Seq(Printable) : s = current_line
  BY DEF SetInv, WrapTypes
<1>2. /\ rest = <<>> /\ words = <<>> /\ UNCHANGED <<text, words, rest>>
      /\ current_line' = <<>> /\ current_width' = 0
      /\ lines' = IF s # <<>> \/ lines = <<>> THEN Append(lines, s) ELSE lines
  BY <1>1 DEF WrapEnds
<1>3. lines # <<>> => s # <<>>
  BY <1>1 DEF LastLineInv
<1>4. lines' = Append(lines, s)
  BY <1>2, <1>3
<1>5. Fits(s) /\ (s = <<>> => text = <<>>)
  <2>1. CASE s = <<>>
    <3>1. ~(Len(words) < Len(text)) /\ Len(words) = 0 /\ text \in Seq(Words)
      BY <1>1, <1>2, <2>1 DEF LastLineInv, SetInv, WrapTypes
    <3>2. text = <<>>
      BY <3>1, EmptySeq, LenProperties
    <3>3. TextWidth(s) <= MaxWidth
      BY <2>1, WidthOfEmpty, FontAssumption
    <3> QED
      BY <3>2, <3>3 DEF Fits
  <2>2. CASE s # <<>>
    BY <1>1, <2>2 DEF LastLineInv
  <2> QED
    BY <2>1, <2>2
<1>6. lines # <<>> => NoRoom(lines[Len(lines)], s)
  BY <1>1, Zenon DEF LastLineInv
<1>7. WrapTypes /\ LinesFit /\ LinesAreFull /\ text' = text
  BY <1>2 DEF SetInv, WellWrapped
<1>8. /\ lines' \in Seq(Seq(Printable)) /\ lines' # <<>> /\ LinesFit' /\ LinesAreFull'
      /\ FlattenSeq(lines') = FlattenSeq(lines) \o s
  BY <1>4, <1>5, <1>6, <1>7, LineAdded, Zenon
<1>9. WrapTypes' /\ WordsLeft'
  BY <1>2, <1>7, <1>8, EmptySeq, WidthOfEmpty DEF WrapTypes, WordsLeft, SetInv
<1>10. TextIsKept'
  <2>1. FlattenSeq(lines) \o s \in Seq(Printable)
    BY FlattenIsText, ConcatProperties DEF SetInv, WrapTypes
  <2>2. (FlattenSeq(lines) \o s) \o <<>> = FlattenSeq(lines) \o s
    BY <2>1, ConcatEmptySeq
  <2>3. TextIsKept
    BY DEF SetInv, WellWrapped
  <2> QED
    BY <1>1, <1>2, <1>8, <2>2, <2>3, Zenon DEF TextIsKept
<1> QED
  BY <1>8, <1>9, <1>10, Zenon DEF SetInv, WellWrapped

LEMMA WrapBeginsStep ==
    ASSUME NEW t \in Texts, WrapBegins(t)
    PROVE  SetInv' /\ LastLineInv'
<1>1. /\ text' = t /\ words' = t /\ rest' = <<>> /\ current_line' = <<>>
      /\ current_width' = 0 /\ lines' = <<>> /\ t \in Seq(Words)
  BY FontAssumption DEF WrapBegins, Words
<1>2. WrapTypes'
  BY <1>1, EmptySeq, WidthOfEmpty DEF WrapTypes
<1>3. PICK len \in Nat : len = Len(t)
  BY <1>1, LenProperties
<1>4. WordsLeft'
  BY <1>1, <1>3 DEF WordsLeft
<1>5. DOMAIN lines' = {} /\ Len(lines') = 0
  BY <1>1, EmptySeq
<1>6. LinesFit' /\ LinesAreFull'
  BY <1>5 DEF LinesFit, LinesAreFull
<1>7. TextIsKept'
  <2>1. PICK f \in Seq(Chars) : f = FlattenSeq(t)
    BY <1>1, FlattenIsText, WordsAreText
  <2>2. <<>> \o <<>> = <<>> /\ <<>> \o f = f
    <3>1. <<>> \in Seq(Chars)
      BY EmptySeq
    <3> QED
      BY <3>1, ConcatEmptySeq
  <2> QED
    BY <1>1, <2>1, <2>2, FlattenOfEmpty, LettersOfEmpty, Zenon DEF TextIsKept
<1>8. LastLineInv'
  BY <1>1, <1>3 DEF LastLineInv
<1> QED
  BY <1>2, <1>4, <1>6, <1>7, <1>8, Zenon DEF SetInv, WellWrapped

\* The invariant's other half: the type invariant, of a text that is given.
LEMMA SuffixOfText ==
    ASSUME WrapTypes, WordsLeft
    PROVE  IsSuffix(words, text)
<1>1. PICK len \in Nat, left \in Nat : len = Len(text) /\ left = Len(words)
  BY LenProperties DEF WrapTypes
<1>2. left <= len /\ \A n \in 1 .. left : words[n] = text[len - left + n]
  BY <1>1 DEF WordsLeft
<1>3. PICK u \in Seq(Words), v \in Seq(Words) : u = text /\ v = words
  BY DEF WrapTypes
<1>4. PICK ru : ru = Reverse(u)
  OBVIOUS
<1>5. PICK rv : rv = Reverse(v)
  OBVIOUS
<1>6. /\ ru \in Seq(Words) /\ Len(ru) = len /\ rv \in Seq(Words) /\ Len(rv) = left
      /\ \A n \in 1 .. len : ru[n] = u[len - n + 1]
      /\ \A n \in 1 .. left : rv[n] = v[left - n + 1]
  <2>1. ru = [n \in 1 .. len |-> u[(len - n) + 1]]
    BY <1>1, <1>3, <1>4 DEF Reverse
  <2>2. rv = [n \in 1 .. left |-> v[(left - n) + 1]]
    BY <1>1, <1>3, <1>5 DEF Reverse
  <2>3. \A n \in 1 .. len : u[(len - n) + 1] \in Words
    BY <1>1, <1>3, ElementOfSeq
  <2>4. \A n \in 1 .. left : v[(left - n) + 1] \in Words
    BY <1>1, <1>3, ElementOfSeq
  <2>5. ru \in Seq(Words) /\ Len(ru) = len
    BY <2>1, <2>3, IsASeq
  <2>6. rv \in Seq(Words) /\ Len(rv) = left
    BY <2>2, <2>4, IsASeq
  <2> QED
    BY <2>1, <2>2, <2>5, <2>6
<1>7. \A n \in 1 .. left : rv[n] = ru[n]
  <2> TAKE n \in 1 .. left
  <2>1. rv[n] = v[left - n + 1] /\ ru[n] = u[len - n + 1] /\ left - n + 1 \in 1 .. left
    BY <1>2, <1>6
  <2>2. v[left - n + 1] = u[len - left + (left - n + 1)]
    BY <1>2, <1>3, <2>1
  <2>3. len - left + (left - n + 1) = len - n + 1
    OBVIOUS
  <2> QED
    BY <2>1, <2>2, <2>3
<1>8. SubSeq(rv, 1, left) = SubSeq(ru, 1, left)
  BY <1>2, <1>6, <1>7, SameFirstPart
<1> QED
  BY <1>2, <1>3, <1>4, <1>5, <1>6, <1>8 DEF IsSuffix, IsPrefix

-----------------------------------------------------------------------------
(* Pages: division by a size that is any number *)

\* A quotient and remainder are the ones.
LEMMA DivisionIsUnique ==
    ASSUME NEW size \in Nat \ {0}, NEW q \in Int, NEW r \in 0 .. size - 1
    PROVE  (q * size + r) \div size = q /\ (q * size + r) % size = r
<1> DEFINE x == q * size + r
           d == x \div size
           m == x % size
<1>1. x \in Int /\ d \in Int /\ m \in 0 .. size - 1 /\ x = size * d + m
  BY SMT
<1>2. (q - d) * size = m - r
  BY <1>1, SMT
<1>3. q - d \in Int /\ m - r < size /\ r - m < size
  BY <1>1, SMT
<1>4. CASE q - d >= 1
  <2>1. (q - d) * size >= size
    BY <1>3, <1>4, SMT
  <2> QED
    BY <2>1, <1>2, <1>3, <1>1, SMT
<1>5. CASE q - d <= -1
  <2>1. (d - q) * size >= size
    BY <1>1, <1>5, SMT
  <2>2. (d - q) * size = r - m
    BY <1>1, <1>2, SMT
  <2> QED
    BY <2>1, <2>2, <1>3, <1>1, SMT
<1>6. q = d
  BY <1>1, <1>4, <1>5, SMT
<1> QED
  BY <1>1, <1>2, <1>6, SMT

\* Quotient and remainder of a natural number.
LEMMA Division ==
    ASSUME NEW size \in Nat \ {0}, NEW n \in Nat
    PROVE  /\ n \div size \in Nat
           /\ n % size \in 0 .. size - 1
           /\ n = (n \div size) * size + (n % size)
<1> DEFINE d == n \div size
           m == n % size
<1>1. d \in Int /\ m \in 0 .. size - 1 /\ n = size * d + m
  BY SMT
<1>2. d >= 0
  <2> SUFFICES ASSUME d <= -1
               PROVE  FALSE
    BY <1>1, SMT
  <2>1. size * d <= -size
    BY <1>1, SMT
  <2> QED
    BY <2>1, <1>1, SMT
<1> QED
  BY <1>1, <1>2, SMT

\* A number of bytes in the first pages takes at least one page, and no more
\* than the bytes below it need.
LEMMA PagesOf ==
    ASSUME NEW size \in Nat \ {0}, NEW bytes \in Nat \ {0}
    PROVE  /\ (bytes + size - 1) \div size \in Nat \ {0}
           /\ \A b \in 0 .. bytes - 1 :
                 b \div size \in 0 .. (bytes + size - 1) \div size - 1
<1> DEFINE pages == (bytes + size - 1) \div size
           last == (bytes + size - 1) % size
<1>1. pages \in Int /\ last \in 0 .. size - 1 /\ bytes + size - 1 = size * pages + last
  BY SMT
<1>2. pages >= 1
  <2> SUFFICES ASSUME pages <= 0
               PROVE  FALSE
    BY <1>1, SMT
  <2>1. size * pages <= 0
    BY <1>1, SMT
  <2> QED
    BY <2>1, <1>1, SMT
<1>3. ASSUME NEW b \in 0 .. bytes - 1
      PROVE  b \div size \in 0 .. pages - 1
  <2> DEFINE page == b \div size
             remainder == b % size
  <2>1. page \in Nat /\ remainder \in 0 .. size - 1 /\ b = page * size + remainder
    BY Division
  <2>2. page <= pages - 1
    <3> SUFFICES ASSUME page >= pages
                 PROVE  FALSE
      BY <2>1, <1>1, SMT
    <3>1. size * page >= size * pages
      BY <2>1, <1>1, SMT
    <3> QED
      BY <3>1, <2>1, <1>1, SMT
  <2> QED
    BY <2>1, <2>2, <1>1, SMT
<1> QED
  BY <1>1, <1>2, <1>3, SMT

\* The region's pages: at least one, and enough for its bytes.
LEMMA RegionPages ==
    ASSUME region \in Regions
    PROVE  /\ num_pages \in Nat \ {0}
           /\ intra_page \in 0 .. MMU_PAGE_SIZE - 1
           /\ region.offset \div MMU_PAGE_SIZE \in Nat
           /\ region.offset = (region.offset \div MMU_PAGE_SIZE) * MMU_PAGE_SIZE + intra_page
           /\ \A b \in 0 .. intra_page + region.len - 1 :
                 b \div MMU_PAGE_SIZE \in 0 .. num_pages - 1
<1>1. MMU_PAGE_SIZE \in Nat \ {0} /\ region.offset \in Nat /\ region.len \in Nat \ {0}
  BY TableAssumption
<1>2. /\ intra_page \in 0 .. MMU_PAGE_SIZE - 1
      /\ region.offset \div MMU_PAGE_SIZE \in Nat
      /\ region.offset = (region.offset \div MMU_PAGE_SIZE) * MMU_PAGE_SIZE + intra_page
  BY <1>1, Division DEF intra_page
<1>3. intra_page + region.len \in Nat \ {0}
  BY <1>1, <1>2
<1>4. /\ num_pages \in Nat \ {0}
      /\ \A b \in 0 .. intra_page + region.len - 1 :
            b \div MMU_PAGE_SIZE \in 0 .. num_pages - 1
  <2>1. PICK bytes \in Nat \ {0} : bytes = intra_page + region.len
    BY <1>3
  <2>2. num_pages = (bytes + MMU_PAGE_SIZE - 1) \div MMU_PAGE_SIZE
    BY <2>1 DEF num_pages
  <2>3. /\ num_pages \in Nat \ {0}
        /\ \A b \in 0 .. bytes - 1 : b \div MMU_PAGE_SIZE \in 0 .. num_pages - 1
    BY <1>1, <2>2, PagesOf
  <2>4. intra_page + region.len - 1 = bytes - 1
    BY <1>1, <1>2, <2>1
  <2> QED
    BY <2>3, <2>4
<1> QED
  BY <1>1, <1>2, <1>4

-----------------------------------------------------------------------------
(* The scan *)

\* While the scan goes on, and when it has found a run, the last run_len
\* entries before i are free.
RunIsFree ==
    /\ run_len <= i
    /\ run_len > 0 => run_start = i - run_len
    /\ mmu \in {"scanning", "found"} => \A n \in i - run_len .. i - 1 : table[n] = Free

\* The run could not have begun earlier, it is not long enough yet, and no run
\* that is long enough ends before i.
NothingMissed ==
    mmu = "scanning" =>
        /\ run_len < num_pages
        /\ run_len < i => table[i - run_len - 1] # Free
        /\ \A s \in Slots : s + num_pages <= i =>
              \E n \in s .. s + num_pages - 1 : table[n] # Free

\* What was mapped are the region's pages, one after the other.
PagesInOrder ==
    mmu = "mapped" =>
        \A k \in 0 .. num_pages - 1 :
            table[run_start + k] = region.offset \div MMU_PAGE_SIZE + k

\* The inductive invariant.
ScanInv ==
    /\ FlashTypeOK
    /\ RunIsFree
    /\ NothingMissed
    /\ mmu = "found" => run_len >= num_pages
    /\ PagesInOrder
    /\ PanicsOnlyIfFull

USE DEF Slots, usable

LEMMA InitInv == FlashInit => ScanInv
<1> SUFFICES ASSUME FlashInit
             PROVE  ScanInv
  OBVIOUS
<1>1. num_pages \in Nat \ {0}
  BY RegionPages DEF FlashInit
<1> QED
  BY <1>1, TableAssumption
  DEF FlashInit, ScanInv, FlashTypeOK, RunIsFree, NothingMissed, PagesInOrder, PanicsOnlyIfFull

LEMMA TypeStep ==
    ASSUME ScanInv, [FlashNext]_flashVars
    PROVE  FlashTypeOK'
<1> USE TableAssumption DEF FlashTypeOK, ScanInv, RunIsFree
<1>1. CASE ScanFree
  BY <1>1 DEF ScanFree
<1>2. CASE ScanTaken
  BY <1>2 DEF ScanTaken
<1>3. CASE ScanPanics
  BY <1>3 DEF ScanPanics
<1>4. CASE MapPages
  <2>1. PICK first \in Nat : first = region.offset \div MMU_PAGE_SIZE
    BY RegionPages
  <2>2. table' = [s \in Slots |->
                    IF run_start <= s /\ s < run_start + num_pages
                    THEN first + (s - run_start) ELSE table[s]]
    BY <1>4, <2>1 DEF MapPages
  <2>3. table' \in [Slots -> Nat \union {Free, Taken}]
    BY <2>1, <2>2
  <2> QED
    BY <1>4, <2>3 DEF MapPages
<1>5. CASE MapPanics
  BY <1>5 DEF MapPanics
<1>6. CASE UNCHANGED flashVars
  BY <1>6 DEF flashVars
<1> QED
  BY <1>1, <1>2, <1>3, <1>4, <1>5, <1>6 DEF FlashNext

\* The arguments stay as they are.
LEMMA SameRegion ==
    ASSUME [FlashNext]_flashVars
    PROVE  /\ region' = region
           /\ num_pages' = num_pages
           /\ intra_page' = intra_page
<1>1. region' = region
  BY DEF FlashNext, ScanFree, ScanTaken, ScanPanics, MapPages, MapPanics, flashVars
<1> QED
  BY <1>1 DEF num_pages, intra_page

\* A free entry lengthens the run, or begins one just before i.
LEMMA ScanFreeStep ==
    ASSUME ScanInv, ScanFree
    PROVE  /\ RunIsFree' /\ NothingMissed' /\ PagesInOrder' /\ PanicsOnlyIfFull'
           /\ mmu' = "found" => run_len' >= num_pages'
<1>1. num_pages' = num_pages /\ num_pages \in Nat \ {0}
  BY SameRegion, RegionPages DEF FlashNext, ScanInv, FlashTypeOK
<1>2. /\ i' = i + 1 /\ run_len' = run_len + 1 /\ table' = table /\ table[i] = Free
      /\ run_start' = IF run_len = 0 THEN i ELSE run_start
      /\ mmu = "scanning"
      /\ mmu' = IF run_len + 1 >= num_pages THEN "found" ELSE "scanning"
  BY DEF ScanFree
<1>3. /\ i \in Nat /\ run_len \in Nat /\ run_start \in Nat
      /\ run_len <= i
      /\ run_len > 0 => run_start = i - run_len
      /\ \A n \in i - run_len .. i - 1 : table[n] = Free
  BY <1>2, TableAssumption DEF ScanInv, FlashTypeOK, RunIsFree
<1>4. RunIsFree'
  <2>1. i' - run_len' = i - run_len /\ i' - 1 = i
    BY <1>2, <1>3
  <2>2. \A n \in i - run_len .. i : table[n] = Free
    BY <1>2, <1>3
  <2>3. \A n \in i' - run_len' .. i' - 1 : table'[n] = Free
    BY <1>2, <2>1, <2>2
  <2> QED
    BY <1>2, <1>3, <2>3 DEF RunIsFree
<1>5. NothingMissed'
  <2> SUFFICES ASSUME run_len + 1 < num_pages
               PROVE  /\ run_len' < i' => table[i' - run_len' - 1] # Free
                      /\ \A s \in Slots : s + num_pages <= i' =>
                            \E n \in s .. s + num_pages - 1 : table[n] # Free
    BY <1>1, <1>2, <1>3 DEF NothingMissed
  <2>1. run_len < i => table[i - run_len - 1] # Free
    BY <1>2 DEF ScanInv, NothingMissed
  <2>2. run_len' < i' => table[i' - run_len' - 1] # Free
    BY <1>2, <1>3, <2>1
  <2>3. ASSUME NEW s \in Slots, s + num_pages <= i'
        PROVE  \E n \in s .. s + num_pages - 1 : table[n] # Free
    <3>1. CASE s + num_pages <= i
      BY <3>1, <1>2 DEF ScanInv, NothingMissed
    <3>2. CASE s + num_pages = i + 1
      <4>1. run_len < i /\ i - run_len - 1 \in s .. s + num_pages - 1
        BY <3>2, <1>1, <1>3, TableAssumption
      <4> QED
        BY <4>1, <2>1
    <3> QED
      BY <3>1, <3>2, <2>3, <1>1, <1>2, <1>3, TableAssumption
  <2> QED
    BY <2>2, <2>3
<1>6. PagesInOrder' /\ PanicsOnlyIfFull'
  BY <1>2 DEF PagesInOrder, PanicsOnlyIfFull
<1> QED
  BY <1>1, <1>2, <1>3, <1>4, <1>5, <1>6

\* A taken entry ends the run; every run through it is none.
LEMMA ScanTakenStep ==
    ASSUME ScanInv, ScanTaken
    PROVE  /\ RunIsFree' /\ NothingMissed' /\ PagesInOrder' /\ PanicsOnlyIfFull'
           /\ mmu' = "found" => run_len' >= num_pages'
<1>1. num_pages' = num_pages /\ num_pages \in Nat \ {0}
  BY SameRegion, RegionPages DEF FlashNext, ScanInv, FlashTypeOK
<1>2. /\ i' = i + 1 /\ run_len' = 0 /\ table' = table /\ table[i] # Free
      /\ mmu = "scanning" /\ mmu' = mmu /\ i \in Nat
  BY TableAssumption DEF ScanTaken, ScanInv, FlashTypeOK
<1>3. RunIsFree'
  BY <1>2 DEF RunIsFree
<1>4. NothingMissed'
  <2>1. ASSUME NEW s \in Slots, s + num_pages <= i'
        PROVE  \E n \in s .. s + num_pages - 1 : table[n] # Free
    <3>1. CASE s + num_pages <= i
      BY <3>1, <1>2 DEF ScanInv, NothingMissed
    <3>2. CASE s + num_pages = i + 1
      <4>1. i \in s .. s + num_pages - 1
        BY <3>2, <1>1, <1>2, TableAssumption
      <4> QED
        BY <4>1, <1>2
    <3> QED
      BY <3>1, <3>2, <2>1, <1>1, <1>2, TableAssumption
  <2> QED
    BY <1>1, <1>2, <2>1 DEF NothingMissed
<1>5. PagesInOrder' /\ PanicsOnlyIfFull'
  BY <1>2 DEF PagesInOrder, PanicsOnlyIfFull
<1> QED
  BY <1>1, <1>2, <1>3, <1>4, <1>5

\* The scan panics at the end of the table: no run that is long enough ended
\* before it.
LEMMA ScanPanicsStep ==
    ASSUME ScanInv, ScanPanics
    PROVE  PanicsOnlyIfFull'
<1>1. num_pages' = num_pages /\ region' = region
  BY SameRegion DEF FlashNext
<1>2. table' = table /\ mmu = "scanning" /\ i = usable
  BY DEF ScanPanics
<1>3. \A s \in Slots : ~FreeRun(s)
  BY <1>2 DEF ScanInv, NothingMissed, FreeRun
<1> QED
  BY <1>1, <1>2, <1>3 DEF PanicsOnlyIfFull, FreeRun

\* The pages of a run that was found are mapped in order, over free entries.
LEMMA MapPagesStep ==
    ASSUME ScanInv, MapPages
    PROVE  /\ PagesInOrder'
           /\ \A s \in Slots : table'[s] # table[s] => table[s] = Free /\ s # usable
<1>1. /\ num_pages' = num_pages /\ region' = region
      /\ num_pages \in Nat \ {0}
  BY SameRegion, RegionPages DEF FlashNext, ScanInv, FlashTypeOK
<1>2. PICK first \in Nat : first = region.offset \div MMU_PAGE_SIZE
  BY RegionPages DEF ScanInv, FlashTypeOK
<1>3. /\ table' = [s \in Slots |->
                     IF run_start <= s /\ s < run_start + num_pages
                     THEN first + (s - run_start) ELSE table[s]]
      /\ run_start' = run_start /\ mmu = "found"
  BY <1>2 DEF MapPages
<1>4. /\ run_start \in Nat /\ run_len \in Nat /\ i \in 0 .. usable
      /\ run_len >= num_pages /\ run_start = i - run_len
      /\ \A n \in i - run_len .. i - 1 : table[n] = Free
  BY <1>1, <1>3, TableAssumption DEF ScanInv, FlashTypeOK, RunIsFree
<1>5. ASSUME NEW k \in 0 .. num_pages - 1
      PROVE  table'[run_start + k] = first + k
  <2>1. /\ run_start + k \in Slots
        /\ run_start <= run_start + k /\ run_start + k < run_start + num_pages
        /\ (run_start + k) - run_start = k
    BY <1>1, <1>4, TableAssumption
  <2> QED
    BY <1>3, <2>1
<1>6. PagesInOrder'
  BY <1>1, <1>2, <1>3, <1>5 DEF PagesInOrder
<1>7. ASSUME NEW s \in Slots, table'[s] # table[s]
      PROVE  table[s] = Free /\ s # usable
  <2>1. run_start <= s /\ s < run_start + num_pages
    BY <1>3, <1>7
  <2>2. s \in i - run_len .. i - 1
    BY <1>1, <1>4, <2>1, TableAssumption
  <2> QED
    BY <1>4, <2>2, TableAssumption
<1> QED
  BY <1>6, <1>7

LEMMA NextInv ==
    ASSUME ScanInv, [FlashNext]_flashVars
    PROVE  ScanInv'
<1>1. FlashTypeOK'
  BY TypeStep
<1>2. num_pages' = num_pages /\ region' = region
  BY SameRegion
<1>3. CASE ScanFree
  BY <1>1, <1>3, ScanFreeStep DEF ScanInv
<1>4. CASE ScanTaken
  BY <1>1, <1>4, ScanTakenStep DEF ScanInv
<1>5. CASE ScanPanics
  <2>1. RunIsFree' /\ NothingMissed' /\ PagesInOrder' /\ mmu' = "panicked"
    BY <1>5 DEF ScanPanics, ScanInv, RunIsFree, NothingMissed, PagesInOrder
  <2> QED
    BY <1>1, <1>5, <2>1, ScanPanicsStep DEF ScanInv
<1>6. CASE MapPages
  <2>1. RunIsFree' /\ NothingMissed' /\ PanicsOnlyIfFull' /\ mmu' = "mapped"
    BY <1>6 DEF MapPages, ScanInv, RunIsFree, NothingMissed, PanicsOnlyIfFull
  <2> QED
    BY <1>1, <1>6, <2>1, MapPagesStep DEF ScanInv
<1>7. CASE MapPanics
  <2>1. num_pages \in Nat /\ run_len \in Nat /\ run_len >= num_pages
    BY <1>7, RegionPages, TableAssumption DEF MapPanics, ScanInv, FlashTypeOK
  <2> QED
    BY <1>1, <1>2, <1>7, <2>1
    DEF MapPanics, ScanInv, RunIsFree, NothingMissed, PagesInOrder, PanicsOnlyIfFull
<1>8. CASE UNCHANGED flashVars
  BY <1>1, <1>2, <1>8
  DEF flashVars, ScanInv, RunIsFree, NothingMissed, PagesInOrder, PanicsOnlyIfFull, FreeRun
<1> QED
  BY <1>3, <1>4, <1>5, <1>6, <1>7, <1>8 DEF FlashNext

LEMMA ScanInvHolds == FlashSpec => []ScanInv
BY InitInv, NextInv, PTL DEF FlashSpec

-----------------------------------------------------------------------------
\* Whatever the table and the region, no entry in use is written, and never
\* the bootloader's.
THEOREM NothingIsClobbered == FlashSpec => NothingClobbered
<1>1. ASSUME ScanInv, [FlashNext]_flashVars
      PROVE  \A s \in Slots : table'[s] # table[s] => table[s] = Free /\ s # usable
  BY <1>1, MapPagesStep DEF FlashNext, ScanFree, ScanTaken, ScanPanics, MapPanics, flashVars
<1> QED
  BY <1>1, ScanInvHolds, PTL DEF FlashSpec, NothingClobbered

\* An address in the slice: both it and its place in flash are a page and the
\* same rest of a page.
LEMMA SameRest ==
    ASSUME region \in Regions, run_start \in Nat,
           NEW b \in 0 .. region.len - 1
    PROVE  LET k == (intra_page + b) \div MMU_PAGE_SIZE
               v == run_start * MMU_PAGE_SIZE + intra_page + b
               f == region.offset + b
           IN  /\ k \in 0 .. num_pages - 1
               /\ v \div MMU_PAGE_SIZE = run_start + k
               /\ f \div MMU_PAGE_SIZE = (region.offset \div MMU_PAGE_SIZE) + k
               /\ v % MMU_PAGE_SIZE = f % MMU_PAGE_SIZE
<1>1. /\ MMU_PAGE_SIZE \in Nat \ {0} /\ region.offset \in Nat /\ region.len \in Nat \ {0}
      /\ b \in Nat /\ intra_page \in Nat
  BY TableAssumption, RegionPages
<1>2. PICK first \in Nat :
        /\ first = region.offset \div MMU_PAGE_SIZE
        /\ region.offset = first * MMU_PAGE_SIZE + intra_page
  BY RegionPages
<1>3. PICK x \in Nat : x = intra_page + b
  BY <1>1
<1>4. x \in 0 .. intra_page + region.len - 1
  BY <1>1, <1>3
<1>5. PICK k \in Nat, r \in 0 .. MMU_PAGE_SIZE - 1 :
        /\ k = x \div MMU_PAGE_SIZE
        /\ x = k * MMU_PAGE_SIZE + r
  BY <1>1, Division
<1>6. k \in 0 .. num_pages - 1
  BY <1>4, <1>5, RegionPages
<1>7. ASSUME NEW q \in Nat
      PROVE  /\ (q * MMU_PAGE_SIZE + x) \div MMU_PAGE_SIZE = q + k
             /\ (q * MMU_PAGE_SIZE + x) % MMU_PAGE_SIZE = r
  <2>1. PICK page \in Int : page = q + k
    OBVIOUS
  <2>2. page * MMU_PAGE_SIZE + r = q * MMU_PAGE_SIZE + x
    BY <1>1, <1>5, <2>1, SMT
  <2>3. /\ (page * MMU_PAGE_SIZE + r) \div MMU_PAGE_SIZE = page
        /\ (page * MMU_PAGE_SIZE + r) % MMU_PAGE_SIZE = r
    BY <1>1, DivisionIsUnique
  <2> QED
    BY <2>1, <2>2, <2>3
<1>8. run_start * MMU_PAGE_SIZE + intra_page + b = run_start * MMU_PAGE_SIZE + x
  BY <1>1, <1>3, SMT
<1>9. region.offset + b = first * MMU_PAGE_SIZE + x
  BY <1>1, <1>2, <1>3, SMT
<1>10. /\ (run_start * MMU_PAGE_SIZE + x) \div MMU_PAGE_SIZE = run_start + k
       /\ (run_start * MMU_PAGE_SIZE + x) % MMU_PAGE_SIZE = r
       /\ (first * MMU_PAGE_SIZE + x) \div MMU_PAGE_SIZE = first + k
       /\ (first * MMU_PAGE_SIZE + x) % MMU_PAGE_SIZE = r
  BY <1>7
<1> QED
  BY <1>2, <1>3, <1>5, <1>6, <1>8, <1>9, <1>10, Zenon

\* A run that is long enough is found wherever it is, and the slice shows the
\* region byte by byte, for every page size and every offset within a page.
THEOREM FontIsFoundAndMapped == FlashSpec => []FontIsMapped
<1>1. ASSUME ScanInv
      PROVE  FontIsMapped
  <2> SUFFICES ASSUME mmu = "mapped", NEW b \in 0 .. region.len - 1
               PROVE  LET v == run_start * MMU_PAGE_SIZE + intra_page + b
                          f == region.offset + b
                      IN  /\ table[v \div MMU_PAGE_SIZE] = f \div MMU_PAGE_SIZE
                          /\ v % MMU_PAGE_SIZE = f % MMU_PAGE_SIZE
    BY <1>1 DEF FontIsMapped, SliceShowsFlash, ScanInv
  <2>1. region \in Regions /\ run_start \in Nat
    BY <1>1, TableAssumption DEF ScanInv, FlashTypeOK
  <2>2. \A k \in 0 .. num_pages - 1 :
          table[run_start + k] = (region.offset \div MMU_PAGE_SIZE) + k
    BY <1>1 DEF ScanInv, PagesInOrder
  <2> QED
    BY <2>1, <2>2, SameRest, Zenon
<1> QED
  BY <1>1, ScanInvHolds, PTL

-----------------------------------------------------------------------------
(* The eviction *)

\* The inductive invariant: the stamps tell the glyphs apart, and the next
\* stamp is a new one.
CacheInv ==
    /\ IsFiniteSet(Cached)
    /\ access_counter \in Nat
    /\ \A g \in Cached : cache[g] \in Nat /\ cache[g] < access_counter
    /\ CacheServes

\* There is one least recently used glyph.
LEMMA OneIsEvicted ==
    ASSUME CacheInv, Cached # {}
    PROVE  \E old \in Cached : LeastRecentlyUsed = {old}
<1> DEFINE stamps == {cache[g] : g \in Cached}
<1>1. stamps \subseteq Nat /\ stamps # {}
  BY DEF CacheInv
<1>2. PICK least \in stamps : \A s \in stamps : least <= s
  BY <1>1, LeastExists
<1>3. PICK old \in Cached : cache[old] = least
  BY <1>2
<1>4. old \in LeastRecentlyUsed
  BY <1>2, <1>3 DEF LeastRecentlyUsed
<1>5. ASSUME NEW g \in LeastRecentlyUsed
      PROVE  g = old
  <2>1. g \in Cached /\ cache[g] <= cache[old] /\ cache[old] <= cache[g]
    BY <1>4 DEF LeastRecentlyUsed
  <2>2. cache[g] = cache[old]
    BY <2>1 DEF CacheInv
  <2> QED
    BY <2>1, <2>2 DEF CacheInv, CacheServes, CacheWithinLimit
<1> QED
  BY <1>4, <1>5

\* What a new stamp does to a cache that has room for it.
LEMMA StampStep ==
    ASSUME CacheInv, NEW c, NEW g,
           DOMAIN c \subseteq Cached,
           \A h \in DOMAIN c : c[h] = cache[h],
           Cardinality(DOMAIN c \union {g}) <= max_cache_size,
           cache' = Stamped(c, g),
           access_counter' = access_counter + 1,
           wanted' = {g}
    PROVE  CacheInv'
<1>1. /\ DOMAIN cache' = DOMAIN c \union {g}
      /\ \A h \in DOMAIN cache' :
            cache'[h] = IF h = g THEN access_counter ELSE cache[h]
  BY DEF Stamped
<1>2. IsFiniteSet(DOMAIN cache')
  <2>1. IsFiniteSet(DOMAIN c)
    BY FS_Subset DEF CacheInv
  <2> QED
    BY <1>1, <2>1, FS_AddElement
<1>3. \A h \in DOMAIN cache' : cache'[h] \in Nat /\ cache'[h] < access_counter'
  BY <1>1 DEF CacheInv
<1>4. \A h, k \in DOMAIN cache' : cache'[h] = cache'[k] => h = k
  <2>1. \A h \in DOMAIN c : h \in Cached /\ cache[h] # access_counter
    BY DEF CacheInv
  <2>2. \A h, k \in Cached : cache[h] = cache[k] => h = k
    BY DEF CacheInv, CacheServes, CacheWithinLimit
  <2> QED
    BY <1>1, <2>1, <2>2
<1>5. CacheServes'
  BY <1>1, <1>4 DEF CacheServes, CacheWithinLimit, GlyphIsThere, Cached
<1> QED
  BY <1>2, <1>3, <1>5 DEF CacheInv, Cached

\* A hit leaves the glyphs as they are.
LEMMA HitStep ==
    ASSUME CacheInv, NEW g, EnsureHit(g)
    PROVE  CacheInv'
<1>1. Cached \union {g} = Cached /\ Cardinality(Cached) <= max_cache_size
  BY DEF EnsureHit, CacheInv, CacheServes, CacheWithinLimit
<1> QED
  BY <1>1, StampStep DEF EnsureHit, Cached

\* A miss takes the place of one glyph, or a free one.
LEMMA MissStep ==
    ASSUME CacheInv, NEW g, EnsureMiss(g)
    PROVE  CacheInv'
<1>1. /\ max_cache_size \in Nat \ {0}
      /\ Cardinality(Cached) \in Nat
      /\ Cardinality(Cached) <= max_cache_size
      /\ g \notin Cached /\ access_counter' = access_counter + 1 /\ wanted' = {g}
  BY CacheAssumption, FS_CardinalityType
  DEF CacheInv, CacheServes, CacheWithinLimit, EnsureMiss
<1>2. CASE Cardinality(Cached) >= max_cache_size
  <2>1. Cached # {}
    BY <1>1, <1>2, FS_EmptySet DEF CacheInv
  <2>2. PICK old \in Cached : LeastRecentlyUsed = {old}
    BY <2>1, OneIsEvicted
  <2> DEFINE c == Without({old})
  <2>3. cache' = Stamped(c, g)
    BY <1>2, <2>2 DEF EnsureMiss
  <2>4. /\ DOMAIN c = Cached \ {old}
        /\ \A h \in DOMAIN c : c[h] = cache[h]
    BY DEF Without
  <2>5. /\ IsFiniteSet(Cached \ {old})
        /\ Cardinality(Cached \ {old}) = Cardinality(Cached) - 1
    BY FS_RemoveElement DEF CacheInv
  <2>6. Cardinality((Cached \ {old}) \union {g}) = Cardinality(Cached \ {old}) + 1
    BY <1>1, <2>5, FS_AddElement
  <2>7. Cardinality((Cached \ {old}) \union {g}) <= max_cache_size
    BY <1>1, <2>5, <2>6
  <2>8. Cardinality(DOMAIN c \union {g}) <= max_cache_size
    BY <2>4, <2>7, Zenon
  <2> HIDE DEF c
  <2> QED
    BY <1>1, <2>3, <2>4, <2>8, StampStep
<1>3. CASE ~(Cardinality(Cached) >= max_cache_size)
  <2>1. cache' = Stamped(cache, g)
    BY <1>3 DEF EnsureMiss
  <2>2. Cardinality(Cached \union {g}) = Cardinality(Cached) + 1
    BY <1>1, FS_AddElement DEF CacheInv
  <2>3. Cardinality(DOMAIN cache \union {g}) <= max_cache_size
    BY <1>1, <1>3, <2>2 DEF Cached
  <2> QED
    BY <1>1, <2>1, <2>3, StampStep DEF Cached
<1> QED
  BY <1>2, <1>3

\* What the steps of the program do to the cache: ensure or get a glyph, or
\* nothing.
CacheStep == \E g : EnsureCached(g) \/ GetCached(g)

LEMMA CacheInit_Inv == CacheInit => CacheInv
<1> SUFFICES ASSUME CacheInit
             PROVE  CacheInv
  OBVIOUS
<1>1. Cached = {}
  BY DEF CacheInit, Cached
<1>2. IsFiniteSet(Cached) /\ Cardinality(Cached) = 0
  BY <1>1, FS_EmptySet
<1> QED
  BY <1>1, <1>2, CacheAssumption
  DEF CacheInit, CacheInv, CacheServes, CacheWithinLimit, GlyphIsThere

LEMMA CacheStep_Inv ==
    ASSUME CacheInv, CacheStep \/ UNCHANGED cacheVars
    PROVE  CacheInv'
<1>1. ASSUME NEW g, GetCached(g)
      PROVE  CacheInv'
  BY <1>1
  DEF GetCached, CacheInv, CacheServes, CacheWithinLimit, GlyphIsThere, Cached
<1>2. CASE UNCHANGED cacheVars
  BY <1>2
  DEF cacheVars, CacheInv, CacheServes, CacheWithinLimit, GlyphIsThere, Cached
<1> QED
  BY <1>1, <1>2, HitStep, MissStep DEF CacheStep, EnsureCached

-----------------------------------------------------------------------------
(* The font and the cache in the program *)

\* Every step of the program is one of the mapping, or leaves it alone.
LEMMA FlashSteps == [TextNext]_allVars => [FlashNext]_flashVars
BY DEF TextNext, allVars, flashVars, Flash, UpdateText, Wrap, RenderSection,
       SkipLine, EnsureGlyph, DrawGlyph, LineEnds, SectionEnds

\* And one of the cache, or leaves it alone.
LEMMA CacheSteps == [TextNext]_allVars => CacheStep \/ UNCHANGED cacheVars
BY DEF TextNext, allVars, cacheVars, CacheStep, Flash, UpdateText, Wrap,
       RenderSection, SkipLine, EnsureGlyph, DrawGlyph, LineEnds, SectionEnds

LEMMA TextMapsFlash == TextSpec => FlashSpec
<1>1. TextInit => FlashInit
  BY DEF TextInit
<1> QED
  BY <1>1, FlashSteps, PTL DEF TextSpec, FlashSpec

\* In the whole program, whatever it draws: nothing that is in use is mapped
\* over, and a font that fits is mapped byte by byte.
THEOREM TextClobbersNothing == TextSpec => NothingClobbered
BY TextMapsFlash, NothingIsClobbered, PTL

THEOREM TextFindsFont == TextSpec => []FontIsMapped
BY TextMapsFlash, FontIsFoundAndMapped, PTL

\* Whatever is drawn, the cache stays within its limit, and the glyph that
\* draw_text is about to use is in it.
THEOREM GlyphsAreServed == TextSpec => []CacheServes
<1>1. TextInit => CacheInv
  BY CacheInit_Inv DEF TextInit
<1>2. CacheInv /\ [TextNext]_allVars => CacheInv'
  BY CacheSteps, CacheStep_Inv
<1>3. CacheInv => CacheServes
  BY DEF CacheInv
<1> QED
  BY <1>1, <1>2, <1>3, PTL DEF TextSpec

-----------------------------------------------------------------------------
(* What is drawn *)

\* The width of a line's first characters.
LEMMA WidthOfFirst ==
    ASSUME NEW s \in Seq(Printable), NEW k \in 0 .. Len(s)
    PROVE  /\ SubSeq(s, 1, k) \in Seq(Printable)
           /\ TextWidth(SubSeq(s, 1, k)) \in Nat
           /\ TextWidth(SubSeq(s, 1, k)) <= TextWidth(s)
<1>1. /\ SubSeq(s, 1, k) \in Seq(Printable)
      /\ SubSeq(s, k + 1, Len(s)) \in Seq(Printable)
      /\ SubSeq(s, 1, k) \o SubSeq(s, k + 1, Len(s)) = s
  BY FirstPart
<1>2. PICK p \in Seq(Printable), q \in Seq(Printable) : p = SubSeq(s, 1, k) /\ p \o q = s
  BY <1>1, Zenon
<1>3. TextWidth(s) = TextWidth(p) + TextWidth(q)
  BY <1>2, WidthOfConcat
<1>4. TextWidth(p) \in Nat /\ TextWidth(q) \in Nat
  BY WidthIsNat
<1>5. TextWidth(p) <= TextWidth(s)
  BY <1>3, <1>4
<1> QED
  BY <1>1, <1>2, <1>4, <1>5, Zenon

LEMMA WidthOfNext ==
    ASSUME NEW s \in Seq(Printable), NEW k \in 0 .. Len(s) - 1
    PROVE  TextWidth(SubSeq(s, 1, k + 1)) = TextWidth(SubSeq(s, 1, k)) + CharAdvance(s[k + 1])
<1>1. PICK len \in Nat : len = Len(s)
  BY LenProperties
<1>2. k + 1 \in 1 .. Len(s)
  BY <1>1
<1>3. PICK c \in Printable : c = s[k + 1]
  BY <1>2, ElementOfSeq
<1>4. PICK p \in Seq(Printable) : p = SubSeq(s, 1, k)
  <2>1. k \in 0 .. Len(s)
    BY <1>1
  <2> QED
    BY <2>1, FirstPart
<1>5. SubSeq(s, 1, k + 1) = Append(p, c)
  BY <1>1, <1>3, <1>4, SMT
<1> QED
  BY <1>3, <1>4, <1>5, WidthOfAppend

\* What a character takes when it is drawn, before that is cut to pixels.
DrawnUnits(c) == CharAdvance(c) + (IF c \in Missing THEN Advance[Space] ELSE 0)

SpaceIsNat == Advance[Space] \in Nat /\ Unit \in Nat \ {0}

LEMMA SpaceHasWidth == SpaceIsNat
BY SectionAssumption, FontAssumption DEF SpaceIsNat

\* A glyph is drawn as wide as it is, but for the cut to whole pixels.
LEMMA GlyphIsCut ==
    ASSUME NEW c \in Printable
    PROVE  /\ GlyphAdvance(c) \in Nat /\ DrawnUnits(c) \in Nat
           /\ GlyphAdvance(c) * Unit <= DrawnUnits(c)
           /\ DrawnUnits(c) <= GlyphAdvance(c) * Unit + (Unit - 1)
<1>1. /\ Unit \in Nat \ {0} /\ Space \notin Missing
      /\ \A g \in (Chars \ Missing) \union {Space} : Advance[g] \in Nat
  BY SectionAssumption, FontAssumption
<1>2. PICK n \in Nat : n = IF c \in Missing THEN Advance[Space] ELSE Advance[c]
  BY <1>1 DEF Printable
<1>3. PICK d \in Nat : d = n \div Unit /\ d * Unit <= n /\ n <= d * Unit + (Unit - 1)
  <2>1. n \div Unit \in Nat /\ n % Unit \in 0 .. Unit - 1
        /\ n = (n \div Unit) * Unit + (n % Unit)
    BY <1>1, Division
  <2>2. PICK d \in Nat, r \in 0 .. Unit - 1 : d = n \div Unit /\ r = n % Unit
    BY <2>1
  <2>3. PICK m \in Nat : m = d * Unit
    BY <1>1, SMT
  <2>4. n = m + r
    BY <2>1, <2>2, <2>3, Zenon
  <2>5. m <= n /\ n <= m + (Unit - 1)
    BY <1>1, <2>2, <2>4
  <2> QED
    BY <2>2, <2>3, <2>5, Zenon
<1>4. GlyphAdvance(c) = d
  BY <1>2, <1>3 DEF GlyphAdvance
<1>5. DrawnUnits(c) = n
  BY <1>2 DEF CharAdvance, DrawnUnits
<1> QED
  BY <1>3, <1>4, <1>5

\* The characters that the font lacks are counted one by one.
LEMMA LackingIs ==
    ASSUME NEW s, NEW k \in Nat
    PROVE  /\ Lacking(s, 0) = 0
           /\ Lacking(s, k) \in Nat
           /\ Lacking(s, k + 1) = Lacking(s, k) + (IF s[k + 1] \in Missing THEN 1 ELSE 0)
<1> DEFINE M(l) == {n \in 1 .. l : s[n] \in Missing}
<1>1. M(0) = {} /\ Lacking(s, 0) = Cardinality(M(0))
  BY DEF Lacking
<1>2. Lacking(s, 0) = 0
  BY <1>1, FS_EmptySet
<1>3. IsFiniteSet(M(k))
  <2>1. IsFiniteSet(1 .. k) /\ M(k) \subseteq 1 .. k
    BY FS_Interval
  <2> QED
    BY <2>1, FS_Subset
<1>4. PICK m : m = M(k)
  OBVIOUS
<1>5. IsFiniteSet(m) /\ Lacking(s, k) = Cardinality(m) /\ Cardinality(m) \in Nat
  BY <1>3, <1>4, FS_CardinalityType DEF Lacking
<1>6. M(k + 1) = IF s[k + 1] \in Missing THEN m \union {k + 1} ELSE m
  BY <1>4
<1>7. k + 1 \notin m
  BY <1>4
<1>8. Cardinality(m \union {k + 1}) = Cardinality(m) + 1
  BY <1>5, <1>7, FS_AddElement
<1>9. Lacking(s, k + 1) = Cardinality(M(k + 1))
  BY DEF Lacking
<1> HIDE DEF M
<1>10. CASE s[k + 1] \in Missing
  BY <1>2, <1>5, <1>6, <1>8, <1>9, <1>10
<1>11. CASE s[k + 1] \notin Missing
  BY <1>2, <1>5, <1>6, <1>9, <1>11
<1> QED
  BY <1>10, <1>11

\* The pen after k characters of s: at their width, but for what is cut.
Width(s, k) == TextWidth(SubSeq(s, 1, k)) + Lacking(s, k) * Advance[Space]

PenFollows(s, k, pen) ==
    pen * Unit <= Width(s, k) /\ Width(s, k) <= pen * Unit + k * (Unit - 1)

LEMMA WidthIsSum ==
    ASSUME NEW s \in Seq(Printable), NEW k \in 0 .. Len(s) - 1
    PROVE  /\ Width(s, k) \in Nat
           /\ Width(s, k + 1) = Width(s, k) + DrawnUnits(s[k + 1])
<1>1. PICK len \in Nat : len = Len(s)
  BY LenProperties
<1>2. k \in 0 .. Len(s) /\ k \in Nat /\ k + 1 \in 1 .. Len(s)
  BY <1>1
<1>3. PICK c \in Printable : c = s[k + 1]
  BY <1>2, ElementOfSeq
<1>4. PICK w \in Nat : w = TextWidth(SubSeq(s, 1, k))
  BY <1>2, WidthOfFirst
<1>5. PICK a \in Nat : a = CharAdvance(c)
  BY AdvanceIsNat
<1>6. TextWidth(SubSeq(s, 1, k + 1)) = w + a
  BY <1>3, <1>4, <1>5, WidthOfNext
<1>7. PICK n \in Nat : n = Lacking(s, k)
  BY <1>2, LackingIs
<1>8. Lacking(s, k + 1) = n + (IF c \in Missing THEN 1 ELSE 0)
  BY <1>2, <1>3, <1>7, LackingIs
<1>9. PICK e \in Nat : e = Advance[Space]
  BY SpaceHasWidth DEF SpaceIsNat
<1>10. n * e \in Nat /\ (n + 1) * e = n * e + e
  BY SMT
<1>11. Width(s, k) = w + n * e
  BY <1>4, <1>7, <1>9 DEF Width
<1>12. CASE c \in Missing
  <2>1. Width(s, k + 1) = (w + a) + (n + 1) * e
    BY <1>6, <1>8, <1>9, <1>12 DEF Width
  <2>2. DrawnUnits(s[k + 1]) = a + e
    BY <1>3, <1>5, <1>9, <1>12 DEF DrawnUnits
  <2> QED
    BY <1>10, <1>11, <2>1, <2>2
<1>13. CASE c \notin Missing
  <2>1. Width(s, k + 1) = (w + a) + n * e
    BY <1>6, <1>8, <1>9, <1>13 DEF Width
  <2>2. DrawnUnits(s[k + 1]) = a
    BY <1>3, <1>5, <1>13 DEF DrawnUnits
  <2> QED
    BY <1>10, <1>11, <2>1, <2>2
<1> QED
  BY <1>12, <1>13

LEMMA PenBegins ==
    ASSUME NEW s \in Seq(Printable)
    PROVE  PenFollows(s, 0, 0)
<1>1. 0 \in 0 .. Len(s)
  BY LenProperties
<1>2. SubSeq(s, 1, 0) = <<>>
  <2>1. Len(SubSeq(s, 1, 0)) = 0 /\ SubSeq(s, 1, 0) \in Seq(Printable)
    BY <1>1, FirstPart, SubSeqProperties
  <2> QED
    BY <2>1, EmptySeq
<1>3. TextWidth(SubSeq(s, 1, 0)) = 0
  BY <1>2, WidthOfEmpty, Zenon
<1>4. Lacking(s, 0) = 0
  BY LackingIs
<1>5. Advance[Space] \in Nat /\ Unit \in Nat \ {0}
  BY SpaceHasWidth DEF SpaceIsNat
<1>6. Width(s, 0) = 0
  BY <1>3, <1>4, <1>5 DEF Width
<1> QED
  BY <1>5, <1>6 DEF PenFollows

LEMMA PenMoves ==
    ASSUME NEW s \in Seq(Printable), NEW k \in 0 .. Len(s) - 1, NEW pen \in Nat,
           PenFollows(s, k, pen)
    PROVE  PenFollows(s, k + 1, pen + GlyphAdvance(s[k + 1]))
<1>1. PICK len \in Nat : len = Len(s)
  BY LenProperties
<1>2. k \in Nat /\ k + 1 \in 1 .. Len(s)
  BY <1>1
<1>3. PICK c \in Printable : c = s[k + 1]
  BY <1>2, ElementOfSeq
<1>4. PICK u \in Nat \ {0} : u = Unit
  BY SpaceHasWidth DEF SpaceIsNat
<1>5. PICK d \in Nat, a \in Nat :
          d = GlyphAdvance(c) /\ a = DrawnUnits(c) /\ d * u <= a /\ a <= d * u + (u - 1)
  BY <1>4, GlyphIsCut
<1>6. PICK w \in Nat : w = Width(s, k) /\ Width(s, k + 1) = w + a
  BY <1>3, <1>5, WidthIsSum
<1>7. pen * u <= w /\ w <= pen * u + k * (u - 1)
  BY <1>4, <1>6 DEF PenFollows
<1>8. (pen + d) * u = pen * u + d * u
  BY SMT
<1>9. (k + 1) * (u - 1) = k * (u - 1) + (u - 1)
  BY <1>2, SMT
<1>10. PICK p \in Nat, e \in Nat, m \in Nat : p = pen * u /\ e = d * u /\ m = k * (u - 1)
  BY <1>2, SMT
<1>11. /\ e <= a /\ a <= e + (u - 1) /\ p <= w /\ w <= p + m
  BY <1>5, <1>7, <1>10, Zenon
<1>12. p + e <= w + a /\ w + a <= (p + e) + (m + (u - 1))
  BY <1>11
<1>13. (pen + d) * u = p + e /\ (k + 1) * (u - 1) = m + (u - 1)
  BY <1>8, <1>9, <1>10, Zenon
<1>14. (pen + d) * u <= w + a /\ w + a <= (pen + d) * u + (k + 1) * (u - 1)
  BY <1>12, <1>13, Zenon
<1> QED
  BY <1>3, <1>4, <1>5, <1>6, <1>14 DEF PenFollows

\* A line that reaches into the section.
Reaches(n) ==
    /\ (n - 1) * line_h - scroll_offset \div Unit + line_h > 0
    /\ (n - 1) * line_h - scroll_offset \div Unit < section_height

\* The invariant of the drawing.
DrawInv ==
    /\ pc \in {"waiting", "wrapping", "drawing", "drawn"}
    /\ row \in Nat \ {0} /\ scroll_offset \in Nat /\ column \in Nat /\ pen_x \in Nat
    /\ pc = "drawing" =>
          /\ row <= Len(lines) + 1
          /\ shown = {n \in 1 .. row - 1 : Reaches(n)}
          /\ column = 0 => pen_x = 0
          /\ column > 0 => InLine /\ column <= Len(lines[row])
          /\ InLine => PenFollows(lines[row], column, pen_x)
    /\ pc = "drawn" => shown = {n \in 1 .. Len(lines) : Reaches(n)}

\* What is true of the text, before and after it is given.
TextInv ==
    /\ pc = "waiting" =>
          /\ text = <<>> /\ words = <<>> /\ rest = <<>> /\ lines = <<>>
          /\ current_line = <<>> /\ current_width = 0
    /\ pc # "waiting" => mmu = "mapped" /\ text \in Texts /\ SetInv
    /\ pc = "wrapping" => LastLineInv

\* The inductive invariant of the program.
ProgramInv ==
    /\ TextInv /\ DrawInv
    /\ CacheTypeOK

LEMMA LineIsTall == line_h \in Nat \ {0} /\ section_height \in Nat \ {0} /\ Unit \in Nat \ {0}
<1>1. Unit \in Nat \ {0} /\ LineUnits \in Nat /\ LineUnits >= Unit /\ section_height \in Nat \ {0}
  BY SectionAssumption
<1>2. PICK q \in Nat, r \in 0 .. Unit - 1 : q = LineUnits \div Unit /\ LineUnits = q * Unit + r
  BY <1>1, Division
<1>3. q # 0
  <2> SUFFICES ASSUME q = 0 PROVE FALSE
    OBVIOUS
  <2>1. q * Unit = 0
    BY <1>1, SMT
  <2> QED
    BY <1>1, <1>2, <2>1
<1> QED
  BY <1>1, <1>2, <1>3 DEF line_h

LEMMA NothingIsWellWrapped ==
    ASSUME TextInv, pc = "waiting"
    PROVE  WellWrapped
<1>1. /\ text = <<>> /\ words = <<>> /\ rest = <<>> /\ lines = <<>> /\ current_line = <<>>
  BY DEF TextInv
<1>2. <<>> \o <<>> = <<>>
  <2>1. <<>> \in Seq(Chars)
    BY EmptySeq
  <2> QED
    BY <2>1, ConcatEmptySeq
<1>3. TextIsKept
  BY <1>1, <1>2, FlattenOfEmpty, LettersOfEmpty, Zenon DEF TextIsKept
<1>4. DOMAIN lines = {} /\ Len(lines) = 0
  BY <1>1, EmptySeq
<1> QED
  BY <1>3, <1>4 DEF WellWrapped, LinesFit, LinesAreFull

LEMMA InitProgram == TextInit => ProgramInv
<1> SUFFICES ASSUME TextInit PROVE ProgramInv
  OBVIOUS
<1>1. TextInv
  BY DEF TextInit, TextInv
<1>2. DrawInv
  BY DEF TextInit, DrawInv
<1>3. CacheTypeOK
  BY DEF TextInit, CacheInit, CacheTypeOK, Cached
<1> QED
  BY <1>1, <1>2, <1>3 DEF ProgramInv

\* Steps that leave the text alone.
LEMMA TextStays ==
    ASSUME TextInv, UNCHANGED wrapVars, mmu = "mapped" => mmu' = "mapped",
           pc' = pc \/ (pc \in {"drawing"} /\ pc' = "drawn")
    PROVE  TextInv'
<1>1. UNCHANGED <<text, words, rest, current_line, current_width, lines>>
  BY DEF wrapVars
<1>2. SetInv => SetInv'
  <2>1. WrapTypes => WrapTypes'
    BY <1>1 DEF WrapTypes
  <2>2. WordsLeft => WordsLeft'
    BY <1>1 DEF WordsLeft
  <2>3. WellWrapped => WellWrapped'
    BY <1>1, Zenon DEF WellWrapped, TextIsKept, LinesFit, LinesAreFull, LaterWords
  <2> QED
    BY <2>1, <2>2, <2>3 DEF SetInv
<1>3. LastLineInv => LastLineInv'
  BY <1>1, Zenon DEF LastLineInv, Fits, NoRoom, LaterWords
<1>4. pc' = "waiting" => pc = "waiting"
  OBVIOUS
<1>5. pc' # "waiting" => pc # "waiting"
  OBVIOUS
<1>6. pc' = "wrapping" => pc = "wrapping"
  OBVIOUS
<1> QED
  BY <1>1, <1>2, <1>3, <1>4, <1>5, <1>6, Zenon DEF TextInv

LEMMA TextStep ==
    ASSUME TextInv, [TextNext]_allVars
    PROVE  TextInv'
<1>1. ASSUME Flash PROVE TextInv'
  <2>1. UNCHANGED wrapVars /\ pc' = pc
    BY <1>1 DEF Flash, drawVars
  <2>2. mmu # "mapped"
    BY <1>1 DEF Flash, FlashNext, ScanFree, ScanTaken, ScanPanics, MapPages, MapPanics
  <2> QED
    BY <2>1, <2>2, TextStays
<1>2. ASSUME UpdateText PROVE TextInv'
  <2>1. PICK t \in Texts : WrapBegins(t)
    BY <1>2 DEF UpdateText
  <2>2. SetInv' /\ LastLineInv'
    BY <2>1, WrapBeginsStep
  <2>3. text' \in Texts
    BY <2>1 DEF WrapBegins
  <2>4. mmu' = "mapped" /\ pc' = "wrapping"
    BY <1>2 DEF UpdateText, flashVars
  <2> QED
    BY <2>2, <2>3, <2>4 DEF TextInv
<1>3. ASSUME Wrap PROVE TextInv'
  <2>1. pc = "wrapping" /\ pc' = "wrapping" /\ mmu' = mmu
    BY <1>3 DEF Wrap, drawVars, flashVars
  <2>2. SetInv /\ LastLineInv /\ mmu = "mapped" /\ text \in Texts
    BY <2>1 DEF TextInv
  <2>3. text' = text
    BY <1>3 DEF Wrap, WrapWord, FirstWord, FirstWordTooWide, BreakChar, WordFits,
                WordStartsLine, NextWord
  <2>4. SetInv' /\ LastLineInv'
    BY <1>3, <2>2, FirstWordStep, FirstWordTooWideStep, BreakCharStep, WordFitsStep,
       WordStartsLineStep
    DEF Wrap, WrapWord
  <2> QED
    BY <2>1, <2>2, <2>3, <2>4 DEF TextInv
<1>4. ASSUME RenderSection PROVE TextInv'
  <2>1. pc = "wrapping" /\ pc' = "drawing" /\ mmu' = mmu /\ WrapEnds
    BY <1>4 DEF RenderSection, flashVars
  <2>2. SetInv /\ LastLineInv /\ mmu = "mapped" /\ text \in Texts
    BY <2>1 DEF TextInv
  <2>3. SetInv'
    BY <2>1, <2>2, WrapEndsStep
  <2>4. text' = text
    BY <2>1 DEF WrapEnds
  <2> QED
    BY <2>1, <2>2, <2>3, <2>4 DEF TextInv
<1>5. ASSUME SkipLine \/ EnsureGlyph \/ DrawGlyph \/ LineEnds \/ SectionEnds \/ UNCHANGED allVars
      PROVE  TextInv'
  <2>1. /\ UNCHANGED wrapVars /\ mmu' = mmu
        /\ pc' = pc \/ (pc \in {"drawing"} /\ pc' = "drawn")
    BY <1>5 DEF SkipLine, EnsureGlyph, DrawGlyph, LineEnds, SectionEnds, allVars, drawVars,
                flashVars
  <2> QED
    BY <2>1, TextStays
<1> QED
  BY <1>1, <1>2, <1>3, <1>4, <1>5 DEF TextNext

\* The character that is drawn.
LEMMA CharIsText ==
    ASSUME ProgramInv, InLine, column < Len(lines[row])
    PROVE  /\ lines[row] \in Seq(Printable)
           /\ column + 1 \in 1 .. Len(lines[row]) /\ column \in 0 .. Len(lines[row]) - 1
           /\ lines[row][column + 1] \in Printable
<1>1. lines \in Seq(Seq(Printable)) /\ row \in 1 .. Len(lines) /\ column \in Nat
  BY DEF ProgramInv, TextInv, DrawInv, SetInv, WrapTypes, InLine
<1>2. PICK s \in Seq(Printable) : s = lines[row]
  BY <1>1, ElementOfSeq
<1>3. PICK len \in Nat : len = Len(s)
  BY LenProperties
<1>4. column + 1 \in 1 .. Len(s) /\ column \in 0 .. Len(s) - 1
  BY <1>1, <1>2, <1>3
<1> QED
  BY <1>2, <1>4, ElementOfSeq

LEMMA CacheTypeStep ==
    ASSUME ProgramInv, [TextNext]_allVars
    PROVE  CacheTypeOK'
<1>1. ASSUME UNCHANGED cacheVars PROVE CacheTypeOK'
  BY <1>1 DEF cacheVars, ProgramInv, CacheTypeOK, Cached
<1>2. ASSUME EnsureGlyph PROVE CacheTypeOK'
  <2>1. InLine /\ column < Len(lines[row]) /\ EnsureCached(lines[row][column + 1])
    BY <1>2 DEF EnsureGlyph
  <2>2. PICK g \in Glyphs : g = lines[row][column + 1]
    BY <2>1, CharIsText, SectionAssumption DEF Printable
  <2>3. /\ Cached \subseteq Glyphs /\ access_counter \in Nat
        /\ \A h \in Cached : cache[h] \in Nat /\ cache[h] < access_counter
    BY DEF ProgramInv, CacheTypeOK
  <2>4. PICK c : /\ DOMAIN c \subseteq Cached /\ \A h \in DOMAIN c : c[h] = cache[h]
                 /\ cache' = Stamped(c, g)
                 /\ access_counter' = access_counter + 1 /\ wanted' = {g}
    <3>1. CASE EnsureHit(g)
      BY <3>1 DEF EnsureHit, Cached
    <3>2. CASE EnsureMiss(g)
      <4>1. CASE Cardinality(Cached) >= max_cache_size
        <5> DEFINE c == Without(LeastRecentlyUsed)
        <5>1. DOMAIN c \subseteq Cached /\ \A h \in DOMAIN c : c[h] = cache[h]
          BY DEF Without
        <5>2. /\ cache' = Stamped(c, g)
              /\ access_counter' = access_counter + 1 /\ wanted' = {g}
          BY <3>2, <4>1 DEF EnsureMiss
        <5> QED
          BY <5>1, <5>2, Zenon
      <4>2. CASE ~(Cardinality(Cached) >= max_cache_size)
        BY <3>2, <4>2 DEF EnsureMiss, Cached
      <4> QED
        BY <4>1, <4>2
    <3> QED
      BY <2>1, <2>2, <3>1, <3>2 DEF EnsureCached
  <2>5. /\ cache' = [h \in DOMAIN c \union {g} |-> IF h = g THEN access_counter ELSE c[h]]
        /\ DOMAIN cache' = DOMAIN c \union {g}
    BY <2>4 DEF Stamped
  <2>6. \A h \in DOMAIN cache' : cache'[h] \in Nat /\ cache'[h] < access_counter'
    BY <2>3, <2>4, <2>5
  <2>7. cache' \in [DOMAIN cache' -> Nat]
    BY <2>5, <2>6
  <2> QED
    BY <2>3, <2>4, <2>5, <2>6, <2>7 DEF CacheTypeOK, Cached
<1>3. ASSUME DrawGlyph PROVE CacheTypeOK'
  BY <1>3 DEF DrawGlyph, GetCached, ProgramInv, CacheTypeOK, Cached
<1> QED
  BY <1>1, <1>2, <1>3
  DEF TextNext, allVars, cacheVars, Flash, UpdateText, Wrap, RenderSection, SkipLine,
      LineEnds, SectionEnds

\* Whether a line is in view.
LEMMA InView ==
    ASSUME ProgramInv, pc = "drawing", row <= Len(lines)
    PROVE  /\ AboveSection => ~Reaches(row)
           /\ InLine => Reaches(row)
           /\ ~AboveSection /\ BelowSection => \A n \in row .. Len(lines) : ~Reaches(n)
<1>1. line_h \in Nat \ {0} /\ row \in Nat \ {0} /\ section_height \in Nat
  BY LineIsTall DEF ProgramInv, DrawInv
<1>2. PICK off \in Nat : off = scroll_offset \div Unit
  BY LineIsTall, Division DEF ProgramInv, DrawInv
<1>3. (row - 1) * line_h \in Nat
  BY <1>1, SMT
<1>4. AboveSection <=> (row - 1) * line_h - off + line_h <= 0
  BY <1>2, Zenon DEF AboveSection, y
<1>5. BelowSection <=> (row - 1) * line_h - off >= section_height
  BY <1>2, Zenon DEF BelowSection, y
<1>6. Reaches(row) <=> /\ (row - 1) * line_h - off + line_h > 0
                       /\ (row - 1) * line_h - off < section_height
  BY <1>2, Zenon DEF Reaches
<1>7. PICK top \in Nat : top = (row - 1) * line_h
  BY <1>3
<1>8. PICK h \in Nat \ {0} : h = line_h
  BY <1>1
<1>9. ASSUME BelowSection, NEW n \in row .. Len(lines) PROVE ~Reaches(n)
  <2>1. (n - 1) * h >= (row - 1) * h
    BY <1>1, SMT
  <2>2. (n - 1) * h \in Nat
    BY <1>1, SMT
  <2>3. ~((n - 1) * h - off < section_height)
    BY <1>1, <1>2, <1>5, <1>7, <1>8, <1>9, <2>1, <2>2
  <2> QED
    BY <1>2, <1>8, <2>3, Zenon DEF Reaches
<1>10. AboveSection => ~Reaches(row)
  BY <1>1, <1>2, <1>4, <1>6, <1>7, <1>8
<1>11. InLine => Reaches(row)
  BY <1>1, <1>2, <1>4, <1>5, <1>6, <1>7, <1>8 DEF InLine
<1> QED
  BY <1>9, <1>10, <1>11

\* The loop goes on to the next line.
LEMMA NextRow ==
    ASSUME ProgramInv, pc = "drawing", pc' = "drawing", row <= Len(lines), row' = row + 1,
           UNCHANGED <<lines, scroll_offset>>, column' = 0, pen_x' = 0,
           shown = {n \in 1 .. row - 1 : Reaches(n)},
           shown' = IF Reaches(row) THEN shown \union {row} ELSE shown
    PROVE  DrawInv'
<1>1. row \in Nat \ {0} /\ scroll_offset \in Nat
  BY DEF ProgramInv, DrawInv
<1>2. \A n : Reaches(n)' <=> Reaches(n)
  BY DEF line_h, Reaches
<1>3. PICK len \in Nat : len = Len(lines)
  BY LenProperties DEF ProgramInv, TextInv, SetInv, WrapTypes
<1>4. 1 .. row' - 1 = (1 .. row - 1) \union {row}
  BY <1>1
<1>5. shown' = {n \in 1 .. row' - 1 : Reaches(n)'}
  BY <1>2, <1>4, Zenon
<1>6. ASSUME InLine' PROVE PenFollows(lines'[row'], column', pen_x')
  <2>1. PICK s \in Seq(Printable) : s = lines'[row']
    <3>1. row' <= Len(lines')
      BY <1>6 DEF InLine
    <3>2. lines \in Seq(Seq(Printable)) /\ row' \in 1 .. Len(lines)
      BY <1>1, <1>3, <3>1 DEF ProgramInv, TextInv, SetInv, WrapTypes
    <3> QED
      BY <3>2, ElementOfSeq
  <2> QED
    BY <2>1, PenBegins
<1>7. row' <= Len(lines') + 1
  BY <1>1, <1>3
<1> QED
  BY <1>1, <1>5, <1>6, <1>7 DEF DrawInv

LEMMA DrawStep ==
    ASSUME ProgramInv, [TextNext]_allVars
    PROVE  DrawInv'
<1>1. /\ pc \in {"waiting", "wrapping", "drawing", "drawn"}
      /\ row \in Nat \ {0} /\ scroll_offset \in Nat /\ column \in Nat /\ pen_x \in Nat
  BY DEF ProgramInv, DrawInv
<1>2. ASSUME UNCHANGED <<lines, drawVars>> PROVE DrawInv'
  <2>1. UNCHANGED <<lines, pc, scroll_offset, row, column, pen_x, shown>>
    BY <1>2 DEF drawVars
  <2>2. (InLine' <=> InLine) /\ \A n : Reaches(n)' <=> Reaches(n)
    BY <2>1 DEF InLine, AboveSection, BelowSection, y, line_h, Reaches
  <2> QED
    BY <2>1, <2>2, Zenon DEF DrawInv, ProgramInv
<1>3. ASSUME UpdateText \/ Wrap PROVE DrawInv'
  <2>1. pc' = "wrapping" /\ UNCHANGED <<scroll_offset, row, column, pen_x>>
    BY <1>3 DEF UpdateText, Wrap, drawVars
  <2> QED
    BY <1>1, <2>1 DEF DrawInv
<1>4. ASSUME RenderSection PROVE DrawInv'
  <2>1. /\ pc = "wrapping" /\ pc' = "drawing" /\ WrapEnds
        /\ row' = 1 /\ column' = 0 /\ pen_x' = 0 /\ shown' = {}
        /\ scroll_offset' \in 0 .. scroll_target'
    BY <1>4 DEF RenderSection
  <2>2. SetInv' /\ lines' # <<>>
    BY <2>1, WrapEndsStep DEF ProgramInv, TextInv
  <2>3. PICK len \in Nat \ {0} : len = Len(lines')
    <3>1. lines' \in Seq(Seq(Printable))
      BY <2>2 DEF SetInv, WrapTypes
    <3> QED
      BY <2>2, <3>1, EmptySeq, LenProperties
  <2>4. scroll_offset' \in Nat
    BY <2>1
  <2>5. ASSUME InLine' PROVE PenFollows(lines'[row'], column', pen_x')
    <3>1. PICK s \in Seq(Printable) : s = lines'[1]
      <4>1. lines' \in Seq(Seq(Printable)) /\ 1 \in 1 .. Len(lines')
        BY <2>2, <2>3 DEF SetInv, WrapTypes
      <4> QED
        BY <4>1, ElementOfSeq
    <3> QED
      BY <2>1, <3>1, PenBegins
  <2>6. {n \in 1 .. row' - 1 : Reaches(n)'} = {}
    BY <2>1
  <2> QED
    BY <2>1, <2>3, <2>4, <2>5, <2>6 DEF DrawInv
<1>5. ASSUME SkipLine PROVE DrawInv'
  <2>1. /\ pc = "drawing" /\ pc' = "drawing" /\ row <= Len(lines) /\ AboveSection
        /\ row' = row + 1
        /\ UNCHANGED <<lines, scroll_offset, column, pen_x, shown>>
    BY <1>5 DEF SkipLine, wrapVars
  <2>2. ~Reaches(row) /\ ~InLine
    BY <2>1, InView DEF InLine
  <2>3. shown = {n \in 1 .. row - 1 : Reaches(n)} /\ column = 0 /\ pen_x = 0
    BY <1>1, <2>1, <2>2 DEF ProgramInv, DrawInv
  <2> QED
    BY <2>1, <2>2, <2>3, NextRow
<1>6. ASSUME LineEnds PROVE DrawInv'
  <2>1. /\ InLine /\ pc = "drawing" /\ pc' = "drawing" /\ row <= Len(lines)
        /\ shown' = shown \union {row} /\ row' = row + 1 /\ column' = 0 /\ pen_x' = 0
        /\ UNCHANGED <<lines, scroll_offset>>
    BY <1>6 DEF LineEnds, InLine, wrapVars
  <2>2. Reaches(row)
    BY <2>1, InView
  <2>3. shown = {n \in 1 .. row - 1 : Reaches(n)}
    BY <2>1 DEF ProgramInv, DrawInv
  <2> QED
    BY <2>1, <2>2, <2>3, NextRow
<1>7. ASSUME DrawGlyph PROVE DrawInv'
  <2>1. /\ InLine /\ pc = "drawing" /\ column < Len(lines[row]) /\ column' = column + 1
        /\ pen_x' = pen_x + GlyphAdvance(lines[row][column + 1])
        /\ UNCHANGED <<lines, pc, scroll_offset, row, shown>>
    BY <1>7 DEF DrawGlyph, InLine, wrapVars
  <2>2. PICK s \in Seq(Printable), c \in Printable :
            /\ s = lines[row] /\ c = s[column + 1]
            /\ column + 1 \in 1 .. Len(s) /\ column \in 0 .. Len(s) - 1
    BY <2>1, CharIsText
  <2>3. (InLine' <=> InLine) /\ \A n : Reaches(n)' <=> Reaches(n)
    BY <2>1 DEF InLine, AboveSection, BelowSection, y, line_h, Reaches
  <2>4. GlyphAdvance(c) \in Nat /\ pen_x' = pen_x + GlyphAdvance(c)
    BY <2>1, <2>2, GlyphIsCut
  <2>5. PenFollows(s, column + 1, pen_x + GlyphAdvance(c))
    <3>1. PenFollows(s, column, pen_x)
      BY <2>1, <2>2, Zenon DEF ProgramInv, DrawInv
    <3> QED
      BY <1>1, <2>2, <3>1, PenMoves
  <2>6. row' <= Len(lines') + 1 /\ shown' = {n \in 1 .. row' - 1 : Reaches(n)'}
    BY <2>1, <2>3 DEF ProgramInv, DrawInv
  <2>7. column' # 0 /\ column' \in Nat /\ pen_x' \in Nat /\ column' <= Len(s)
    BY <1>1, <2>1, <2>2, <2>4, LenProperties
  <2>8. pc' # "drawn"
    BY <2>1
  <2> QED
    BY <1>1, <2>1, <2>2, <2>3, <2>4, <2>5, <2>6, <2>7, <2>8, Zenon DEF DrawInv
<1>8. ASSUME SectionEnds PROVE DrawInv'
  <2>1. /\ pc = "drawing" /\ pc' = "drawn"
        /\ row > Len(lines) \/ (~AboveSection /\ BelowSection)
        /\ UNCHANGED <<lines, scroll_offset, row, column, pen_x, shown>>
    BY <1>8 DEF SectionEnds, wrapVars
  <2>2. shown = {n \in 1 .. row - 1 : Reaches(n)} /\ row <= Len(lines) + 1
    BY <2>1 DEF ProgramInv, DrawInv
  <2>3. PICK len \in Nat : len = Len(lines)
    BY <2>1, LenProperties DEF ProgramInv, TextInv, SetInv, WrapTypes
  <2>4. \A n \in row .. len : ~Reaches(n)
    <3>1. CASE row > len
      BY <1>1, <3>1
    <3>2. CASE row <= len
      <4>1. row <= Len(lines) /\ ~AboveSection /\ BelowSection
        BY <1>1, <2>1, <2>3, <3>2
      <4> QED
        BY <2>1, <2>3, <4>1, InView, Zenon
    <3> QED
      BY <1>1, <3>1, <3>2
  <2>5. {n \in 1 .. row - 1 : Reaches(n)} = {n \in 1 .. len : Reaches(n)}
    <3>1. \A n : n \in 1 .. row - 1 => n \in 1 .. len
      BY <1>1, <2>2, <2>3
    <3>2. \A n \in 1 .. len : n \in 1 .. row - 1 \/ n \in row .. len
      BY <1>1
    <3> QED
      BY <2>4, <3>1, <3>2, Zenon
  <2>6. \A n : Reaches(n)' <=> Reaches(n)
    BY <2>1 DEF line_h, Reaches
  <2>7. shown' = {n \in 1 .. Len(lines') : Reaches(n)'}
    BY <2>1, <2>2, <2>3, <2>5, <2>6
  <2> QED
    BY <1>1, <2>1, <2>7 DEF DrawInv
<1> QED
  BY <1>2, <1>3, <1>4, <1>5, <1>6, <1>7, <1>8
  DEF TextNext, allVars, wrapVars, Flash, EnsureGlyph

THEOREM ProgramIsRight == TextSpec => []ProgramInv
<1>1. TextInit => ProgramInv
  BY InitProgram
<1>2. ASSUME ProgramInv, [TextNext]_allVars PROVE ProgramInv'
  <2>1. TextInv' /\ DrawInv' /\ CacheTypeOK'
    BY <1>2, TextStep, DrawStep, CacheTypeStep DEF ProgramInv
  <2> QED
    BY <2>1 DEF ProgramInv
<1> QED
  BY <1>1, <1>2, PTL DEF TextSpec

\* The type invariant, of the mapping, the cache, the lines and the drawing.
THEOREM TextTypes == TextSpec => []TextTypeOK
<1>1. ASSUME ProgramInv, FlashTypeOK PROVE TextTypeOK
  <2>1. CacheTypeOK /\ (mmu = "mapped" \/ lines = <<>>)
    BY <1>1, Zenon DEF ProgramInv, TextInv
  <2>2. ASSUME pc # "waiting" PROVE WrapTypeOK
    <3>1. text \in Texts /\ WrapTypes /\ WordsLeft
      BY <1>1, <2>2 DEF ProgramInv, TextInv, SetInv
    <3>2. IsSuffix(words, text)
      BY <3>1, SuffixOfText
    <3> QED
      BY <3>1, <3>2 DEF WrapTypeOK, WrapTypes, Printable
  <2>3. /\ pc \in {"waiting", "wrapping", "drawing", "drawn"}
        /\ row \in Nat \ {0} /\ scroll_offset \in Nat /\ column \in Nat /\ pen_x \in Nat
    BY <1>1 DEF ProgramInv, DrawInv
  <2>4. ASSUME pc = "drawing"
        PROVE  /\ row <= Len(lines) + 1 /\ shown \subseteq 1 .. row - 1
               /\ column > 0 => column <= Len(lines[row])
    BY <1>1, <2>4 DEF ProgramInv, DrawInv
  <2> QED
    BY <1>1, <2>1, <2>2, <2>3, <2>4, Zenon DEF TextTypeOK
<1>2. ScanInv => FlashTypeOK
  BY DEF ScanInv
<1> QED
  BY <1>1, <1>2, ProgramIsRight, TextMapsFlash, ScanInvHolds, PTL

\* For every font, width and text: wrapping loses nothing and adds nothing, none
\* of the lines ends before it is full, and a line that is wider than it may be
\* is a single character, or a later word, which word_wrap does not break
\* (layout.rs 105).
THEOREM TextIsWellWrapped == TextSpec => []WellWrapped
<1>1. ASSUME ProgramInv PROVE WellWrapped
  <2>1. CASE pc = "waiting"
    BY <1>1, <2>1, NothingIsWellWrapped DEF ProgramInv
  <2>2. CASE pc # "waiting"
    BY <1>1, <2>2 DEF ProgramInv, TextInv, SetInv
  <2> QED
    BY <2>1, <2>2
<1> QED
  BY <1>1, ProgramIsRight, PTL

\* A line is drawn as it was measured, and one that fits within its width.
LEMMA PenIsMeasured ==
    ASSUME ProgramInv
    PROVE  DrawnAsMeasured
<1> SUFFICES ASSUME InLine
             PROVE  /\ pen_x * Unit \in Width(lines[row], column) - column * (Unit - 1)
                                             .. Width(lines[row], column)
                    /\ TextWidth(lines[row]) <= MaxWidth =>
                           pen_x * Unit <= MaxWidth + Lacking(lines[row], column) * Advance[Space]
  BY DEF DrawnAsMeasured, Width
<1>1. pc = "drawing" /\ pen_x \in Nat /\ column \in Nat
  BY DEF InLine, ProgramInv, DrawInv
<1>2. PICK s \in Seq(Printable) : s = lines[row]
  <2>1. lines \in Seq(Seq(Printable)) /\ row \in 1 .. Len(lines)
    BY <1>1 DEF ProgramInv, TextInv, DrawInv, SetInv, WrapTypes, InLine
  <2> QED
    BY <2>1, ElementOfSeq
<1>3. column \in 0 .. Len(s)
  BY <1>1, <1>2, LenProperties DEF ProgramInv, DrawInv
<1>4. PICK w \in Nat : w = TextWidth(SubSeq(s, 1, column)) /\ w <= TextWidth(s)
  BY <1>3, WidthOfFirst
<1>5. PICK n \in Nat : n = Lacking(s, column) * Advance[Space]
  <2>1. Lacking(s, column) \in Nat /\ Advance[Space] \in Nat
    BY <1>1, LackingIs, SpaceHasWidth DEF SpaceIsNat
  <2> QED
    BY <2>1, SMT
<1>6. Width(s, column) = w + n
  BY <1>4, <1>5, Zenon DEF Width
<1>7. TextWidth(s) \in Nat /\ MaxWidth \in Nat
  BY <1>2, WidthIsNat, FontAssumption
<1>8. PICK p \in Nat, c \in Nat : p = pen_x * Unit /\ c = column * (Unit - 1)
  <2>1. Unit \in Nat \ {0}
    BY SpaceHasWidth DEF SpaceIsNat
  <2>2. pen_x * Unit \in Nat /\ column * (Unit - 1) \in Nat
    BY <1>1, <2>1, SMT
  <2> QED
    BY <2>2
<1>9. p <= w + n /\ w + n <= p + c
  <2>1. PenFollows(s, column, pen_x)
    BY <1>1, <1>2, Zenon DEF ProgramInv, DrawInv
  <2> QED
    BY <1>6, <1>8, <2>1 DEF PenFollows
<1>10. p \in (w + n) - c .. w + n
  BY <1>9
<1>11. TextWidth(s) <= MaxWidth => p <= MaxWidth + n
  BY <1>4, <1>7, <1>9
<1> QED
  BY <1>2, <1>5, <1>6, <1>8, <1>10, <1>11

\* A line reaches into the section when one of its pixels is there.
Overlaps(k, off, h, size) == k * h - off + h > 0 /\ k * h - off < size

ShowsPixel(k, off, h, size) == \E pixel \in 0 .. size - 1 : (pixel + off) \div h = k

LEMMA ReachesIsPixel ==
    ASSUME NEW off \in Nat, NEW h \in Nat \ {0}, NEW size \in Nat \ {0}, NEW k \in Nat
    PROVE  Overlaps(k, off, h, size) <=> ShowsPixel(k, off, h, size)
<1>1. PICK top \in Nat : top = k * h
  BY SMT
<1>2. ASSUME top - off + h > 0, top - off < size
      PROVE  \E pixel \in 0 .. size - 1 : (pixel + off) \div h = k
  <2>1. CASE top >= off
    <3>1. top - off \in 0 .. size - 1 /\ (top - off) + off = k * h + 0
      BY <1>1, <1>2, <2>1
    <3>2. 0 \in 0 .. h - 1 /\ k \in Int
      OBVIOUS
    <3>3. (k * h + 0) \div h = k
      BY <3>2, DivisionIsUnique
    <3> QED
      BY <3>1, <3>3
  <2>2. CASE top < off
    <3>1. PICK r \in 0 .. h - 1 : r = off - top
      BY <1>2, <2>2
    <3>2. 0 + off = k * h + r /\ 0 \in 0 .. size - 1 /\ k \in Int
      BY <1>1, <3>1
    <3>3. (k * h + r) \div h = k
      BY <3>2, DivisionIsUnique
    <3> QED
      BY <3>2, <3>3
  <2> QED
    BY <2>1, <2>2
<1>3. ASSUME NEW pixel \in 0 .. size - 1, (pixel + off) \div h = k
      PROVE  top - off + h > 0 /\ top - off < size
  <2>1. PICK n \in Nat : n = pixel + off
    OBVIOUS
  <2>2. n % h \in 0 .. h - 1 /\ n = (n \div h) * h + (n % h)
    BY Division
  <2>3. PICK r \in 0 .. h - 1 : r = n % h
    BY <2>2
  <2>4. n = top + r
    BY <1>1, <1>3, <2>1, <2>2, <2>3
  <2> QED
    BY <2>1, <2>3, <2>4
<1>4. Overlaps(k, off, h, size) <=> (top - off + h > 0 /\ top - off < size)
  BY <1>1, Zenon DEF Overlaps
<1> QED
  BY <1>2, <1>3, <1>4, Zenon DEF ShowsPixel

\* Where the end of the scroll is, in pixels.
LEMMA EndOfScroll ==
    ASSUME NEW n \in Nat, NEW u \in Nat \ {0}, NEW h \in Nat \ {0}, NEW m \in 0 .. u - 1,
           NEW size \in Nat \ {0}, NEW target \in Nat,
           target = n * (h * u + m) - size * u
    PROVE  /\ (n * m) \div u \in Nat
           /\ n * h - target \div u = size - (n * m) \div u
<1>1. PICK off \in Nat, r \in 0 .. u - 1 : off = target \div u /\ target = off * u + r
  BY Division
<1>2. PICK nh \in Nat, nm \in Nat : nh = n * h /\ nm = n * m
  BY SMT
<1>3. n * (h * u + m) = nh * u + nm
  BY <1>2, SMT
<1>4. PICK d \in Int : d = off + size - nh
  OBVIOUS
<1>5. d * u = off * u + size * u - nh * u
  BY <1>4, SMT
<1>6. d * u = nm - r
  BY <1>1, <1>3, <1>5, SMT
<1>7. (d * u + r) \div u = d
  BY <1>1, <1>4, DivisionIsUnique
<1>8. nm \div u = d /\ nm \div u \in Nat
  <2>1. nm = d * u + r
    BY <1>1, <1>2, <1>4, <1>6, SMT
  <2> QED
    BY <1>2, <1>7, <2>1, Division
<1> QED
  BY <1>1, <1>2, <1>4, <1>8

\* For every font, text and scroll offset: what is drawn is what was measured,
\* but for what is cut to pixels, the lines drawn are the lines in view, and at
\* the end of the scroll the last line is as high as all that was cut, and
\* drawn if and only if that is less than the section.
THEOREM LinesInViewAreDrawn == TextSpec => []TextIsDrawn
<1>1. ASSUME ProgramInv PROVE TextIsDrawn
  <2> SUFFICES ASSUME pc = "drawn" PROVE VisibleIsDrawn
    BY <1>1, PenIsMeasured DEF TextIsDrawn, VisibleIsDrawn
  <2>1. shown = {n \in 1 .. Len(lines) : Reaches(n)} /\ scroll_offset \in Nat
    BY <1>1 DEF ProgramInv, DrawInv
  <2>2. PICK off \in Nat : off = scroll_offset \div Unit
    BY <2>1, LineIsTall, Division
  <2>3. PICK len \in Nat : len = Len(lines)
    BY <1>1, LenProperties DEF ProgramInv, TextInv, SetInv, WrapTypes
  <2>4. PICK h \in Nat \ {0} : h = line_h
    BY LineIsTall
  <2>5. PICK size \in Nat \ {0}, u \in Nat \ {0} : size = section_height /\ u = Unit
    BY LineIsTall
  <2>6. ASSUME NEW n \in 1 .. Len(lines)
        PROVE  Reaches(n) <=> \E pixel \in 0 .. section_height - 1 :
                                 (pixel + scroll_offset \div Unit) \div line_h = n - 1
    <3>1. n - 1 \in Nat
      BY <2>3
    <3>2. PICK k \in Nat : k = n - 1
      BY <3>1
    <3>3. Overlaps(k, off, h, size) <=> ShowsPixel(k, off, h, size)
      BY ReachesIsPixel
    <3> QED
      BY <2>2, <2>4, <2>5, <3>2, <3>3, Zenon DEF Reaches, Overlaps, ShowsPixel
  <2>7. shown = {n \in 1 .. Len(lines) :
                    \E pixel \in 0 .. section_height - 1 :
                        (pixel + scroll_offset \div Unit) \div line_h = n - 1}
    BY <2>1, <2>6, Zenon
  <2>8. ASSUME scroll_offset = scroll_target, scroll_target > 0
        PROVE  /\ Len(lines) * line_h - scroll_offset \div Unit = section_height - Cut
               /\ Len(lines) \in shown <=> Cut < section_height
    <3>1. PICK m \in 0 .. u - 1 : m = LineUnits % Unit /\ LineUnits = h * u + m
      <4>1. LineUnits \in Nat
        BY SectionAssumption
      <4> QED
        BY <2>4, <2>5, <4>1, Division DEF line_h
    <3>2. scroll_offset = len * LineUnits - size * u /\ len # 0
      <4>1. scroll_target = IF len * LineUnits > size * u THEN len * LineUnits - size * u ELSE 0
        BY <2>3, <2>5, Zenon DEF scroll_target
      <4>2. len * LineUnits > size * u
        BY <2>8, <4>1
      <4>3. 0 * LineUnits = 0 /\ size * u \in Nat
        BY SectionAssumption, SMT
      <4> QED
        BY <2>8, <4>1, <4>2, <4>3
    <3>3. PICK target \in Nat : target = scroll_offset /\ target = len * (h * u + m) - size * u
      BY <2>1, <3>1, <3>2
    <3>4. PICK cut : cut = (len * m) \div u
      OBVIOUS
    <3>5. cut \in Nat /\ len * h - target \div u = size - cut
      BY <3>3, <3>4, EndOfScroll
    <3>6. target \div u = off
      BY <2>2, <2>5, <3>3
    <3>7. (len - 1) * h + h = len * h /\ (len - 1) * h \in Int /\ len * h \in Nat
      BY <3>2, SMT
    <3>8. (len - 1) * h - off + h = size - cut
      BY <3>5, <3>6, <3>7
    <3>9. Overlaps(len - 1, off, h, size) <=> cut < size
      BY <3>5, <3>7, <3>8 DEF Overlaps
    <3>10. Reaches(len) <=> cut < size
      BY <2>2, <2>4, <2>5, <3>9, Zenon DEF Reaches, Overlaps
    <3>11. len \in 1 .. Len(lines)
      BY <2>3, <3>2
    <3>12. Cut = cut
      BY <2>3, <2>5, <3>1, <3>4, Zenon DEF Cut
    <3>13. len \in shown <=> cut < size
      BY <2>1, <3>10, <3>11, Zenon
    <3>14. len * h - off = size - cut
      BY <3>5, <3>6
    <3> QED
      BY <2>2, <2>3, <2>4, <2>5, <3>12, <3>13, <3>14, Zenon
  <2> QED
    BY <2>7, <2>8, Zenon DEF VisibleIsDrawn
<1> QED
  BY <1>1, ProgramIsRight, PTL

-----------------------------------------------------------------------------
(* The cache is a least-recently-used list *)

Stamps(c) == \A g \in DOMAIN c : c[g] \in Nat

\* s is a sequence that lists the glyphs of c.
IsList(s, c) ==
    /\ s \in Seq(DOMAIN c) /\ Len(s) = Cardinality(DOMAIN c)
    /\ IsRecency(s, c)

ListOf(c) == CHOOSE s \in [1 .. Cardinality(DOMAIN c) -> DOMAIN c] : IsRecency(s, c)

\* A glyph that is at the same place in both lists up to n is not at another.
LEMMA ListIsOne ==
    ASSUME NEW c, Stamps(c), NEW n \in Nat,
           NEW s \in [1 .. n -> DOMAIN c], IsRecency(s, c),
           NEW t \in [1 .. n -> DOMAIN c], IsRecency(t, c)
    PROVE  s = t
<1> DEFINE T == {k \in 1 .. n : s[k] # t[k]}
<1> SUFFICES ASSUME T # {} PROVE FALSE
  OBVIOUS
<1>1. PICK k \in T : \A z \in T : k <= z
  <2>1. T \subseteq Nat
    OBVIOUS
  <2> HIDE DEF T
  <2> QED
    BY <2>1, LeastExists
<1>2. k \in 1 .. n /\ s[k] # t[k] /\ \A z \in 1 .. k - 1 : s[z] = t[z]
  <2>1. ASSUME NEW z \in 1 .. k - 1, s[z] # t[z] PROVE FALSE
    <3>1. z \in 1 .. n /\ ~(k <= z)
      OBVIOUS
    <3> QED
      BY <1>1, <2>1, <3>1
  <2> QED
    BY <1>1, <2>1
<1>3. /\ DOMAIN s = 1 .. n /\ DOMAIN t = 1 .. n
      /\ \A x, j \in 1 .. n : x < j => c[s[x]] > c[s[j]] /\ c[t[x]] > c[t[j]]
      /\ \A g \in DOMAIN c : (\E m \in 1 .. n : t[m] = g) /\ (\E m \in 1 .. n : s[m] = g)
  BY DEF IsRecency
<1>4. \A x \in 1 .. n : c[s[x]] \in Nat /\ c[t[x]] \in Nat
  BY DEF Stamps
<1>5. PICK m \in 1 .. n : t[m] = s[k]
  BY <1>2, <1>3
<1>6. m > k
  <2>1. m # k
    BY <1>2, <1>5
  <2>2. ASSUME m < k PROVE FALSE
    <3>1. m \in 1 .. k - 1
      BY <1>2, <2>2
    <3>2. s[m] = t[m]
      BY <1>2, <3>1
    <3>3. c[s[m]] > c[s[k]]
      BY <1>2, <1>3, <2>2
    <3> QED
      BY <1>4, <1>2, <1>5, <3>2, <3>3
  <2> QED
    BY <1>2, <2>1, <2>2
<1>7. PICK p \in 1 .. n : s[p] = t[k]
  BY <1>2, <1>3
<1>8. p > k
  <2>1. p # k
    BY <1>2, <1>7
  <2>2. ASSUME p < k PROVE FALSE
    <3>1. p \in 1 .. k - 1
      BY <1>2, <2>2
    <3>2. s[p] = t[p]
      BY <1>2, <3>1
    <3>3. c[t[p]] > c[t[k]]
      BY <1>2, <1>3, <2>2
    <3> QED
      BY <1>4, <1>2, <1>7, <3>2, <3>3
  <2> QED
    BY <1>2, <2>1, <2>2
<1>9. c[t[k]] > c[t[m]] /\ c[s[k]] > c[s[p]]
  BY <1>2, <1>3, <1>6, <1>8
<1> QED
  BY <1>2, <1>4, <1>5, <1>7, <1>9

LEMMA ListIs ==
    ASSUME NEW c, Stamps(c), NEW s, IsList(s, c)
    PROVE  ListOf(c) = s
<1>1. PICK n \in Nat : n = Cardinality(DOMAIN c) /\ Len(s) = n
  BY LenProperties DEF IsList
<1>2. s \in [1 .. n -> DOMAIN c] /\ IsRecency(s, c)
  BY <1>1, LenProperties DEF IsList
<1>3. PICK t : t = ListOf(c)
  OBVIOUS
<1>4. t \in [1 .. n -> DOMAIN c] /\ IsRecency(t, c)
  BY <1>1, <1>2, <1>3, Zenon DEF ListOf
<1> QED
  BY <1>1, <1>2, <1>3, <1>4, ListIsOne, Zenon

\* What a list says of its glyphs.
LEMMA ListFacts ==
    ASSUME NEW c, NEW s, IsList(s, c)
    PROVE  /\ s \in Seq(DOMAIN c) /\ DOMAIN s = 1 .. Len(s) /\ Len(s) \in Nat
           /\ \A x \in 1 .. Len(s) : s[x] \in DOMAIN c
           /\ \A g \in DOMAIN c : \E x \in 1 .. Len(s) : s[x] = g
           /\ \A x, j \in 1 .. Len(s) : x < j => c[s[x]] > c[s[j]]
<1>1. s \in Seq(DOMAIN c) /\ DOMAIN s = 1 .. Len(s) /\ Len(s) \in Nat
  BY LenProperties DEF IsList
<1> QED
  BY <1>1, ElementOfSeq DEF IsList, IsRecency

\* The new glyph in front of the list.
LEMMA NewInFront ==
    ASSUME NEW c, Stamps(c), NEW r, IsList(r, c), NEW g, g \notin DOMAIN c,
           NEW n \in Nat, \A h \in DOMAIN c : c[h] < n,
           NEW d, DOMAIN d = DOMAIN c \union {g}, d[g] = n,
           \A h \in DOMAIN c : d[h] = c[h],
           Cardinality(DOMAIN d) = Cardinality(DOMAIN c) + 1
    PROVE  IsList(<<g>> \o r, d)
<1>1. /\ r \in Seq(DOMAIN d) /\ <<g>> \in Seq(DOMAIN d)
  <2>1. r \in Seq(DOMAIN c) /\ DOMAIN c \subseteq DOMAIN d /\ g \in DOMAIN d
    BY DEF IsList
  <2> QED
    BY <2>1, SeqMonotonic
<1>2. PICK len \in Nat : len = Len(r)
  BY <1>1, LenProperties
<1>3. PICK t \in Seq(DOMAIN d) : t = <<g>> \o r
  BY <1>1, ConcatProperties
<1>4. Len(t) = len + 1 /\ t[1] = g /\ \A x \in 2 .. len + 1 : t[x] = r[x - 1]
  BY <1>1, <1>2, <1>3, SMT
<1>5. /\ \A x \in 1 .. len : r[x] \in DOMAIN c
      /\ \A h \in DOMAIN c : \E x \in 1 .. len : r[x] = h
      /\ \A x, j \in 1 .. len : x < j => c[r[x]] > c[r[j]]
      /\ len = Cardinality(DOMAIN c)
  <2>1. /\ \A x \in 1 .. Len(r) : r[x] \in DOMAIN c
        /\ \A h \in DOMAIN c : \E x \in 1 .. Len(r) : r[x] = h
        /\ \A x, j \in 1 .. Len(r) : x < j => c[r[x]] > c[r[j]]
    BY ListFacts, Zenon
  <2>2. Len(r) = Cardinality(DOMAIN c)
    BY Zenon DEF IsList
  <2> QED
    BY <1>2, <2>1, <2>2, Zenon
<1>6. DOMAIN t = 1 .. len + 1
  BY <1>4, LenProperties
<1>7. {t[x] : x \in DOMAIN t} = DOMAIN d
  <2>1. \A x \in 1 .. len + 1 : t[x] \in DOMAIN d
    BY <1>4, ElementOfSeq
  <2>2. ASSUME NEW h \in DOMAIN d PROVE \E x \in 1 .. len + 1 : t[x] = h
    <3>1. CASE h = g
      BY <1>4, <3>1
    <3>2. CASE h \in DOMAIN c
      <4>1. PICK x \in 1 .. len : r[x] = h
        BY <1>5, <3>2
      <4>2. x + 1 \in 2 .. len + 1 /\ x + 1 \in 1 .. len + 1 /\ (x + 1) - 1 = x
        OBVIOUS
      <4>3. t[x + 1] = h
        BY <1>4, <4>1, <4>2
      <4> QED
        BY <4>2, <4>3
    <3> QED
      BY <3>1, <3>2
  <2> QED
    BY <1>6, <2>1, <2>2
<1>8. ASSUME NEW x \in 1 .. len + 1, NEW j \in 1 .. len + 1, x < j
      PROVE  d[t[x]] > d[t[j]]
  <2>1. j \in 2 .. len + 1 /\ j - 1 \in 1 .. len
    BY <1>8
  <2>2. t[j] = r[j - 1] /\ r[j - 1] \in DOMAIN c
    BY <1>4, <1>5, <2>1
  <2>3. PICK b \in DOMAIN c : b = t[j] /\ d[t[j]] = c[b] /\ c[b] \in Nat /\ c[b] < n
    BY <2>2 DEF Stamps
  <2>4. CASE x = 1
    BY <1>4, <2>3, <2>4
  <2>5. CASE x # 1
    <3>1. x \in 2 .. len + 1 /\ x - 1 \in 1 .. len /\ x - 1 < j - 1
      BY <1>8, <2>5
    <3>2. t[x] = r[x - 1] /\ r[x - 1] \in DOMAIN c
      BY <1>4, <1>5, <3>1
    <3>3. c[r[x - 1]] > c[r[j - 1]]
      BY <1>5, <2>1, <3>1
    <3> QED
      BY <2>2, <2>3, <3>2, <3>3
  <2> QED
    BY <2>4, <2>5
<1>9. IsRecency(t, d)
  BY <1>6, <1>7, <1>8 DEF IsRecency
<1> QED
  BY <1>3, <1>4, <1>5, <1>9 DEF IsList

\* A glyph that is brought to the front.
LEMMA OldToFront ==
    ASSUME NEW c, Stamps(c), NEW s, IsList(s, c), NEW k \in 1 .. Len(s),
           NEW n \in Nat, \A h \in DOMAIN c : c[h] < n,
           NEW d, DOMAIN d = DOMAIN c, d[s[k]] = n,
           \A h \in DOMAIN c \ {s[k]} : d[h] = c[h]
    PROVE  IsList(<<s[k]>> \o RemoveAt(s, k), d)
<1>1. PICK len \in Nat : len = Len(s) /\ k <= len
  BY ListFacts
<1>2. s \in Seq(DOMAIN d) /\ s[k] \in DOMAIN d
  BY ListFacts
<1>3. PICK g \in DOMAIN d : g = s[k]
  BY <1>2
<1>4. /\ \A x \in 1 .. len : s[x] \in DOMAIN c
      /\ \A h \in DOMAIN c : \E x \in 1 .. len : s[x] = h
      /\ \A x, j \in 1 .. len : x < j => c[s[x]] > c[s[j]]
      /\ len = Cardinality(DOMAIN c)
  <2>1. /\ s \in Seq(DOMAIN c) /\ DOMAIN s = 1 .. Len(s) /\ Len(s) \in Nat
        /\ \A x \in 1 .. Len(s) : s[x] \in DOMAIN c
        /\ \A h \in DOMAIN c : \E x \in 1 .. Len(s) : s[x] = h
        /\ \A x, j \in 1 .. Len(s) : x < j => c[s[x]] > c[s[j]]
    BY ListFacts
  <2>2. Len(s) = Cardinality(DOMAIN c)
    BY Zenon DEF IsList
  <2> QED
    BY <1>1, <2>1, <2>2, Zenon
<1>5. \A x \in 1 .. len : x # k => s[x] # g
  <2>1. \A x \in 1 .. len : c[s[x]] \in Nat
    BY <1>4 DEF Stamps
  <2> QED
    BY <1>1, <1>3, <1>4, <2>1
<1>6. PICK a \in Seq(DOMAIN d), b \in Seq(DOMAIN d) :
          /\ a = SubSeq(s, 1, k - 1) /\ b = SubSeq(s, k + 1, len)
          /\ Len(a) = k - 1 /\ Len(b) = len - k
          /\ \A x \in 1 .. k - 1 : a[x] = s[x]
          /\ \A x \in 1 .. len - k : b[x] = s[k + x]
  <2>1. \A x \in 1 .. len : s[x] \in DOMAIN d
    BY <1>4
  <2>2. /\ SubSeq(s, 1, k - 1) \in Seq(DOMAIN d) /\ Len(SubSeq(s, 1, k - 1)) = k - 1
        /\ \A x \in 1 .. k - 1 : SubSeq(s, 1, k - 1)[x] = s[x]
    BY <1>1, <2>1, SubSeqProperties
  <2>3. /\ SubSeq(s, k + 1, len) \in Seq(DOMAIN d) /\ Len(SubSeq(s, k + 1, len)) = len - k
        /\ \A x \in 1 .. len - k : SubSeq(s, k + 1, len)[x] = s[k + x]
    BY <1>1, <2>1, SubSeqProperties
  <2> QED
    BY <2>2, <2>3, Zenon
<1>7. PICK t \in Seq(DOMAIN d) : t = <<g>> \o (a \o b)
  <2>1. <<g>> \in Seq(DOMAIN d)
    OBVIOUS
  <2> QED
    BY <2>1, ConcatProperties
<1>8. t = <<s[k]>> \o RemoveAt(s, k)
  BY <1>1, <1>3, <1>6, <1>7, Zenon DEF RemoveAt
<1>9. /\ Len(t) = len /\ t[1] = g
      /\ \A x \in 2 .. k : t[x] = s[x - 1]
      /\ \A x \in k + 1 .. len : t[x] = s[x]
  <2>1. PICK q \in Seq(DOMAIN d) : q = a \o b
    BY ConcatProperties
  <2>2. /\ Len(a \o b) = Len(a) + Len(b)
        /\ \A x \in 1 .. Len(a) + Len(b) :
              (a \o b)[x] = IF x <= Len(a) THEN a[x] ELSE b[x - Len(a)]
    BY ConcatProperties
  <2>3. /\ Len(q) = (k - 1) + (len - k)
        /\ \A x \in 1 .. (k - 1) + (len - k) :
              q[x] = IF x <= k - 1 THEN a[x] ELSE b[x - (k - 1)]
    BY <1>6, <2>1, <2>2, Zenon
  <2>4. /\ Len(q) = len - 1
        /\ \A x \in 1 .. k - 1 : q[x] = a[x]
        /\ \A x \in k .. len - 1 : q[x] = b[x - (k - 1)]
    <3>1. (k - 1) + (len - k) = len - 1
      BY <1>1
    <3>2. \A x \in 1 .. len - 1 : q[x] = IF x <= k - 1 THEN a[x] ELSE b[x - (k - 1)]
      BY <2>3, <3>1, Zenon
    <3>3. \A x \in 1 .. k - 1 : x \in 1 .. len - 1 /\ x <= k - 1
      BY <1>1
    <3>4. \A x \in k .. len - 1 : x \in 1 .. len - 1 /\ ~(x <= k - 1)
      BY <1>1
    <3>5. Len(q) = len - 1
      BY <2>3, <3>1, Zenon
    <3>6. \A x \in 1 .. k - 1 : q[x] = a[x]
      BY <3>2, <3>3, Zenon
    <3>7. \A x \in k .. len - 1 : q[x] = b[x - (k - 1)]
      BY <3>2, <3>4, Zenon
    <3> QED
      BY <3>5, <3>6, <3>7
  <2>5. Len(t) = len /\ t[1] = g /\ \A x \in 2 .. len : t[x] = q[x - 1]
    BY <1>1, <1>7, <2>1, <2>4, SMT
  <2>6. ASSUME NEW x \in 2 .. k PROVE t[x] = s[x - 1]
    <3>1. x \in 2 .. len /\ x - 1 \in 1 .. k - 1
      BY <1>1
    <3> QED
      BY <1>6, <2>4, <2>5, <3>1
  <2>7. ASSUME NEW x \in k + 1 .. len PROVE t[x] = s[x]
    <3>1. x \in 2 .. len /\ x - 1 \in k .. len - 1 /\ (x - 1) - (k - 1) \in 1 .. len - k
          /\ k + ((x - 1) - (k - 1)) = x
      BY <1>1
    <3>2. q[x - 1] = b[(x - 1) - (k - 1)]
      BY <2>4, <3>1
    <3>3. b[(x - 1) - (k - 1)] = s[k + ((x - 1) - (k - 1))]
      BY <1>6, <3>1
    <3> QED
      BY <2>5, <3>1, <3>2, <3>3
  <2> QED
    BY <2>5, <2>6, <2>7
<1>10. DOMAIN t = 1 .. len
  BY <1>9, LenProperties
<1>11. {t[x] : x \in DOMAIN t} = DOMAIN d
  <2>1. \A x \in 1 .. len : t[x] \in DOMAIN d
    BY <1>9, ElementOfSeq
  <2>2. ASSUME NEW h \in DOMAIN d PROVE \E x \in 1 .. len : t[x] = h
    <3>1. PICK x \in 1 .. len : s[x] = h
      BY <1>4
    <3>2. CASE x = k
      BY <1>1, <1>3, <1>9, <3>1, <3>2
    <3>3. CASE x < k
      <4>1. x + 1 \in 2 .. k /\ x + 1 \in 1 .. len /\ (x + 1) - 1 = x
        BY <1>1, <3>3
      <4>2. t[x + 1] = h
        BY <1>9, <3>1, <4>1
      <4> QED
        BY <4>1, <4>2
    <3>4. CASE x > k
      <4>1. x \in k + 1 .. len
        BY <3>4
      <4> QED
        BY <1>9, <3>1, <4>1
    <3> QED
      BY <3>2, <3>3, <3>4
  <2> QED
    BY <1>10, <2>1, <2>2
<1>12. ASSUME NEW x \in 1 .. len, x # 1
       PROVE  \E p \in 1 .. len :
                 /\ p # k /\ t[x] = s[p] /\ d[t[x]] = c[s[p]]
                 /\ p = IF x <= k THEN x - 1 ELSE x
  <2>1. PICK p \in 1 .. len : p = (IF x <= k THEN x - 1 ELSE x) /\ p # k
    BY <1>1, <1>12
  <2>2. t[x] = s[p]
    <3>1. CASE x <= k
      <4>1. x \in 2 .. k /\ p = x - 1
        BY <1>12, <2>1, <3>1
      <4> QED
        BY <1>9, <4>1
    <3>2. CASE ~(x <= k)
      <4>1. x \in k + 1 .. len /\ p = x
        BY <2>1, <3>2
      <4> QED
        BY <1>9, <4>1
    <3> QED
      BY <3>1, <3>2
  <2>3. s[p] \in DOMAIN c \ {s[k]}
    BY <1>3, <1>4, <1>5, <2>1
  <2> QED
    BY <2>1, <2>2, <2>3
<1>13. ASSUME NEW x \in 1 .. len, NEW j \in 1 .. len, x < j
       PROVE  d[t[x]] > d[t[j]]
  <2>1. PICK q \in 1 .. len : d[t[j]] = c[s[q]] /\ q = (IF j <= k THEN j - 1 ELSE j)
    <3>1. j # 1
      BY <1>13
    <3> QED
      BY <1>12, <3>1, Zenon
  <2>2. c[s[q]] \in Nat /\ c[s[q]] < n
    BY <1>4 DEF Stamps
  <2>3. CASE x = 1
    BY <1>3, <1>9, <2>1, <2>2, <2>3
  <2>4. CASE x # 1
    <3>1. PICK p \in 1 .. len : d[t[x]] = c[s[p]] /\ p = (IF x <= k THEN x - 1 ELSE x)
      BY <1>12, <2>4, Zenon
    <3>2. p < q
      BY <1>13, <2>1, <3>1
    <3>3. c[s[p]] > c[s[q]]
      BY <1>4, <3>2
    <3> QED
      BY <2>1, <3>1, <3>3, Zenon
  <2> QED
    BY <2>3, <2>4
<1>14. IsRecency(t, d)
  BY <1>10, <1>11, <1>13 DEF IsRecency
<1> QED
  BY <1>4, <1>8, <1>9, <1>14 DEF IsList

\* The glyphs without the least recently used one are the list without its end.
LEMMA LastIsEvicted ==
    ASSUME CacheInv, Cached # {}, NEW s, IsList(s, cache)
    PROVE  /\ LeastRecentlyUsed = {s[Len(s)]} /\ s[Len(s)] \in Cached
           /\ IsList(Front(s), Without({s[Len(s)]}))
<1>1. /\ Stamps(cache) /\ IsFiniteSet(Cached) /\ Cached = DOMAIN cache
      /\ \A g, h \in Cached : cache[g] = cache[h] => g = h
  BY DEF CacheInv, Stamps, CacheServes, CacheWithinLimit, Cached
<1>2. PICK len \in Nat : len = Len(s) /\ len = Cardinality(Cached)
  BY <1>1, ListFacts DEF IsList
<1>3. len # 0
  BY <1>1, <1>2, FS_EmptySet
<1>4. /\ s \in Seq(Cached)
      /\ \A x \in 1 .. len : s[x] \in Cached
      /\ \A h \in Cached : \E x \in 1 .. len : s[x] = h
      /\ \A x, j \in 1 .. len : x < j => cache[s[x]] > cache[s[j]]
  <2>1. /\ s \in Seq(DOMAIN cache)
        /\ \A x \in 1 .. Len(s) : s[x] \in DOMAIN cache
        /\ \A h \in DOMAIN cache : \E x \in 1 .. Len(s) : s[x] = h
        /\ \A x, j \in 1 .. Len(s) : x < j => cache[s[x]] > cache[s[j]]
    BY ListFacts, Zenon
  <2> QED
    BY <1>1, <1>2, <2>1, Zenon
<1>5. PICK old \in Cached : old = s[len]
  BY <1>3, <1>4
<1>6. \A x \in 1 .. len : cache[s[x]] \in Nat
  BY <1>1, <1>4 DEF Stamps
<1>7. \A x \in 1 .. len - 1 : cache[s[x]] > cache[old]
  BY <1>3, <1>4, <1>5
<1>8. \A h \in Cached : cache[old] <= cache[h]
  <2> TAKE h \in Cached
  <2>1. PICK x \in 1 .. len : s[x] = h
    BY <1>4
  <2>2. CASE x = len
    BY <1>5, <1>6, <2>1, <2>2
  <2>3. CASE x # len
    <3>1. x \in 1 .. len - 1
      BY <2>3
    <3> QED
      BY <1>5, <1>6, <1>7, <2>1, <3>1, <1>3
  <2> QED
    BY <2>2, <2>3
<1>9. LeastRecentlyUsed = {old}
  <2>1. PICK one \in Cached : LeastRecentlyUsed = {one}
    BY OneIsEvicted
  <2>2. old \in LeastRecentlyUsed
    BY <1>8 DEF LeastRecentlyUsed
  <2> QED
    BY <2>1, <2>2
<1> DEFINE c == Without({old})
<1>10. DOMAIN c = Cached \ {old} /\ \A h \in DOMAIN c : c[h] = cache[h]
  BY DEF Without
<1>11. \A x \in 1 .. len - 1 : s[x] \in Cached \ {old}
  <2> TAKE x \in 1 .. len - 1
  <2>1. x \in 1 .. len /\ len \in 1 .. len
    BY <1>3
  <2>2. cache[s[x]] > cache[old] /\ cache[s[x]] \in Nat /\ cache[old] \in Nat
    BY <1>5, <1>6, <1>7, <2>1
  <2>3. s[x] # old
    BY <2>2
  <2> QED
    BY <1>4, <2>1, <2>3
<1>12. PICK r \in Seq(Cached \ {old}) :
           r = Front(s) /\ Len(r) = len - 1 /\ \A x \in 1 .. len - 1 : r[x] = s[x]
  <2>1. /\ SubSeq(s, 1, len - 1) \in Seq(Cached \ {old}) /\ Len(SubSeq(s, 1, len - 1)) = len - 1
        /\ \A x \in 1 .. len - 1 : SubSeq(s, 1, len - 1)[x] = s[x]
    BY <1>3, <1>11, SubSeqProperties
  <2> QED
    BY <1>2, <2>1, Zenon DEF Front
<1>13. Cardinality(Cached \ {old}) = len - 1
  BY <1>1, <1>2, FS_RemoveElement
<1>14. {r[x] : x \in DOMAIN r} = Cached \ {old}
  <2>1. DOMAIN r = 1 .. len - 1
    BY <1>12, LenProperties
  <2>2. ASSUME NEW h \in Cached \ {old} PROVE \E x \in 1 .. len - 1 : r[x] = h
    <3>1. PICK x \in 1 .. len : s[x] = h
      BY <1>4
    <3>2. x \in 1 .. len - 1
      BY <1>5, <3>1
    <3> QED
      BY <1>12, <3>1, <3>2
  <2> QED
    BY <1>11, <1>12, <2>1, <2>2
<1>15. \A x, j \in 1 .. len - 1 : x < j => c[r[x]] > c[r[j]]
  <2> SUFFICES ASSUME NEW x \in 1 .. len - 1, NEW j \in 1 .. len - 1, x < j
               PROVE  c[r[x]] > c[r[j]]
    OBVIOUS
  <2>1. cache[s[x]] > cache[s[j]]
    BY <1>4
  <2>2. c[r[x]] = cache[s[x]] /\ c[r[j]] = cache[s[j]]
    <3>1. r[x] = s[x] /\ r[j] = s[j] /\ s[x] \in Cached \ {old} /\ s[j] \in Cached \ {old}
      BY <1>11, <1>12
    <3> HIDE DEF c
    <3> QED
      BY <1>10, <3>1
  <2> QED
    BY <2>1, <2>2
<1>16. IsRecency(r, c)
  <2>1. DOMAIN r = 1 .. len - 1
    BY <1>12, LenProperties
  <2> HIDE DEF c
  <2> QED
    BY <1>10, <1>14, <1>15, <2>1 DEF IsRecency
<1>17. IsList(r, c)
  <2> HIDE DEF c
  <2> QED
    BY <1>10, <1>12, <1>13, <1>16 DEF IsList
<1> QED
  BY <1>2, <1>5, <1>9, <1>12, <1>17, Zenon

ListInv == CacheInv /\ CacheTypeOK /\ IsList(Recency, cache)

LEMMA RecencyIs ==
    ASSUME NEW s, IsList(s, cache), CacheInv
    PROVE  Recency = s
<1>1. Stamps(cache)
  BY DEF CacheInv, Stamps, Cached
<1>2. Recency = ListOf(cache)
  BY DEF Recency, ListOf, Cached
<1> QED
  BY <1>1, <1>2, ListIs

LEMMA NextRecencyIs ==
    ASSUME NEW s, IsList(s, cache'), CacheInv'
    PROVE  Recency' = s
<1>1. Stamps(cache')
  BY DEF CacheInv, Stamps, Cached
<1>2. Recency' = ListOf(cache')
  BY DEF Recency, ListOf, Cached
<1> QED
  BY <1>1, <1>2, ListIs

LEMMA InitList == CacheInit => Recency = <<>> /\ IsList(Recency, cache)
<1> SUFFICES ASSUME CacheInit PROVE Recency = <<>> /\ IsList(Recency, cache)
  OBVIOUS
<1>1. DOMAIN cache = {} /\ Cardinality({}) = 0
  BY FS_EmptySet DEF CacheInit
<1>2. <<>> \in Seq(DOMAIN cache) /\ Len(<<>>) = 0 /\ DOMAIN <<>> = {}
  BY EmptySeq
<1>3. IsRecency(<<>>, cache)
  BY <1>1, <1>2 DEF IsRecency
<1>4. IsList(<<>>, cache)
  BY <1>1, <1>2, <1>3 DEF IsList
<1> QED
  BY <1>4, RecencyIs, CacheInit_Inv

\* A hit brings its glyph to the front.
LEMMA HitIsUse ==
    ASSUME ListInv, CacheInv', NEW g \in Glyphs, EnsureHit(g)
    PROVE  Lru!UseAgain(g) /\ IsList(Recency', cache')
<1>1. PICK s : s = Recency /\ IsList(s, cache)
  BY DEF ListInv
<1>2. PICK len \in Nat : len = Len(s) /\ DOMAIN s = 1 .. len
  BY <1>1, ListFacts
<1>3. g \in DOMAIN cache /\ wanted = {} /\ wanted' = {g} /\ cache' = Stamped(cache, g)
  BY DEF EnsureHit, Cached
<1>4. PICK k \in 1 .. Len(s) : s[k] = g
  BY <1>1, <1>3, ListFacts
<1>5. /\ DOMAIN cache' = DOMAIN cache /\ cache'[g] = access_counter
      /\ \A h \in DOMAIN cache \ {g} : cache'[h] = cache[h]
  BY <1>3 DEF Stamped
<1>6. Stamps(cache) /\ access_counter \in Nat /\ \A h \in DOMAIN cache : cache[h] < access_counter
  BY DEF ListInv, CacheInv, Stamps, Cached
<1>7. IsList(<<s[k]>> \o RemoveAt(s, k), cache')
  BY <1>1, <1>4, <1>5, <1>6, OldToFront
<1>8. Recency' = <<g>> \o RemoveAt(s, k)
  BY <1>4, <1>7, NextRecencyIs
<1>9. k \in DOMAIN Recency /\ Recency[k] = g
  BY <1>1, <1>2, <1>4
<1> QED
  BY <1>1, <1>3, <1>4, <1>7, <1>8, <1>9, Zenon DEF Lru!UseAgain, Lru!RemoveAt, RemoveAt

\* A miss puts it there, and drops the last one if there is no room.
LEMMA MissIsUse ==
    ASSUME ListInv, CacheInv', NEW g \in Glyphs, EnsureMiss(g)
    PROVE  Lru!UseNew(g) /\ IsList(Recency', cache')
<1>1. PICK s : s = Recency /\ IsList(s, cache)
  BY DEF ListInv
<1>2. PICK len \in Nat : len = Len(s) /\ DOMAIN s = 1 .. len /\ len = Cardinality(Cached)
  BY <1>1, ListFacts DEF IsList, Cached
<1>3. g \notin DOMAIN cache /\ wanted = {} /\ wanted' = {g}
  BY DEF EnsureMiss, Cached
<1>4. /\ Stamps(cache) /\ access_counter \in Nat /\ IsFiniteSet(Cached)
      /\ \A h \in DOMAIN cache : cache[h] < access_counter
      /\ max_cache_size \in Nat \ {0}
  BY CacheAssumption DEF ListInv, CacheInv, Stamps, Cached
<1>5. g \notin ToSet(Recency)
  <2>1. \A x \in 1 .. len : s[x] \in DOMAIN cache
    BY <1>1, <1>2, ListFacts
  <2> QED
    BY <1>1, <1>2, <1>3, <2>1 DEF ToSet
<1>6. ASSUME NEW c, NEW r, IsList(r, c), DOMAIN c \subseteq DOMAIN cache,
             \A h \in DOMAIN c : c[h] = cache[h], cache' = Stamped(c, g)
      PROVE  IsList(<<g>> \o r, cache') /\ Recency' = <<g>> \o r
  <2>1. /\ DOMAIN cache' = DOMAIN c \union {g} /\ cache'[g] = access_counter
        /\ \A h \in DOMAIN c : cache'[h] = c[h]
    BY <1>3, <1>6 DEF Stamped
  <2>2. g \notin DOMAIN c /\ Stamps(c) /\ \A h \in DOMAIN c : c[h] < access_counter
    BY <1>3, <1>4, <1>6 DEF Stamps
  <2>3. Cardinality(DOMAIN cache') = Cardinality(DOMAIN c) + 1
    <3>1. IsFiniteSet(DOMAIN c)
      BY <1>4, <1>6, FS_Subset DEF Cached
    <3> QED
      BY <2>1, <2>2, <3>1, FS_AddElement
  <2>4. IsList(<<g>> \o r, cache')
    BY <1>4, <1>6, <2>1, <2>2, <2>3, NewInFront
  <2> QED
    BY <2>4, NextRecencyIs
<1>7. CASE Cardinality(Cached) >= max_cache_size
  <2>1. Cached # {}
    BY <1>2, <1>4, <1>7, FS_EmptySet
  <2>2. /\ LeastRecentlyUsed = {s[Len(s)]}
        /\ IsList(Front(s), Without({s[Len(s)]}))
    BY <1>1, <2>1, LastIsEvicted DEF ListInv
  <2>3. cache' = Stamped(Without(LeastRecentlyUsed), g)
    BY <1>7 DEF EnsureMiss
  <2>4. PICK c : c = Without({s[Len(s)]})
    OBVIOUS
  <2>5. DOMAIN c \subseteq DOMAIN cache /\ \A h \in DOMAIN c : c[h] = cache[h]
    BY <2>4 DEF Without, Cached
  <2>6. IsList(Front(s), c) /\ cache' = Stamped(c, g)
    BY <2>2, <2>3, <2>4, Zenon
  <2>7. IsList(<<g>> \o Front(s), cache') /\ Recency' = <<g>> \o Front(s)
    BY <1>6, <2>5, <2>6
  <2>8. ~(Len(Recency) < max_cache_size)
    BY <1>1, <1>2, <1>4, <1>7
  <2> QED
    BY <1>1, <1>3, <1>5, <2>7, <2>8, Zenon DEF Lru!UseNew, Lru!ToSet, ToSet, Lru!Front, Front
<1>8. CASE ~(Cardinality(Cached) >= max_cache_size)
  <2>1. cache' = Stamped(cache, g)
    BY <1>8 DEF EnsureMiss
  <2>2. IsList(<<g>> \o s, cache') /\ Recency' = <<g>> \o s
    BY <1>1, <1>6, <2>1
  <2>3. Len(Recency) < max_cache_size
    BY <1>1, <1>2, <1>4, <1>8
  <2> QED
    BY <1>1, <1>3, <1>5, <2>2, <2>3, Zenon DEF Lru!UseNew, Lru!ToSet, ToSet, Lru!Front, Front
<1> QED
  BY <1>7, <1>8

LruNext == (\E g \in Glyphs : Lru!Use(g)) \/ Lru!UseEnds

LEMMA ListStep ==
    ASSUME ListInv, ProgramInv, [TextNext]_allVars, CacheInv', CacheTypeOK'
    PROVE  ListInv' /\ [LruNext]_<<Recency, wanted>>
<1>1. ASSUME UNCHANGED cache PROVE Recency' = Recency /\ IsList(Recency', cache')
  <2>1. Recency' = Recency
    BY <1>1 DEF Recency, Cached
  <2> QED
    BY <1>1, <2>1 DEF ListInv
<1>2. CASE EnsureGlyph
  <2>1. PICK g \in Glyphs : EnsureCached(g)
    <3>1. InLine /\ column < Len(lines[row]) /\ EnsureCached(lines[row][column + 1])
      BY <1>2 DEF EnsureGlyph
    <3>2. lines[row][column + 1] \in Glyphs
      BY <3>1, CharIsText, SectionAssumption DEF Printable
    <3> QED
      BY <3>1, <3>2
  <2>2. Lru!Use(g) /\ IsList(Recency', cache')
    BY <2>1, HitIsUse, MissIsUse DEF EnsureCached, Lru!Use
  <2> QED
    BY <2>2 DEF ListInv, LruNext
<1>3. CASE DrawGlyph
  <2>1. wanted # {} /\ wanted' = {} /\ UNCHANGED cache
    BY <1>3 DEF DrawGlyph, GetCached
  <2> QED
    BY <1>1, <2>1 DEF ListInv, LruNext, Lru!UseEnds
<1>4. CASE UNCHANGED cacheVars
  BY <1>1, <1>4 DEF cacheVars, ListInv
<1> QED
  BY <1>2, <1>3, <1>4
  DEF TextNext, allVars, cacheVars, Flash, UpdateText, Wrap, RenderSection, SkipLine,
      LineEnds, SectionEnds

\* For every limit: the cache is a list of the glyphs used last, whatever the
\* texts that are drawn one after the other.
THEOREM CacheIsLru == TextSpec => ImplementsLru
<1>1. TextInit => ListInv /\ Lru!LruInit
  <2>1. TextInit => CacheInit /\ wanted = {}
    BY DEF TextInit, CacheInit
  <2>2. CacheInit => CacheInv /\ Recency = <<>> /\ IsList(Recency, cache)
    BY CacheInit_Inv, InitList
  <2>3. TextInit => CacheTypeOK
    BY InitProgram DEF ProgramInv
  <2> QED
    BY <2>1, <2>2, <2>3 DEF ListInv, Lru!LruInit
<1>2. CacheInv /\ [TextNext]_allVars => CacheInv'
  BY CacheSteps, CacheStep_Inv
<1>3. ProgramInv => CacheTypeOK
  BY DEF ProgramInv
<1>4. ListInv => CacheInv
  BY DEF ListInv
<1>5. ListInv /\ ProgramInv /\ ProgramInv' /\ [TextNext]_allVars
         => ListInv' /\ [LruNext]_<<Recency, wanted>>
  <2>1. ProgramInv' => CacheTypeOK'
    BY DEF ProgramInv
  <2> QED
    BY <1>2, <1>4, <2>1, ListStep
<1>6. TextSpec => [][LruNext]_<<Recency, wanted>>
  BY <1>1, <1>5, ProgramIsRight, PTL DEF TextSpec
<1> QED
  BY <1>1, <1>6, PTL DEF TextSpec, ImplementsLru, Lru!LruSpec, LruNext
=============================================================================
