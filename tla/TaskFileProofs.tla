---------------------------- MODULE TaskFileProofs ----------------------------
(* What the rewrites of a task file do to its sections, and what its page    *)
(* shows, for every body of every length.                                    *)
EXTENDS TaskPage, SequenceTheorems, FiniteSetTheorems, WellFoundedInduction, TLAPS

-----------------------------------------------------------------------------
(* Least and greatest members                                                 *)

LEMMA LessIsWellFounded ==
  \E R : IsWellFoundedOn(R, Nat) /\ \A m, n \in Nat : m < n => <<m, n>> \in R
<1> DEFINE R == OpToRel(<, Nat)
<1>1. IsWellFoundedOn(R, Nat)
  BY NatLessThanWellFounded
<1>2. \A m, n \in Nat : m < n => <<m, n>> \in R
  BY DEF OpToRel
<1> HIDE DEF R
<1> QED BY <1>1, <1>2

LEMMA LeastExists ==
  ASSUME NEW S \in SUBSET Nat, S # {}
  PROVE  \E i \in S : \A j \in S : i <= j
<1>1. PICK R : IsWellFoundedOn(R, Nat) /\ \A m, n \in Nat : m < n => <<m, n>> \in R
  BY LessIsWellFounded
<1>2. \E i \in S : \A j \in S : ~ (<<j, i>> \in R)
  <2> DEFINE N == Nat
  <2>1. IsWellFoundedOn(R, N) /\ S \subseteq N
    BY <1>1
  <2> HIDE DEF N
  <2> QED BY <2>1, WFMin
<1>3. PICK i \in S : \A j \in S : ~ (<<j, i>> \in R)
  BY <1>2
<1>4. S \subseteq Nat /\ \A j \in S : ~ (j < i)
  BY <1>1, <1>3
<1>5. \A j \in S : i <= j
  BY <1>4
<1> QED BY <1>5

LEMMA EarliestIs ==
  ASSUME NEW S \in SUBSET Nat, S # {}
  PROVE  Earliest(S) \in S /\ \A j \in S : Earliest(S) <= j
BY LeastExists DEF Earliest

LEMMA LatestIs ==
  ASSUME NEW S \in SUBSET Nat, S # {}, NEW n \in Nat, \A i \in S : i <= n
  PROVE  Latest(S) \in S /\ \A j \in S : j <= Latest(S)
<1> DEFINE T == {n - i : i \in S}
<1>1. T \in SUBSET Nat /\ T # {}
  <2>1. \A i \in S : n - i \in Nat
    OBVIOUS
  <2>2. \E i \in S : TRUE
    OBVIOUS
  <2> QED BY <2>1, <2>2
<1>2. PICK t \in T : \A u \in T : t <= u
  BY <1>1, LeastExists
<1>3. PICK i \in S : t = n - i
  OBVIOUS
<1>4. \A j \in S : j <= i
  <2> SUFFICES ASSUME NEW j \in S PROVE j <= i
    OBVIOUS
  <2>1. n - i <= n - j
    BY <1>2, <1>3
  <2> QED BY <2>1
<1> QED BY <1>4 DEF Latest

-----------------------------------------------------------------------------
(* Fences                                                                     *)

Fences(b, lo, hi) == {j \in lo..hi : b[j].is = "fence"}
Count(b, lo, hi) == Cardinality(Fences(b, lo, hi))

LEMMA InCodeCounts ==
  ASSUME NEW b, NEW i
  PROVE  InCode(b, i) <=> b[i].is = "fence" \/ Count(b, 1, i - 1) % 2 = 1
BY DEF InCode, Count, Fences

LEMMA CountType ==
  ASSUME NEW b, NEW lo \in Nat, NEW hi \in Nat
  PROVE  IsFiniteSet(Fences(b, lo, hi)) /\ Count(b, lo, hi) \in Nat
<1>1. IsFiniteSet(lo..hi)
  BY FS_Interval
<1>2. Fences(b, lo, hi) \in SUBSET (lo..hi)
  BY DEF Fences
<1>3. IsFiniteSet(Fences(b, lo, hi))
  BY <1>1, <1>2, FS_Subset
<1> QED BY <1>3, FS_CardinalityType DEF Count

LEMMA CountNone ==
  ASSUME NEW b, NEW lo \in Nat, NEW hi \in Nat, \A j \in lo..hi : b[j].is # "fence"
  PROVE  Count(b, lo, hi) = 0
<1>1. Fences(b, lo, hi) = {}
  BY DEF Fences
<1> QED BY <1>1, FS_EmptySet DEF Count

LEMMA CountSplit ==
  ASSUME NEW b, NEW lo \in Nat, NEW mid \in Nat, NEW hi \in Nat,
         lo <= mid + 1, mid <= hi
  PROVE  Count(b, lo, hi) = Count(b, lo, mid) + Count(b, mid + 1, hi)
<1> DEFINE S == Fences(b, lo, mid)
           T == Fences(b, mid + 1, hi)
<1>1. IsFiniteSet(S) /\ IsFiniteSet(T)
  BY CountType
<1>2. Fences(b, lo, hi) = S \cup T /\ S \cap T = {}
  BY DEF Fences
<1>3. Cardinality(S \cup T) = Cardinality(S) + Cardinality(T) - 0
  BY <1>1, <1>2, FS_Union, FS_EmptySet
<1>4. Cardinality(S) \in Nat /\ Cardinality(T) \in Nat
  BY CountType DEF Count
<1> HIDE DEF S, T
<1>5. Cardinality(S \cup T) = Cardinality(S) + Cardinality(T)
  BY <1>3, <1>4
<1> QED BY <1>2, <1>5 DEF Count, S, T

LEMMA CountNext ==
  ASSUME NEW b, NEW n \in Nat, n >= 1, b[n].is # "fence"
  PROVE  n - 1 \in Nat /\ Count(b, 1, n - 1) \in Nat /\ Count(b, 1, n) = Count(b, 1, n - 1)
<1>1. n - 1 \in Nat
  OBVIOUS
<1>2. Fences(b, 1, n) = Fences(b, 1, n - 1)
  BY DEF Fences
<1> QED BY <1>1, <1>2, CountType DEF Count

LEMMA CountSame ==
  ASSUME NEW b, NEW c, NEW lo \in Nat, NEW hi \in Nat, \A j \in lo..hi : c[j] = b[j]
  PROVE  Count(c, lo, hi) = Count(b, lo, hi)
<1>1. Fences(c, lo, hi) = Fences(b, lo, hi)
  BY DEF Fences
<1> QED BY <1>1 DEF Count

\* The lines of b from p to hi stand in c from q on.
Copied(b, c, p, q, hi) == \A j \in p..hi : c[j - p + q] = b[j]

LEMMA CountShift ==
  ASSUME NEW b, NEW c, NEW p \in Nat, NEW q \in Nat, NEW hi \in Nat, NEW n \in Nat,
         hi - p = n - q, Copied(b, c, p, q, hi)
  PROVE  Count(c, q, n) = Count(b, p, hi)
<1> USE DEF Copied
<1> DEFINE S == Fences(b, p, hi)
           T == Fences(c, q, n)
           f == [j \in S |-> j - p + q]
<1>1. f \in [S -> T]
  BY DEF Fences
<1>2. \A i, j \in S : f[i] = f[j] => i = j
  BY DEF Fences
<1>3. \A t \in T : \E j \in S : f[j] = t
  <2> SUFFICES ASSUME NEW t \in T
               PROVE  \E j \in S : f[j] = t
    OBVIOUS
  <2>1. t - q + p \in p..hi /\ (t - q + p) - p + q = t
    BY DEF Fences
  <2>2. t - q + p \in S
    BY <2>1 DEF Fences
  <2> QED BY <2>1, <2>2
<1>4. f \in Bijection(S, T)
  BY <1>1, <1>2, <1>3 DEF Bijection, Injection, Surjection, IsInjective
<1>5. IsFiniteSet(S)
  BY CountType
<1> HIDE DEF S, T, f
<1>6. Cardinality(T) = Cardinality(S)
  BY <1>4, <1>5, FS_Bijection DEF ExistsBijection
<1> QED BY <1>6 DEF S, T, Count

-----------------------------------------------------------------------------
(* Rewrites.  c is b with its lines a + 1 to z replaced by those of c up to y. *)

Heading(line) == line.is \in {"section", "title"}
Stops(b) == {i \in DOMAIN b : Heading(b[i]) /\ ~ InCode(b, i)}

Patch(b, c, a, z, y) ==
  /\ b \in Seq(Line) /\ c \in Seq(Line)
  /\ a \in Nat /\ z \in Nat /\ y \in Nat
  /\ a <= z /\ z <= Len(b)
  /\ a <= y /\ Len(c) = Len(b) - z + y
  /\ \A i \in 1..a : c[i] = b[i]
  /\ \A i \in (z + 1)..Len(b) : c[i - z + y] = b[i]
  /\ z < Len(b) => Count(b, a + 1, z) % 2 = Count(c, a + 1, y) % 2
  /\ \A i \in (a + 1)..z : i \notin Stops(b)
  /\ \A i \in (a + 1)..y : i \notin Stops(c)

\* Where the rewrite puts a line that it leaves alone.
Moved(i, a, z, y) == IF i <= a THEN i ELSE i - z + y

LEMMA LineAt ==
  ASSUME NEW b \in Seq(Line), NEW i \in 1..Len(b)
  PROVE  b[i] \in Line /\ i \in DOMAIN b
BY ElementOfSeq, LenProperties

LEMMA PatchInCode ==
  ASSUME NEW b, NEW c, NEW a, NEW z, NEW y, Patch(b, c, a, z, y),
         NEW i \in 1..Len(b), i \notin (a + 1)..z
  PROVE  LET m == Moved(i, a, z, y)
         IN  m \in 1..Len(c) /\ c[m] = b[i] /\ (InCode(c, m) <=> InCode(b, i))
<1> USE DEF Patch
<1>0. Len(b) \in Nat /\ Len(c) \in Nat
  BY LenProperties
<1>1. CASE i <= a
  <2>1. Moved(i, a, z, y) = i /\ i \in 1..Len(c) /\ c[i] = b[i]
    BY <1>0, <1>1 DEF Moved
  <2>2. Count(c, 1, i - 1) = Count(b, 1, i - 1)
    <3>1. \A j \in 1..(i - 1) : c[j] = b[j]
      BY <1>0, <1>1
    <3> HIDE DEF Patch
    <3> QED BY <3>1, CountSame
  <2> QED BY <2>1, <2>2, InCodeCounts
<1>2. CASE i > z
  <2> DEFINE m == i - z + y
  <2>1. Moved(i, a, z, y) = m /\ m \in 1..Len(c) /\ c[m] = b[i]
    BY <1>0, <1>2 DEF Moved
  <2>2. Count(b, 1, i - 1) = Count(b, 1, a) + Count(b, a + 1, z) + Count(b, z + 1, i - 1)
    <3>1. Count(b, 1, i - 1) = Count(b, 1, z) + Count(b, z + 1, i - 1)
      BY <1>0, <1>2, CountSplit
    <3>2. Count(b, 1, z) = Count(b, 1, a) + Count(b, a + 1, z)
      BY <1>0, CountSplit
    <3> QED BY <3>1, <3>2
  <2>3. Count(c, 1, m - 1) = Count(c, 1, a) + Count(c, a + 1, y) + Count(c, y + 1, m - 1)
    <3>0. m - 1 \in Nat /\ y <= m - 1
      BY <1>0, <1>2
    <3>1. Count(c, 1, m - 1) = Count(c, 1, y) + Count(c, y + 1, m - 1)
      BY <3>0, CountSplit
    <3>2. Count(c, 1, y) = Count(c, 1, a) + Count(c, a + 1, y)
      BY <1>0, CountSplit
    <3> QED BY <3>1, <3>2
  <2>4. Count(c, 1, a) = Count(b, 1, a)
    BY CountSame
  <2>5. Count(c, y + 1, m - 1) = Count(b, z + 1, i - 1)
    <3>1. /\ i - 1 \in Nat /\ m - 1 \in Nat /\ (i - 1) - (z + 1) = (m - 1) - (y + 1)
          /\ z + 1 \in Nat /\ y + 1 \in Nat
      BY <1>0, <1>2
    <3>2. \A j \in (z + 1)..(i - 1) : c[j - (z + 1) + (y + 1)] = b[j]
      <4> SUFFICES ASSUME NEW j \in (z + 1)..(i - 1)
                   PROVE  c[j - (z + 1) + (y + 1)] = b[j]
        OBVIOUS
      <4>1. j - (z + 1) + (y + 1) = j - z + y /\ j \in (z + 1)..Len(b)
        BY <1>0
      <4> QED BY <4>1
    <3> DEFINE p == z + 1
               q == y + 1
               hi == i - 1
               n == m - 1
    <3>3. /\ p \in Nat /\ q \in Nat /\ hi \in Nat /\ n \in Nat /\ hi - p = n - q
          /\ Copied(b, c, p, q, hi)
      BY <3>1, <3>2 DEF Copied
    <3> HIDE DEF m, Patch, p, q, hi, n
    <3>4. Count(c, q, n) = Count(b, p, hi)
      BY <3>3, CountShift
    <3> QED BY <3>4 DEF p, q, hi, n
  <2>6. Count(b, a + 1, z) % 2 = Count(c, a + 1, y) % 2
    BY <1>0, <1>2
  <2>7. /\ Count(b, 1, a) \in Nat /\ Count(b, a + 1, z) \in Nat
        /\ Count(b, z + 1, i - 1) \in Nat /\ Count(c, a + 1, y) \in Nat
    BY <1>0, <1>2, CountType
  <2>8. Count(b, 1, i - 1) % 2 = Count(c, 1, m - 1) % 2
    <3> DEFINE p == Count(b, 1, a)
               q == Count(b, a + 1, z)
               r == Count(b, z + 1, i - 1)
               s == Count(c, a + 1, y)
    <3>2. Count(b, 1, i - 1) = p + q + r /\ Count(c, 1, m - 1) = p + s + r
      BY <2>2, <2>3, <2>4, <2>5
    <3>3. p \in Nat /\ q \in Nat /\ r \in Nat /\ s \in Nat /\ q % 2 = s % 2
      BY <2>6, <2>7
    <3> HIDE DEF m, p, q, r, s
    <3>4. (p + q + r) % 2 = (p + s + r) % 2
      BY <3>3
    <3> QED BY <3>2, <3>4
  <2> QED BY <2>1, <2>8, InCodeCounts
<1> QED BY <1>0, <1>1, <1>2

LEMMA EarliestUnique ==
  ASSUME NEW S \in SUBSET Nat, NEW e \in S, \A j \in S : e <= j
  PROVE  Earliest(S) = e
<1>1. Earliest(S) \in S /\ Earliest(S) <= e
  BY EarliestIs
<1>2. Earliest(S) \in Nat /\ e \in Nat /\ e <= Earliest(S)
  BY <1>1
<1> QED BY <1>1, <1>2

LEMMA HeadsAreStops ==
  ASSUME NEW b, NEW name
  PROVE  Heads(b, name) = {i \in Stops(b) : b[i] = Section(name)}
BY DEF Heads, Stops, Heading, Section

LEMMA StopsType ==
  ASSUME NEW b \in Seq(Line)
  PROVE  Stops(b) \subseteq 1..Len(b) /\ Stops(b) \in SUBSET Nat /\ Len(b) \in Nat
BY LenProperties DEF Stops

\* The first live heading of a section.
LEMMA HeadIs ==
  ASSUME NEW b \in Seq(Line), NEW name, HasSection(b, name)
  PROVE  /\ HeadOf(b, name) \in Stops(b)
         /\ HeadOf(b, name) \in 1..Len(b)
         /\ HeadOf(b, name) \in Nat
         /\ b[HeadOf(b, name)] = Section(name)
         /\ \A i \in Stops(b) : b[i] = Section(name) => HeadOf(b, name) <= i
<1>1. Heads(b, name) \in SUBSET Nat /\ Heads(b, name) # {}
  BY HeadsAreStops, StopsType DEF HasSection
<1>2. HeadOf(b, name) \in Heads(b, name) /\ \A i \in Heads(b, name) : HeadOf(b, name) <= i
  BY <1>1, EarliestIs DEF HeadOf
<1> QED BY <1>2, HeadsAreStops, StopsType

LEMMA HeadUnique ==
  ASSUME NEW b \in Seq(Line), NEW name, NEW h \in Stops(b), b[h] = Section(name),
         \A i \in Stops(b) : b[i] = Section(name) => h <= i
  PROVE  HasSection(b, name) /\ HeadOf(b, name) = h
<1>1. /\ Heads(b, name) \in SUBSET Nat /\ h \in Heads(b, name)
      /\ \A i \in Heads(b, name) : h <= i
  BY HeadsAreStops, StopsType
<1>2. Earliest(Heads(b, name)) = h
  BY <1>1, EarliestUnique
<1> QED BY <1>1, <1>2 DEF HasSection, HeadOf

\* The live heading after it, or the end of the file.
Ends(b, name) == {Len(b) + 1} \cup {i \in Stops(b) : i > HeadOf(b, name)}

LEMMA EndIsEarliest ==
  ASSUME NEW b, NEW name
  PROVE  EndOf(b, name) = Earliest(Ends(b, name))
<1>1. Ends(b, name) = {Len(b) + 1} \cup
        {i \in DOMAIN b : /\ i > HeadOf(b, name)
                          /\ b[i].is \in {"section", "title"}
                          /\ ~ InCode(b, i)}
  BY DEF Ends, Stops, Heading
<1> QED BY <1>1 DEF EndOf

LEMMA EndIs ==
  ASSUME NEW b \in Seq(Line), NEW name, HasSection(b, name)
  PROVE  /\ EndOf(b, name) \in Nat
         /\ HeadOf(b, name) < EndOf(b, name)
         /\ EndOf(b, name) <= Len(b) + 1
         /\ EndOf(b, name) \in Stops(b) \/ EndOf(b, name) = Len(b) + 1
         /\ \A i \in Stops(b) : i > HeadOf(b, name) => EndOf(b, name) <= i
<1>1. Ends(b, name) \in SUBSET Nat /\ Len(b) + 1 \in Ends(b, name)
  BY StopsType DEF Ends
<1>2. /\ EndOf(b, name) \in Ends(b, name)
      /\ \A i \in Ends(b, name) : EndOf(b, name) <= i
  BY <1>1, EarliestIs, EndIsEarliest
<1> QED BY <1>1, <1>2, HeadIs, StopsType DEF Ends

LEMMA EndUnique ==
  ASSUME NEW b \in Seq(Line), NEW name, NEW e \in Ends(b, name),
         \A i \in Ends(b, name) : e <= i
  PROVE  EndOf(b, name) = e
<1>1. Ends(b, name) \in SUBSET Nat
  BY StopsType DEF Ends
<1> QED BY <1>1, EarliestUnique, EndIsEarliest

-----------------------------------------------------------------------------
(* What a rewrite does to the headings                                        *)

LEMMA PatchStops ==
  ASSUME NEW b, NEW c, NEW a, NEW z, NEW y, Patch(b, c, a, z, y)
  PROVE  /\ \A i \in Stops(b) : /\ i <= a \/ z < i
                                /\ Moved(i, a, z, y) \in Stops(c)
                                /\ c[Moved(i, a, z, y)] = b[i]
         /\ \A m \in Stops(c) : \E i \in Stops(b) : m = Moved(i, a, z, y)
<1>0. /\ b \in Seq(Line) /\ c \in Seq(Line) /\ Len(b) \in Nat /\ Len(c) \in Nat
      /\ a \in Nat /\ z \in Nat /\ y \in Nat /\ a <= z /\ z <= Len(b)
      /\ a <= y /\ Len(c) = Len(b) - z + y
      /\ \A i \in (a + 1)..z : i \notin Stops(b)
      /\ \A i \in (a + 1)..y : i \notin Stops(c)
      /\ DOMAIN b = 1..Len(b) /\ DOMAIN c = 1..Len(c)
  BY LenProperties DEF Patch
<1>1. ASSUME NEW i \in Stops(b)
      PROVE  /\ i <= a \/ z < i
             /\ Moved(i, a, z, y) \in Stops(c)
             /\ c[Moved(i, a, z, y)] = b[i]
  <2>1. i \in 1..Len(b) /\ i \notin (a + 1)..z /\ Heading(b[i]) /\ ~ InCode(b, i)
    BY <1>0 DEF Stops
  <2>2. /\ Moved(i, a, z, y) \in 1..Len(c) /\ c[Moved(i, a, z, y)] = b[i]
        /\ ~ InCode(c, Moved(i, a, z, y))
    BY <2>1, PatchInCode
  <2> QED BY <1>0, <2>1, <2>2 DEF Stops
<1>2. ASSUME NEW m \in Stops(c)
      PROVE  \E i \in Stops(b) : m = Moved(i, a, z, y)
  <2>1. m \in 1..Len(c) /\ m \notin (a + 1)..y /\ Heading(c[m]) /\ ~ InCode(c, m)
    BY <1>0 DEF Stops
  <2>2. PICK i \in 1..Len(b) : m = Moved(i, a, z, y) /\ i \notin (a + 1)..z
    <3>1. CASE m <= a
      BY <1>0, <2>1, <3>1 DEF Moved
    <3>2. CASE m > y
      <4>1. /\ m - y + z \in 1..Len(b) /\ m - y + z > a /\ m - y + z > z
            /\ (m - y + z) - z + y = m
        BY <1>0, <2>1, <3>2
      <4> QED BY <1>0, <4>1 DEF Moved
    <3> QED BY <1>0, <2>1, <3>1, <3>2
  <2>3. c[m] = b[i] /\ (InCode(c, m) <=> InCode(b, i))
    BY <2>2, PatchInCode
  <2>4. i \in Stops(b)
    BY <1>0, <2>1, <2>3 DEF Stops
  <2> QED BY <2>2, <2>4
<1> QED BY <1>1, <1>2

LEMMA MovedInOrder ==
  ASSUME NEW a \in Nat, NEW z \in Nat, NEW y \in Nat, a <= z, a <= y,
         NEW i \in Nat, NEW j \in Nat, i <= a \/ z < i, j <= a \/ z < j
  PROVE  /\ Moved(i, a, z, y) \in Nat
         /\ i <= j <=> Moved(i, a, z, y) <= Moved(j, a, z, y)
         /\ i < j <=> Moved(i, a, z, y) < Moved(j, a, z, y)
BY DEF Moved

\* A section is after the rewrite where its heading went.
LEMMA PatchHead ==
  ASSUME NEW b, NEW c, NEW a, NEW z, NEW y, Patch(b, c, a, z, y),
         NEW name, HasSection(b, name)
  PROVE  /\ HasSection(c, name)
         /\ HeadOf(c, name) = Moved(HeadOf(b, name), a, z, y)
         /\ HeadOf(b, name) <= a \/ z < HeadOf(b, name)
<1> DEFINE h == HeadOf(b, name)
           m == Moved(h, a, z, y)
<1>0. /\ b \in Seq(Line) /\ c \in Seq(Line)
      /\ a \in Nat /\ z \in Nat /\ y \in Nat /\ a <= z /\ a <= y
  BY DEF Patch
<1>1. /\ h \in Stops(b) /\ b[h] = Section(name) /\ h \in Nat
      /\ \A i \in Stops(b) : b[i] = Section(name) => h <= i
  BY <1>0, HeadIs
<1>2. m \in Stops(c) /\ c[m] = Section(name) /\ (h <= a \/ z < h)
  BY <1>1, PatchStops
<1>3. ASSUME NEW k \in Stops(c), c[k] = Section(name)
      PROVE  m <= k
  <2>1. PICK i \in Stops(b) : k = Moved(i, a, z, y)
    BY PatchStops
  <2>2. c[k] = b[i] /\ (i <= a \/ z < i)
    BY <2>1, PatchStops
  <2>3. h <= i /\ i \in Nat
    BY <1>0, <1>1, <1>3, <2>2, StopsType
  <2> QED BY <1>0, <1>1, <1>2, <2>1, <2>2, <2>3, MovedInOrder
<1> HIDE DEF h, m
<1>4. HasSection(c, name) /\ HeadOf(c, name) = m
  BY <1>0, <1>2, <1>3, HeadUnique
<1> QED BY <1>2, <1>4 DEF h, m

LEMMA PatchEnd ==
  ASSUME NEW b, NEW c, NEW a, NEW z, NEW y, Patch(b, c, a, z, y),
         NEW name, HasSection(b, name)
  PROVE  /\ EndOf(c, name) = Moved(EndOf(b, name), a, z, y)
         /\ EndOf(b, name) <= a \/ z < EndOf(b, name)
<1> DEFINE h == HeadOf(b, name)
           e == EndOf(b, name)
           m == Moved(e, a, z, y)
<1>0. /\ b \in Seq(Line) /\ c \in Seq(Line) /\ Len(b) \in Nat /\ Len(c) \in Nat
      /\ a \in Nat /\ z \in Nat /\ y \in Nat /\ a <= z /\ a <= y
      /\ z <= Len(b) /\ Len(c) = Len(b) - z + y
  BY LenProperties DEF Patch
<1>1. /\ e \in Nat /\ h < e /\ e <= Len(b) + 1
      /\ e \in Stops(b) \/ e = Len(b) + 1
      /\ \A i \in Stops(b) : i > h => e <= i
  BY <1>0, EndIs
<1>2. /\ h \in Nat /\ h \in Stops(b) /\ (h <= a \/ z < h)
      /\ HeadOf(c, name) = Moved(h, a, z, y)
  BY <1>0, HeadIs, PatchHead
<1>3. e <= a \/ z < e
  BY <1>0, <1>1, PatchStops
<1> HIDE DEF h, e
<1>4. m \in Ends(c, name)
  <2>1. CASE e \in Stops(b)
    <3>1. m \in Stops(c)
      BY <2>1, PatchStops
    <3>2. m > HeadOf(c, name)
      <4>1. Moved(h, a, z, y) < m /\ Moved(h, a, z, y) \in Nat /\ m \in Nat
        BY <1>0, <1>1, <1>2, <1>3, MovedInOrder
      <4> HIDE DEF m
      <4> QED BY <1>2, <4>1
    <3> QED BY <3>1, <3>2 DEF Ends
  <2>2. CASE e = Len(b) + 1
    <3>1. m = Len(c) + 1
      BY <1>0, <2>2 DEF Moved
    <3> QED BY <3>1 DEF Ends
  <2> QED BY <1>1, <2>1, <2>2
<1>5. ASSUME NEW k \in Ends(c, name)
      PROVE  m <= k
  <2>1. CASE k = Len(c) + 1
    BY <1>0, <1>1, <2>1 DEF Moved
  <2>2. CASE k \in Stops(c) /\ k > HeadOf(c, name)
    <3>1. PICK i \in Stops(b) : k = Moved(i, a, z, y)
      BY <2>2, PatchStops
    <3>2. i \in Nat /\ (i <= a \/ z < i)
      BY <1>0, PatchStops, StopsType
    <3>3. h < i
      <4>1. /\ Moved(h, a, z, y) \in Nat /\ Moved(i, a, z, y) \in Nat
            /\ h < i <=> Moved(h, a, z, y) < Moved(i, a, z, y)
        BY <1>0, <1>2, <3>2, MovedInOrder
      <4>2. Moved(h, a, z, y) < Moved(i, a, z, y)
        BY <1>2, <2>2, <3>1, <4>1
      <4> QED BY <4>1, <4>2
    <3>4. e <= i
      BY <1>1, <1>2, <3>2, <3>3
    <3> QED BY <1>0, <1>1, <1>3, <3>1, <3>2, <3>4, MovedInOrder
  <2> QED BY <1>5, <2>1, <2>2 DEF Ends
<1> HIDE DEF m
<1>6. EndOf(c, name) = m
  BY <1>0, <1>4, <1>5, EndUnique
<1> QED BY <1>3, <1>6 DEF m, e

-----------------------------------------------------------------------------
(* What a rewrite leaves of the other sections                                *)

Part(s, m, n) == SubSeq(s, m, n)

\* The lines of b from lo to hi are those of c from m to n.
SameLines(b, c, lo, hi, m, n) ==
  /\ b \in Seq(Line) /\ c \in Seq(Line)
  /\ lo \in Nat /\ hi \in Nat /\ m \in Nat /\ n \in Nat
  /\ lo >= 1 /\ hi <= Len(b) /\ m >= 1 /\ n <= Len(c)
  /\ hi - lo = n - m
  /\ Copied(b, c, lo, m, hi)

LEMMA SubSeqSame ==
  ASSUME NEW b, NEW c, NEW lo, NEW hi, NEW m, NEW n, SameLines(b, c, lo, hi, m, n)
  PROVE  Part(c, m, n) = Part(b, lo, hi)
<1> USE DEF SameLines, Part
<1> DEFINE s == SubSeq(b, lo, hi)
           t == SubSeq(c, m, n)
<1>1. \A i \in lo..hi : b[i] \in Line
  BY LineAt, LenProperties
<1>2. \A i \in m..n : c[i] \in Line
  BY LineAt, LenProperties
<1>3. /\ s \in Seq(Line)
      /\ Len(s) = IF lo <= hi THEN hi - lo + 1 ELSE 0
      /\ \A i \in 1..(hi - lo + 1) : s[i] = b[lo + i - 1]
  BY <1>1, SubSeqProperties
<1>4. /\ t \in Seq(Line)
      /\ Len(t) = IF m <= n THEN n - m + 1 ELSE 0
      /\ \A i \in 1..(n - m + 1) : t[i] = c[m + i - 1]
  BY <1>2, SubSeqProperties
<1> HIDE DEF s, t
<1>5. Len(s) = Len(t)
  BY <1>3, <1>4
<1>6. \A i \in 1..Len(s) : s[i] = t[i]
  <2> SUFFICES ASSUME NEW i \in 1..Len(s)
               PROVE  s[i] = t[i]
    OBVIOUS
  <2>1. i \in 1..(hi - lo + 1) /\ i \in 1..(n - m + 1) /\ lo + i - 1 \in lo..hi
    BY <1>3
  <2>2. (lo + i - 1) - lo + m = m + i - 1
    BY <2>1
  <2>3. c[m + i - 1] = b[lo + i - 1]
    BY <2>1, <2>2 DEF Copied
  <2> QED BY <1>3, <1>4, <2>1, <2>3
<1>7. s = t
  BY <1>3, <1>4, <1>5, <1>6, SeqEqual
<1> QED BY <1>7 DEF s, t

\* A section all above or all below the rewritten lines is what it was.
LEMMA PatchContent ==
  ASSUME NEW b, NEW c, NEW a, NEW z, NEW y, Patch(b, c, a, z, y),
         NEW name, HasSection(b, name), EndOf(b, name) <= a \/ z < HeadOf(b, name)
  PROVE  Content(c, name) = Content(b, name)
<1> DEFINE h == HeadOf(b, name)
           e == EndOf(b, name)
<1>0. /\ b \in Seq(Line) /\ c \in Seq(Line) /\ Len(b) \in Nat /\ Len(c) \in Nat
      /\ a \in Nat /\ z \in Nat /\ y \in Nat /\ a <= z /\ a <= y
      /\ z <= Len(b) /\ Len(c) = Len(b) - z + y
      /\ \A i \in 1..a : c[i] = b[i]
      /\ \A i \in (z + 1)..Len(b) : c[i - z + y] = b[i]
  BY LenProperties DEF Patch
<1>1. h \in Nat /\ h >= 1 /\ e \in Nat /\ h < e /\ e <= Len(b) + 1
  BY <1>0, HeadIs, EndIs
<1>2. HeadOf(c, name) = Moved(h, a, z, y) /\ EndOf(c, name) = Moved(e, a, z, y)
  BY PatchHead, PatchEnd
<1> HIDE DEF h, e
<1>3. CASE e <= a
  <2>1. HeadOf(c, name) = h /\ EndOf(c, name) = e
    BY <1>0, <1>1, <1>2, <1>3 DEF Moved
  <2>2. /\ h + 1 \in Nat /\ e - 1 \in Nat /\ h + 1 >= 1 /\ e - 1 <= Len(b)
        /\ e - 1 <= Len(c) /\ (e - 1) - (h + 1) = (e - 1) - (h + 1)
    BY <1>0, <1>1, <1>3
  <2>3. Copied(b, c, h + 1, h + 1, e - 1)
    <3> SUFFICES ASSUME NEW j \in (h + 1)..(e - 1)
                 PROVE  c[j - (h + 1) + (h + 1)] = b[j]
      BY DEF Copied
    <3>1. j \in 1..a /\ j - (h + 1) + (h + 1) = j
      BY <1>0, <1>1, <1>3
    <3> QED BY <1>0, <3>1
  <2>4. Part(c, h + 1, e - 1) = Part(b, h + 1, e - 1)
    <3>1. SameLines(b, c, h + 1, e - 1, h + 1, e - 1)
      BY <1>0, <2>2, <2>3 DEF SameLines
    <3> QED BY <3>1, SubSeqSame
  <2> QED BY <2>1, <2>4 DEF Content, Part, h, e
<1>4. CASE z < h
  <2> DEFINE k == h - z + y
             f == e - z + y
  <2>1. HeadOf(c, name) = k /\ EndOf(c, name) = f
    BY <1>0, <1>1, <1>2, <1>4 DEF Moved
  <2>2. /\ h + 1 \in Nat /\ e - 1 \in Nat /\ h + 1 >= 1 /\ e - 1 <= Len(b)
        /\ k + 1 \in Nat /\ f - 1 \in Nat /\ k + 1 >= 1 /\ f - 1 <= Len(c)
        /\ (e - 1) - (h + 1) = (f - 1) - (k + 1)
    BY <1>0, <1>1, <1>4
  <2>3. Copied(b, c, h + 1, k + 1, e - 1)
    <3> SUFFICES ASSUME NEW j \in (h + 1)..(e - 1)
                 PROVE  c[j - (h + 1) + (k + 1)] = b[j]
      BY DEF Copied
    <3>1. j \in (z + 1)..Len(b) /\ j - (h + 1) + (k + 1) = j - z + y
      BY <1>0, <1>1, <1>4
    <3> QED BY <1>0, <3>1
  <2> HIDE DEF k, f
  <2>4. Part(c, k + 1, f - 1) = Part(b, h + 1, e - 1)
    <3>1. SameLines(b, c, h + 1, e - 1, k + 1, f - 1)
      BY <1>0, <2>2, <2>3 DEF SameLines
    <3> QED BY <3>1, SubSeqSame
  <2> QED BY <2>1, <2>4 DEF Content, Part, h, e
<1> QED BY <1>3, <1>4 DEF h, e

\* Its lines stay in it, and the new lines are in the section they are put in.
LEMMA PatchInside ==
  ASSUME NEW b, NEW c, NEW a, NEW z, NEW y, Patch(b, c, a, z, y),
         NEW name, HasSection(b, name)
  PROVE  /\ \A i \in Inside(b, name) :
              i <= a \/ z < i => /\ Moved(i, a, z, y) \in Inside(c, name)
                                 /\ c[Moved(i, a, z, y)] = b[i]
         /\ HeadOf(b, name) <= a /\ z < EndOf(b, name) =>
              \A i \in (a + 1)..y : i \in Inside(c, name)
<1> DEFINE h == HeadOf(b, name)
           e == EndOf(b, name)
<1>0. /\ b \in Seq(Line) /\ Len(b) \in Nat
      /\ a \in Nat /\ z \in Nat /\ y \in Nat /\ a <= z /\ a <= y /\ z <= Len(b)
  BY LenProperties DEF Patch
<1>1. h \in Nat /\ h >= 1 /\ e \in Nat /\ h < e /\ e <= Len(b) + 1
  BY <1>0, HeadIs, EndIs
<1>2. /\ HeadOf(c, name) = Moved(h, a, z, y) /\ EndOf(c, name) = Moved(e, a, z, y)
      /\ h <= a \/ z < h
      /\ e <= a \/ z < e
  BY PatchHead, PatchEnd
<1> HIDE DEF h, e
<1>3. ASSUME NEW i \in (h + 1)..(e - 1), i <= a \/ z < i
      PROVE  Moved(i, a, z, y) \in Inside(c, name) /\ c[Moved(i, a, z, y)] = b[i]
  <2>1. i \in 1..Len(b) /\ i \notin (a + 1)..z /\ i \in Nat /\ h < i /\ i < e
    BY <1>0, <1>1, <1>3
  <2>2. /\ Moved(h, a, z, y) < Moved(i, a, z, y)
        /\ Moved(i, a, z, y) < Moved(e, a, z, y)
        /\ Moved(h, a, z, y) \in Nat /\ Moved(i, a, z, y) \in Nat
        /\ Moved(e, a, z, y) \in Nat
    BY <1>0, <1>1, <1>2, <1>3, <2>1, MovedInOrder
  <2>3. c[Moved(i, a, z, y)] = b[i]
    BY <2>1, PatchInCode
  <2>4. Moved(i, a, z, y) \in (Moved(h, a, z, y) + 1)..(Moved(e, a, z, y) - 1)
    BY <2>2
  <2> QED BY <1>2, <2>3, <2>4 DEF Inside
<1>4. ASSUME h <= a, z < e, NEW i \in (a + 1)..y
      PROVE  i \in Inside(c, name)
  <2>1. Moved(h, a, z, y) = h /\ Moved(e, a, z, y) = e - z + y
    BY <1>0, <1>1, <1>4 DEF Moved
  <2>2. i \in (h + 1)..((e - z + y) - 1)
    BY <1>0, <1>1, <1>4
  <2> QED BY <1>2, <2>1, <2>2 DEF Inside
<1> QED BY <1>3, <1>4 DEF Inside, h, e

-----------------------------------------------------------------------------
(* Rewrites that put a text in                                                *)

\* c is b with the lines of mid for its lines a + 1 to z.
Spliced(b, c, a, z, mid) ==
  /\ b \in Seq(Line) /\ c \in Seq(Line) /\ mid \in Seq(Line)
  /\ a \in Nat /\ z \in Nat /\ a <= z /\ z <= Len(b)
  /\ Len(c) = a + Len(mid) + Len(b) - z
  /\ \A i \in 1..a : c[i] = b[i]
  /\ \A i \in 1..Len(mid) : c[a + i] = mid[i]
  /\ \A i \in (z + 1)..Len(b) : c[i - z + a + Len(mid)] = b[i]

LEMMA SpliceIs ==
  ASSUME NEW b \in Seq(Line), NEW mid \in Seq(Line), NEW a \in Nat, NEW z \in Nat,
         a <= z, z <= Len(b)
  PROVE  Spliced(b, SubSeq(b, 1, a) \o mid \o SubSeq(b, z + 1, Len(b)), a, z, mid)
<1> DEFINE s == SubSeq(b, 1, a)
           t == SubSeq(b, z + 1, Len(b))
           u == s \o mid
           c == u \o t
<1>0. Len(b) \in Nat /\ Len(mid) \in Nat /\ \A i \in 1..Len(b) : b[i] \in Line
  BY LenProperties, ElementOfSeq
<1>1. /\ s \in Seq(Line) /\ Len(s) = a /\ \A i \in 1..a : s[i] = b[i]
  <2>1. \A i \in 1..a : b[i] \in Line
    BY <1>0
  <2>2. /\ s \in Seq(Line)
        /\ Len(s) = IF 1 <= a THEN a - 1 + 1 ELSE 0
        /\ \A i \in 1..(a - 1 + 1) : s[i] = b[1 + i - 1]
    BY <2>1, SubSeqProperties
  <2> HIDE DEF s
  <2> QED BY <2>2
<1>2. /\ t \in Seq(Line) /\ Len(t) = Len(b) - z
      /\ \A i \in 1..(Len(b) - z) : t[i] = b[z + i]
  <2>1. \A i \in (z + 1)..Len(b) : b[i] \in Line
    BY <1>0
  <2>2. /\ t \in Seq(Line)
        /\ Len(t) = IF z + 1 <= Len(b) THEN Len(b) - (z + 1) + 1 ELSE 0
        /\ \A i \in 1..(Len(b) - (z + 1) + 1) : t[i] = b[z + 1 + i - 1]
    BY <1>0, <2>1, SubSeqProperties
  <2> HIDE DEF t
  <2> QED BY <1>0, <2>2
<1> HIDE DEF s, t
<1>3. /\ u \in Seq(Line) /\ Len(u) = a + Len(mid)
      /\ \A i \in 1..(a + Len(mid)) : u[i] = IF i <= a THEN s[i] ELSE mid[i - a]
  BY <1>1, ConcatProperties
<1> HIDE DEF u
<1>4. /\ c \in Seq(Line) /\ Len(c) = a + Len(mid) + (Len(b) - z)
      /\ \A i \in 1..(a + Len(mid) + (Len(b) - z)) :
           c[i] = IF i <= a + Len(mid) THEN u[i] ELSE t[i - (a + Len(mid))]
  <2>1. /\ c \in Seq(Line) /\ Len(c) = Len(u) + Len(t)
        /\ \A i \in 1..(Len(u) + Len(t)) :
             c[i] = IF i <= Len(u) THEN u[i] ELSE t[i - Len(u)]
    <3>1. u \in Seq(Line) /\ t \in Seq(Line)
      BY <1>2, <1>3
    <3> QED BY <3>1, ConcatProperties
  <2> HIDE DEF c
  <2> QED BY <1>2, <1>3, <2>1
<1> HIDE DEF c
<1>5. \A i \in 1..a : c[i] = b[i]
  <2> SUFFICES ASSUME NEW i \in 1..a
               PROVE  c[i] = b[i]
    OBVIOUS
  <2>1. i \in 1..(a + Len(mid)) /\ i \in 1..(a + Len(mid) + (Len(b) - z)) /\ i <= a
    BY <1>0
  <2>2. c[i] = u[i] /\ u[i] = s[i]
    BY <1>0, <1>3, <1>4, <2>1
  <2> QED BY <1>1, <2>2
<1>6. \A i \in 1..Len(mid) : c[a + i] = mid[i]
  <2> SUFFICES ASSUME NEW i \in 1..Len(mid)
               PROVE  c[a + i] = mid[i]
    OBVIOUS
  <2>1. /\ a + i \in 1..(a + Len(mid)) /\ ~ (a + i <= a) /\ (a + i) - a = i
        /\ a + i \in 1..(a + Len(mid) + (Len(b) - z)) /\ a + i <= a + Len(mid)
    BY <1>0
  <2>2. u[a + i] = mid[i]
    BY <1>3, <2>1
  <2>3. c[a + i] = u[a + i]
    BY <1>4, <2>1
  <2> QED BY <2>2, <2>3
<1>7. \A i \in (z + 1)..Len(b) : c[i - z + a + Len(mid)] = b[i]
  <2> SUFFICES ASSUME NEW i \in (z + 1)..Len(b)
               PROVE  c[i - z + a + Len(mid)] = b[i]
    OBVIOUS
  <2>1. /\ i - z + a + Len(mid) \in 1..(a + Len(mid) + (Len(b) - z))
        /\ ~ (i - z + a + Len(mid) <= a + Len(mid))
        /\ (i - z + a + Len(mid)) - (a + Len(mid)) = i - z
        /\ i - z \in 1..(Len(b) - z) /\ z + (i - z) = i
    BY <1>0
  <2> QED BY <1>2, <1>4, <2>1
<1>8. Spliced(b, c, a, z, mid)
  BY <1>0, <1>4, <1>5, <1>6, <1>7 DEF Spliced
<1> QED BY <1>8 DEF c, u, s, t

\* A text is contained when its fences pair up and its headings are in code: put
\* between the lines of a body it starts no section.
Contained(s) ==
  /\ Count(s, 1, Len(s)) % 2 = 0
  /\ \A i \in 1..Len(s) : Heading(s[i]) => InCode(s, i)

\* Up to line a every fence is closed.
Open(b, a) == Count(b, 1, a) % 2 = 0

LEMMA SplicedCount ==
  ASSUME NEW b, NEW c, NEW a, NEW z, NEW mid, Spliced(b, c, a, z, mid),
         NEW n \in 0..Len(mid)
  PROVE  /\ Count(c, a + 1, a + n) = Count(mid, 1, n)
         /\ Count(c, 1, a + n) = Count(b, 1, a) + Count(mid, 1, n)
<1>0. /\ a \in Nat /\ n \in Nat /\ n <= Len(mid) /\ Len(mid) \in Nat
      /\ \A i \in 1..a : c[i] = b[i]
      /\ \A i \in 1..Len(mid) : c[a + i] = mid[i]
  <2>1. /\ a \in Nat /\ mid \in Seq(Line)
        /\ \A i \in 1..a : c[i] = b[i]
        /\ \A i \in 1..Len(mid) : c[a + i] = mid[i]
    BY DEF Spliced
  <2>2. Len(mid) \in Nat
    BY <2>1, LenProperties
  <2>3. n \in Nat /\ n <= Len(mid)
    BY <2>2
  <2> QED BY <2>1, <2>2, <2>3
<1>1. Count(c, a + 1, a + n) = Count(mid, 1, n)
  <2> DEFINE q == a + 1
             hi == a + n
  <2>1. q \in Nat /\ hi \in Nat /\ n - 1 = hi - q
    BY <1>0
  <2>2. Copied(mid, c, 1, q, n)
    <3> SUFFICES ASSUME NEW j \in 1..n
                 PROVE  c[j - 1 + q] = mid[j]
      BY DEF Copied
    <3>1. j - 1 + q = a + j /\ j \in 1..Len(mid)
      BY <1>0
    <3> QED BY <1>0, <3>1
  <2> HIDE DEF q, hi
  <2>3. Count(c, q, hi) = Count(mid, 1, n)
    BY <1>0, <2>1, <2>2, CountShift
  <2> QED BY <2>3 DEF q, hi
<1>2. Count(c, 1, a) = Count(b, 1, a)
  <2>1. a \in Nat /\ \A i \in 1..a : c[i] = b[i]
    BY <1>0
  <2> HIDE DEF Spliced
  <2> QED BY <2>1, CountSame
<1>3. Count(c, 1, a + n) = Count(c, 1, a) + Count(c, a + 1, a + n)
  <2>1. a + n \in Nat /\ a <= a + n /\ 1 <= a + 1
    BY <1>0
  <2> HIDE DEF Spliced
  <2> QED BY <1>0, <2>1, CountSplit
<1> QED BY <1>1, <1>2, <1>3

LEMMA SplicePatch ==
  ASSUME NEW b, NEW c, NEW a, NEW z, NEW mid, Spliced(b, c, a, z, mid),
         Contained(mid),
         Open(b, a) \/ \A i \in 1..Len(mid) : mid[i].is # "fence" /\ ~ Heading(mid[i]),
         z < Len(b) => Count(b, a + 1, z) % 2 = 0,
         \A i \in (a + 1)..z : i \notin Stops(b)
  PROVE  Patch(b, c, a, z, a + Len(mid))
<1>0. /\ b \in Seq(Line) /\ c \in Seq(Line) /\ mid \in Seq(Line) /\ Len(mid) \in Nat
      /\ a \in Nat /\ z \in Nat /\ a <= z /\ z <= Len(b) /\ Len(b) \in Nat
      /\ Len(c) = a + Len(mid) + Len(b) - z
      /\ \A i \in 1..a : c[i] = b[i]
      /\ \A i \in 1..Len(mid) : c[a + i] = mid[i]
      /\ \A i \in (z + 1)..Len(b) : c[i - z + a + Len(mid)] = b[i]
  BY LenProperties DEF Spliced
<1> DEFINE y == a + Len(mid)
<1>1. /\ y \in Nat /\ a <= y /\ Len(c) = Len(b) - z + y
  BY <1>0
<1>2. \A i \in (z + 1)..Len(b) : c[i - z + y] = b[i]
  <2> SUFFICES ASSUME NEW i \in (z + 1)..Len(b)
               PROVE  c[i - z + y] = b[i]
    OBVIOUS
  <2>1. i - z + y = i - z + a + Len(mid)
    BY <1>0
  <2> QED BY <1>0, <2>1
<1>3. Count(c, a + 1, y) % 2 = 0
  <2>1. Len(mid) \in 0..Len(mid)
    BY <1>0
  <2>2. Count(c, a + 1, a + Len(mid)) = Count(mid, 1, Len(mid))
    BY <2>1, SplicedCount
  <2> QED BY <2>2 DEF Contained
<1>4. \A m \in (a + 1)..y : m \notin Stops(c)
  <2> SUFFICES ASSUME NEW m \in (a + 1)..y, Heading(c[m])
               PROVE  InCode(c, m)
    BY DEF Stops
  <2> DEFINE i == m - a
             n == i - 1
  <2>1. /\ i \in 1..Len(mid) /\ n \in 0..Len(mid) /\ m = a + i /\ m - 1 = a + n
        /\ n \in Nat
    BY <1>0
  <2>2. c[m] = mid[i]
    BY <1>0, <2>1
  <2> HIDE DEF i, y
  <2>3. Open(b, a) /\ InCode(mid, i)
    BY <2>1, <2>2 DEF Contained
  <2>4. Count(c, 1, a + n) = Count(b, 1, a) + Count(mid, 1, n)
    BY <2>1, SplicedCount
  <2>5. Count(b, 1, a) \in Nat /\ Count(mid, 1, n) \in Nat
    <3> HIDE DEF n
    <3> QED BY <1>0, <2>1, CountType
  <2>6. mid[i].is = "fence" \/ Count(mid, 1, n) % 2 = 1
    BY <2>3, InCodeCounts
  <2>7. mid[i].is = "fence" \/ Count(c, 1, m - 1) % 2 = 1
    <3> DEFINE k == Count(b, 1, a)
               l == Count(mid, 1, n)
    <3>1. k \in Nat /\ l \in Nat /\ k % 2 = 0 /\ Count(c, 1, m - 1) = k + l
      BY <2>1, <2>3, <2>4, <2>5 DEF Open
    <3>2. mid[i].is = "fence" \/ l % 2 = 1
      BY <2>6
    <3> HIDE DEF k, l, n
    <3>3. l % 2 = 1 => (k + l) % 2 = 1
      BY <3>1
    <3> QED BY <3>1, <3>2, <3>3
  <2> QED BY <2>2, <2>7, InCodeCounts
<1>5. z < Len(b) => Count(b, a + 1, z) % 2 = Count(c, a + 1, y) % 2
  BY <1>3
<1>6. Patch(b, c, a, z, y)
  <2> HIDE DEF y
  <2> QED BY <1>0, <1>1, <1>2, <1>4, <1>5 DEF Patch
<1> QED BY <1>6

LEMMA LinesType ==
  /\ Blank \in Line /\ Blank.is = "blank" /\ ~ Heading(Blank)
  /\ \A n \in Nat : Entry(n) \in Line /\ Entry(n).is = "entry" /\ ~ Heading(Entry(n))
  /\ \A n \in Nat : Marker(n) \in Line /\ Marker(n).is = "marker" /\ ~ Heading(Marker(n))
  /\ \A n \in Nat : Section(n) \in Line /\ Section(n).is = "section" /\ Heading(Section(n))
BY DEF Blank, Plain, Line, Kind, Heading, Entry, Marker, Section

LEMMA PaddedIsContained ==
  ASSUME NEW s \in Seq(Line), Contained(s)
  PROVE  LET mid == <<Blank>> \o s \o <<Blank>>
         IN  mid \in Seq(Line) /\ Len(mid) = Len(s) + 2 /\ Contained(mid)
<1> DEFINE one == <<Blank>>
           u == one \o s
           mid == u \o one
           two == <<Blank, Blank>>
           n == Len(s)
<1>0. /\ n \in Nat /\ one \in Seq(Line) /\ Len(one) = 1 /\ one[1] = Blank
      /\ two \in Seq(Line) /\ Len(two) = 2 /\ two[1] = Blank /\ two[2] = Blank
  BY LenProperties, LinesType
<1> HIDE DEF one, two, n
<1>1. /\ u \in Seq(Line) /\ Len(u) = 1 + n
      /\ \A i \in 1..(1 + n) : u[i] = IF i <= 1 THEN one[i] ELSE s[i - 1]
  <2>1. /\ u \in Seq(Line) /\ Len(u) = Len(one) + Len(s)
        /\ \A i \in 1..(Len(one) + Len(s)) :
             u[i] = IF i <= Len(one) THEN one[i] ELSE s[i - Len(one)]
    BY <1>0, ConcatProperties
  <2> HIDE DEF u
  <2> QED BY <1>0, <2>1 DEF n
<1> HIDE DEF u
<1>2. /\ mid \in Seq(Line) /\ Len(mid) = n + 2
      /\ \A i \in 1..(n + 2) : mid[i] = IF i <= n + 1 THEN u[i] ELSE one[i - (n + 1)]
  <2>1. /\ mid \in Seq(Line) /\ Len(mid) = Len(u) + Len(one)
        /\ \A i \in 1..(Len(u) + Len(one)) :
             mid[i] = IF i <= Len(u) THEN u[i] ELSE one[i - Len(u)]
    <3>1. u \in Seq(Line) /\ one \in Seq(Line)
      BY <1>0, <1>1
    <3> QED BY <3>1, ConcatProperties
  <2> HIDE DEF mid
  <2> QED BY <1>0, <1>1, <2>1
<1> HIDE DEF mid
<1>3. mid[1] = Blank /\ mid[n + 2] = Blank /\ \A i \in 1..n : mid[1 + i] = s[i]
  <2>1. mid[1] = Blank /\ mid[n + 2] = Blank
    BY <1>0, <1>1, <1>2
  <2>2. ASSUME NEW i \in 1..n
        PROVE  mid[1 + i] = s[i]
    <3>1. /\ 1 + i \in 1..(1 + n) /\ 1 + i \in 1..(n + 2) /\ 1 + i <= n + 1
          /\ ~ (1 + i <= 1) /\ (1 + i) - 1 = i
      BY <1>0
    <3>2. mid[1 + i] = u[1 + i]
      BY <1>2, <3>1
    <3>3. u[1 + i] = s[i]
      BY <1>1, <3>1
    <3> QED BY <3>2, <3>3
  <2> QED BY <2>1, <2>2
<1>4. Spliced(two, mid, 1, 1, s)
  <2>1. \A i \in 1..1 : mid[i] = two[i]
    BY <1>0, <1>3
  <2>2. \A i \in 2..2 : mid[i - 1 + 1 + Len(s)] = two[i]
    BY <1>0, <1>3 DEF n
  <2>3. /\ two \in Seq(Line) /\ mid \in Seq(Line) /\ s \in Seq(Line)
        /\ 1 <= Len(two) /\ 1 + 1 = 2 /\ Len(two) = 2 /\ Len(mid) = 1 + Len(s) + Len(two) - 1
    BY <1>0, <1>2 DEF n
  <2>4. \A i \in 1..Len(s) : mid[1 + i] = s[i]
    BY <1>3 DEF n
  <2> QED BY <2>1, <2>2, <2>3, <2>4 DEF Spliced
<1>5. ASSUME NEW k \in 0..n
      PROVE  Count(mid, 1, 1 + k) = Count(s, 1, k) /\ Count(s, 1, k) \in Nat
  <2>1. Count(mid, 1, 1 + k) = Count(two, 1, 1) + Count(s, 1, k)
    BY <1>4, SplicedCount DEF n
  <2>2. Count(two, 1, 1) = 0
    BY <1>0, CountNone, LinesType
  <2>3. Count(s, 1, k) \in Nat
    BY <1>0, CountType
  <2> QED BY <2>1, <2>2, <2>3
<1>6. Count(mid, 1, n + 2) % 2 = 0
  <2>1. Count(mid, 1, n + 2) = Count(mid, 1, 1 + n)
    <3> DEFINE k == n + 2
    <3>1. k \in Nat /\ k >= 1 /\ mid[k].is # "fence" /\ k - 1 = 1 + n
      BY <1>0, <1>3, LinesType
    <3> HIDE DEF k
    <3>2. Count(mid, 1, k) = Count(mid, 1, k - 1)
      BY <3>1, CountNext
    <3> QED BY <3>1, <3>2 DEF k
  <2>3. Count(mid, 1, 1 + n) = Count(s, 1, n) /\ Count(s, 1, n) \in Nat
    BY <1>0, <1>5
  <2>4. Count(s, 1, n) % 2 = 0
    BY DEF Contained, n
  <2> QED BY <2>1, <2>3, <2>4
<1>7. ASSUME NEW m \in 1..(n + 2), Heading(mid[m])
      PROVE  InCode(mid, m)
  <2>1. m # 1 /\ m # n + 2
    BY <1>3, <1>7, LinesType
  <2>2. m - 1 \in 1..n /\ m - 2 \in 0..n /\ 1 + (m - 1) = m /\ 1 + (m - 2) = m - 1
        /\ (m - 1) - 1 = m - 2
    <3>1. n \in Nat
      BY <1>0
    <3> QED BY <2>1, <3>1
  <2>3. mid[m] = s[m - 1]
    BY <1>3, <2>2
  <2>4. InCode(s, m - 1)
    BY <1>7, <2>2, <2>3 DEF Contained, n
  <2>5. Count(mid, 1, m - 1) = Count(s, 1, m - 2)
    BY <1>5, <2>2
  <2>6. s[m - 1].is = "fence" \/ Count(s, 1, m - 2) % 2 = 1
    BY <2>2, <2>4, InCodeCounts
  <2> QED BY <2>3, <2>5, <2>6, InCodeCounts
<1>8. Contained(mid)
  BY <1>2, <1>6, <1>7 DEF Contained
<1> QED BY <1>2, <1>8 DEF mid, u, one, n

\* Every fence above a live heading is closed.
LEMMA StopsAreOpen ==
  ASSUME NEW b \in Seq(Line), NEW h \in Stops(b)
  PROVE  Open(b, h - 1) /\ Open(b, h)
<1>1. h \in 1..Len(b) /\ h \in Nat /\ b[h].is # "fence" /\ Count(b, 1, h - 1) % 2 # 1
  BY InCodeCounts, StopsType DEF Stops
<1>2. Count(b, 1, h - 1) \in Nat /\ Count(b, 1, h) = Count(b, 1, h - 1)
  BY <1>1, CountNext
<1>3. Count(b, 1, h - 1) % 2 = 0
  BY <1>1, <1>2
<1> QED BY <1>2, <1>3 DEF Open

Regrouped(p, q, r, s) == p \o q \o r \o s = p \o (q \o r \o s)

Grouped(p, q, r) == (p \o q) \o r = p \o (q \o r)

LEMMA LinesConcat ==
  ASSUME NEW p \in Seq(Line), NEW q \in Seq(Line), NEW r \in Seq(Line)
  PROVE  Grouped(p, q, r)
<1> DEFINE S == Line
<1>1. p \in Seq(S) /\ q \in Seq(S) /\ r \in Seq(S)
  OBVIOUS
<1> HIDE DEF S
<1> QED BY <1>1, ConcatAssociative DEF Grouped

LEMMA Regroup ==
  ASSUME NEW p \in Seq(Line), NEW q \in Seq(Line), NEW r \in Seq(Line), NEW s \in Seq(Line)
  PROVE  Regrouped(p, q, r, s)
<1>1. PICK t \in Seq(Line) : t = q \o r
  BY ConcatProperties
<1>2. (p \o q) \o r = p \o t
  <2>1. Grouped(p, q, r)
    BY LinesConcat
  <2> QED BY <1>1, <2>1 DEF Grouped
<1>3. (p \o t) \o s = p \o (t \o s)
  <2>1. Grouped(p, t, s)
    BY LinesConcat
  <2> QED BY <2>1 DEF Grouped
<1>4. ((p \o q) \o r) \o s = (p \o t) \o s
  BY <1>2
<1>5. p \o q \o r \o s = p \o (t \o s)
  BY <1>3, <1>4
<1> QED BY <1>1, <1>5 DEF Regrouped

\* SetSection rewrites the lines of its section and no others.
LEMMA SetPatch ==
  ASSUME NEW b \in Seq(Line), NEW name, HasSection(b, name), NEW s \in Seq(Line), Contained(s)
  PROVE  Patch(b, SetSection(b, name, s), HeadOf(b, name), EndOf(b, name) - 1,
               HeadOf(b, name) + (Len(s) + 2))
<1> DEFINE h == HeadOf(b, name)
           e == EndOf(b, name)
           z == e - 1
           one == <<Blank>>
           mid == one \o s \o one
           A == SubSeq(b, 1, h)
           T == SubSeq(b, e, Len(b))
           c == A \o mid \o T
<1>1. /\ h \in Stops(b) /\ h \in Nat /\ h \in 1..Len(b) /\ Len(b) \in Nat
      /\ e \in Nat /\ h < e /\ e <= Len(b) + 1
      /\ e \in Stops(b) \/ e = Len(b) + 1
      /\ \A i \in Stops(b) : i > h => e <= i
  BY HeadIs, EndIs, StopsType
<1>2. mid \in Seq(Line) /\ Len(mid) = Len(s) + 2 /\ Contained(mid)
  BY PaddedIsContained
<1>3. SetSection(b, name, s) = c
  <2>1. A \in Seq(Line) /\ one \in Seq(Line)
    <3>1. \A i \in 1..h : b[i] \in Line
      BY <1>1, LineAt
    <3>2. A \in Seq(Line)
      BY <1>1, <3>1, SubSeqProperties
    <3> QED BY <3>2, LinesType
  <2>2. A \o one \o s \o one = A \o (one \o s \o one)
    <3> HIDE DEF A, one
    <3>1. Regrouped(A, one, s, one)
      BY <2>1, Regroup
    <3> QED BY <3>1 DEF Regrouped
  <2>4. SetSection(b, name, s) = (((A \o one) \o s) \o one) \o T
    BY DEF SetSection
  <2> HIDE DEF A, one, T
  <2> QED BY <2>2, <2>4
<1> HIDE DEF h, e, mid
<1>4. /\ z \in Nat /\ h <= z /\ z <= Len(b) /\ z + 1 = e
  BY <1>1
<1>5. Spliced(b, c, h, z, mid)
  <2> HIDE DEF z
  <2>1. Spliced(b, SubSeq(b, 1, h) \o mid \o SubSeq(b, z + 1, Len(b)), h, z, mid)
    BY <1>1, <1>2, <1>4, SpliceIs
  <2> QED BY <1>4, <2>1
<1> HIDE DEF c, z
<1>6. Open(b, h)
  BY <1>1, StopsAreOpen
<1>7. z < Len(b) => Count(b, h + 1, z) % 2 = 0
  <2> SUFFICES ASSUME z < Len(b)
               PROVE  Count(b, h + 1, z) % 2 = 0
    OBVIOUS
  <2>1. e \in Stops(b) /\ e - 1 = z
    BY <1>1, <1>4
  <2>2. Open(b, z)
    BY <2>1, StopsAreOpen
  <2>3. /\ Count(b, 1, z) = Count(b, 1, h) + Count(b, h + 1, z)
        /\ Count(b, 1, h) \in Nat /\ Count(b, h + 1, z) \in Nat
    BY <1>1, <1>4, CountSplit, CountType
  <2> QED BY <1>6, <2>2, <2>3 DEF Open
<1>8. \A i \in (h + 1)..z : i \notin Stops(b)
  BY <1>1, <1>4
<1>9. Patch(b, c, h, z, h + Len(mid))
  BY <1>2, <1>5, <1>6, <1>7, <1>8, SplicePatch
<1> QED BY <1>2, <1>3, <1>9 DEF h, e, z

\* HandEdit: what is inserted below a line outside code leaves the rest as it is.
LEMMA InsertPatch ==
  ASSUME NEW b \in Seq(Line), NEW k \in 1..Len(b), ~ InCode(b, k),
         NEW s \in Seq(Line), Contained(s)
  PROVE  Patch(b, SubSeq(b, 1, k) \o s \o SubSeq(b, k + 1, Len(b)), k, k, k + Len(s))
<1> DEFINE c == SubSeq(b, 1, k) \o s \o SubSeq(b, k + 1, Len(b))
<1>1. k \in Nat /\ k <= Len(b) /\ Len(b) \in Nat
  BY LenProperties
<1>2. Spliced(b, c, k, k, s)
  BY <1>1, SpliceIs
<1>3. Open(b, k)
  <2>1. k - 1 \in Nat /\ b[k].is # "fence" /\ Count(b, 1, k - 1) % 2 # 1
    BY <1>1, InCodeCounts
  <2>2. Count(b, 1, k - 1) \in Nat /\ Count(b, 1, k) = Count(b, 1, k - 1)
    BY <1>1, <2>1, CountNext
  <2> QED BY <2>1, <2>2 DEF Open
<1>4. Count(b, k + 1, k) = 0
  <2>1. k + 1 \in Nat /\ \A j \in (k + 1)..k : b[j].is # "fence"
    BY <1>1
  <2> QED BY <1>1, <2>1, CountNone
<1> HIDE DEF c
<1>5. Patch(b, c, k, k, k + Len(s))
  <2>1. /\ k < Len(b) => Count(b, k + 1, k) % 2 = 0
        /\ \A i \in (k + 1)..k : i \notin Stops(b)
    BY <1>1, <1>4
  <2> QED BY <1>2, <1>3, <2>1, SplicePatch
<1> QED BY <1>5 DEF c

\* Where AppendEntry puts its line: below the last line of the section that is not
\* blank, with a blank one between when that is the heading.
LastOf(b, name) ==
  Latest({HeadOf(b, name)} \cup {i \in Inside(b, name) : b[i].is # "blank"})
Added(b, name, entry) ==
  (IF LastOf(b, name) = HeadOf(b, name) THEN <<Blank>> ELSE <<>>) \o <<entry>>

LEMMA AddedIs ==
  ASSUME NEW b \in Seq(Line), NEW name, HasSection(b, name), NEW n \in Nat
  PROVE  LET mid == Added(b, name, Entry(n))
         IN  /\ mid \in Seq(Line) /\ Len(mid) \in {1, 2} /\ mid[Len(mid)] = Entry(n)
             /\ \A i \in 1..Len(mid) : mid[i].is # "fence" /\ ~ Heading(mid[i])
             /\ Contained(mid)
<1> DEFINE mid == Added(b, name, Entry(n))
<1> DEFINE pad == IF LastOf(b, name) = HeadOf(b, name) THEN <<Blank>> ELSE <<>>
           new == <<Entry(n)>>
<1>1. /\ pad \in Seq(Line) /\ Len(pad) \in {0, 1} /\ \A i \in 1..Len(pad) : pad[i] = Blank
      /\ new \in Seq(Line) /\ Len(new) = 1 /\ new[1] = Entry(n)
  BY LinesType
<1>2. /\ mid \in Seq(Line) /\ Len(mid) \in {1, 2} /\ mid[Len(mid)] = Entry(n)
      /\ \A i \in 1..Len(mid) : mid[i] \in {Blank, Entry(n)}
  <2>1. mid = pad \o new
    BY DEF Added
  <2> HIDE DEF mid, pad, new
  <2>2. /\ mid \in Seq(Line) /\ Len(mid) = Len(pad) + Len(new)
        /\ \A i \in 1..(Len(pad) + Len(new)) :
             mid[i] = IF i <= Len(pad) THEN pad[i] ELSE new[i - Len(pad)]
    BY <1>1, <2>1, ConcatProperties
  <2>3. CASE Len(pad) = 0
    BY <1>1, <2>2, <2>3
  <2>4. CASE Len(pad) = 1
    BY <1>1, <2>2, <2>4
  <2> QED BY <1>1, <2>3, <2>4
<1> HIDE DEF mid, pad, new
<1>3. \A i \in 1..Len(mid) : mid[i].is # "fence" /\ ~ Heading(mid[i])
  BY <1>2, LinesType
<1>4. Count(mid, 1, Len(mid)) = 0
  <2>1. Len(mid) \in Nat
    BY <1>2
  <2> QED BY <1>3, <2>1, CountNone
<1>5. Contained(mid)
  BY <1>3, <1>4 DEF Contained
<1> QED BY <1>2, <1>3, <1>5 DEF mid

LEMMA AppendPatch ==
  ASSUME NEW b \in Seq(Line), NEW name, HasSection(b, name), NEW n \in Nat
  PROVE  LET c == AppendEntry(b, name, Entry(n))
             a == LastOf(b, name)
             y == a + Len(Added(b, name, Entry(n)))
         IN  /\ Patch(b, c, a, a, y)
             /\ HeadOf(b, name) <= a /\ a < EndOf(b, name)
             /\ a < y /\ c[y] = Entry(n)
<1> DEFINE h == HeadOf(b, name)
           e == EndOf(b, name)
           S == {h} \cup {i \in Inside(b, name) : b[i].is # "blank"}
           a == LastOf(b, name)
           mid == Added(b, name, Entry(n))
           A == SubSeq(b, 1, a)
           pad == IF a = h THEN <<Blank>> ELSE <<>>
           T == SubSeq(b, a + 1, Len(b))
           c == A \o mid \o T
<1>1. /\ h \in Stops(b) /\ h \in Nat /\ h \in 1..Len(b) /\ Len(b) \in Nat
      /\ e \in Nat /\ h < e /\ e <= Len(b) + 1
      /\ \A i \in Stops(b) : i > h => e <= i
  BY HeadIs, EndIs, StopsType
<1>2. a \in S /\ h <= a
  <2>1. S \in SUBSET Nat /\ S # {} /\ \A i \in S : i <= e
    <3> HIDE DEF h, e
    <3> QED BY <1>1 DEF Inside, h, e
  <2>2. Latest(S) \in S /\ \A j \in S : j <= Latest(S)
    <3> HIDE DEF S, e
    <3> QED BY <1>1, <2>1, LatestIs
  <2> QED BY <2>2 DEF LastOf
<1>3. a \in Nat /\ a <= Len(b) /\ a < e /\ h <= a /\ a >= 1
  <2>1. a = h \/ a \in Inside(b, name)
    BY <1>2
  <2> HIDE DEF a, S
  <2> QED BY <1>1, <1>2, <2>1 DEF Inside
<1>4. /\ mid \in Seq(Line) /\ Len(mid) \in {1, 2} /\ mid[Len(mid)] = Entry(n)
      /\ \A i \in 1..Len(mid) : mid[i].is # "fence" /\ ~ Heading(mid[i])
      /\ Contained(mid)
  BY AddedIs
<1>5. AppendEntry(b, name, Entry(n)) = c
  <2>1. AppendEntry(b, name, Entry(n)) = ((A \o pad) \o <<Entry(n)>>) \o T
    BY DEF AppendEntry, LastOf
  <2>2. A \in Seq(Line)
    <3>1. \A i \in 1..a : b[i] \in Line
      BY <1>1, <1>3, LineAt
    <3> QED BY <1>3, <3>1, SubSeqProperties
  <2>3. pad \in Seq(Line) /\ <<Entry(n)>> \in Seq(Line)
    BY LinesType
  <2>4. (A \o pad) \o <<Entry(n)>> = A \o (pad \o <<Entry(n)>>)
    <3> HIDE DEF A, pad
    <3> QED BY <2>2, <2>3, ConcatAssociative
  <2> QED BY <2>1, <2>4 DEF Added
<1> HIDE DEF mid, a, h, e
<1>6. Spliced(b, c, a, a, mid)
  BY <1>1, <1>3, <1>4, SpliceIs
<1> HIDE DEF c
<1>7. Patch(b, c, a, a, a + Len(mid))
  <2>1. Count(b, a + 1, a) = 0
    <3>1. a + 1 \in Nat /\ \A j \in (a + 1)..a : b[j].is # "fence"
      BY <1>3
    <3> QED BY <1>3, <3>1, CountNone
  <2>2. /\ a < Len(b) => Count(b, a + 1, a) % 2 = 0
        /\ \A i \in (a + 1)..a : i \notin Stops(b)
    BY <1>3, <2>1
  <2> QED BY <1>4, <1>6, <2>2, SplicePatch
<1>8. c[a + Len(mid)] = Entry(n)
  <2>1. Len(mid) \in 1..Len(mid)
    BY <1>4
  <2>2. c[a + Len(mid)] = mid[Len(mid)]
    BY <1>6, <2>1 DEF Spliced
  <2> QED BY <1>4, <2>2
<1>9. a < a + Len(mid)
  <2> DEFINE l == Len(mid)
  <2>1. l \in {1, 2} /\ a \in Nat
    BY <1>3, <1>4
  <2> HIDE DEF l
  <2>2. a < a + l
    BY <2>1
  <2> QED BY <2>2 DEF l
<1>10. /\ Patch(b, AppendEntry(b, name, Entry(n)), a, a, a + Len(mid))
       /\ h <= a /\ a < e /\ a < a + Len(mid)
       /\ AppendEntry(b, name, Entry(n))[a + Len(mid)] = Entry(n)
  BY <1>3, <1>5, <1>7, <1>8, <1>9
<1> QED BY <1>10 DEF a, h, e, mid

-----------------------------------------------------------------------------
(* Ascending                                                                  *)

Below(K, i) == {j \in K : j <= i}
Rank(K, i) == Cardinality(Below(K, i))

LEMMA RankType ==
  ASSUME NEW n \in Nat, NEW K \in SUBSET (1..n)
  PROVE  /\ IsFiniteSet(K) /\ Cardinality(K) \in Nat
         /\ \A i \in K : IsFiniteSet(Below(K, i)) /\ Rank(K, i) \in 1..Cardinality(K)
<1>1. IsFiniteSet(1..n)
  BY FS_Interval
<1>2. IsFiniteSet(K) /\ Cardinality(K) \in Nat
  BY <1>1, FS_Subset, FS_CardinalityType
<1>3. ASSUME NEW i \in K
      PROVE  IsFiniteSet(Below(K, i)) /\ Rank(K, i) \in 1..Cardinality(K)
  <2>1. Below(K, i) \in SUBSET K /\ i \in Below(K, i)
    BY DEF Below
  <2>2. IsFiniteSet(Below(K, i)) /\ Rank(K, i) <= Cardinality(K)
    BY <1>2, <2>1, FS_Subset DEF Rank
  <2>3. Rank(K, i) \in Nat /\ Rank(K, i) # 0
    BY <2>1, <2>2, FS_CardinalityType, FS_EmptySet DEF Rank
  <2> QED BY <1>2, <2>2, <2>3
<1> QED BY <1>2, <1>3

LEMMA RankInOrder ==
  ASSUME NEW n \in Nat, NEW K \in SUBSET (1..n), NEW i \in K, NEW j \in K, i < j
  PROVE  Rank(K, i) < Rank(K, j)
<1>1. Below(K, i) \in SUBSET Below(K, j) /\ j \in Below(K, j) /\ j \notin Below(K, i)
  <2>1. i \in Nat /\ j \in Nat /\ \A x \in K : x \in Nat
    OBVIOUS
  <2>2. \A x \in K : x <= i => x <= j
    BY <2>1
  <2>3. j <= j /\ ~ (j <= i)
    BY <2>1
  <2> QED BY <2>2, <2>3 DEF Below
<1>2. IsFiniteSet(Below(K, j)) /\ Rank(K, i) \in Nat /\ Rank(K, j) \in Nat
  BY RankType
<1>3. Rank(K, i) <= Rank(K, j) /\ Rank(K, i) # Rank(K, j)
  BY <1>1, <1>2, FS_Subset DEF Rank
<1> QED BY <1>2, <1>3

LEMMA RankUnique ==
  ASSUME NEW n \in Nat, NEW K \in SUBSET (1..n), NEW i \in K, NEW j \in K,
         Rank(K, i) = Rank(K, j)
  PROVE  i = j
<1>1. i \in Nat /\ j \in Nat /\ Rank(K, i) \in Nat
  <2>1. Cardinality(K) \in Nat /\ Rank(K, i) \in 1..Cardinality(K)
    BY RankType
  <2>2. i \in 1..n /\ j \in 1..n
    OBVIOUS
  <2> QED BY <2>1, <2>2
<1>2. ~ (i < j)
  <2> SUFFICES ASSUME i < j PROVE FALSE
    OBVIOUS
  <2>1. Rank(K, i) < Rank(K, j)
    BY RankInOrder
  <2> QED BY <1>1, <2>1
<1>3. ~ (j < i)
  <2> SUFFICES ASSUME j < i PROVE FALSE
    OBVIOUS
  <2>1. Rank(K, j) < Rank(K, i)
    BY RankInOrder
  <2> QED BY <1>1, <2>1
<1> QED BY <1>1, <1>2, <1>3

LEMMA RankReached ==
  ASSUME NEW n \in Nat, NEW K \in SUBSET (1..n), NEW k \in 1..Cardinality(K)
  PROVE  \E i \in K : Rank(K, i) = k
<1> DEFINE T == 1..Cardinality(K)
           r == [i \in K |-> Rank(K, i)]
<1>1. IsFiniteSet(K) /\ Cardinality(K) \in Nat /\ r \in [K -> T]
  BY RankType
<1>2. r \in Injection(K, T)
  <2>1. \A i, j \in K : r[i] = r[j] => i = j
    BY RankUnique
  <2> HIDE DEF r, T
  <2> QED BY <1>1, <2>1 DEF Injection, IsInjective
<1>3. IsFiniteSet(T) /\ Cardinality(T) = Cardinality(K)
  <2>1. /\ IsFiniteSet(1..Cardinality(K))
        /\ Cardinality(1..Cardinality(K)) =
             IF 1 > Cardinality(K) THEN 0 ELSE Cardinality(K) - 1 + 1
    BY <1>1, FS_Interval
  <2> QED BY <1>1, <2>1
<1>4. k \in T /\ \A i \in K : r[i] = Rank(K, i)
  OBVIOUS
<1> HIDE DEF r, T
<1>5. r \in Surjection(K, T)
  BY <1>1, <1>2, <1>3, FS_Injection
<1>6. \E i \in K : r[i] = k
  BY <1>4, <1>5 DEF Surjection
<1> QED BY <1>4, <1>6

LEMMA AscendingIs ==
  ASSUME NEW n \in Nat, NEW K \in SUBSET (1..n)
  PROVE  /\ Cardinality(K) \in Nat
         /\ DOMAIN Ascending(K) = 1..Cardinality(K)
         /\ \A k \in 1..Cardinality(K) :
              Ascending(K)[k] \in K /\ Rank(K, Ascending(K)[k]) = k
         /\ \A i \in K : Rank(K, i) \in 1..Cardinality(K) /\ Ascending(K)[Rank(K, i)] = i
<1>1. /\ Cardinality(K) \in Nat
      /\ \A i \in K : Rank(K, i) \in 1..Cardinality(K)
  BY RankType
<1> DEFINE place == [i \in K |-> Cardinality({j \in K : j <= i})]
<1>2. Ascending(K) = [k \in 1..Cardinality(K) |-> CHOOSE i \in K : place[i] = k]
  BY DEF Ascending
<1>5. \A i \in K : place[i] = Rank(K, i)
  BY DEF Rank, Below
<1> HIDE DEF place
<1>3. ASSUME NEW k \in 1..Cardinality(K)
      PROVE  Ascending(K)[k] \in K /\ Rank(K, Ascending(K)[k]) = k
  <2>1. \E i \in K : place[i] = k
    BY <1>5, RankReached
  <2>2. Ascending(K)[k] = CHOOSE i \in K : place[i] = k
    BY <1>2
  <2>3. Ascending(K)[k] \in K /\ place[Ascending(K)[k]] = k
    BY <2>1, <2>2
  <2> QED BY <1>5, <2>3
<1>4. ASSUME NEW i \in K
      PROVE  Ascending(K)[Rank(K, i)] = i
  <2>1. /\ Ascending(K)[Rank(K, i)] \in K
        /\ Rank(K, Ascending(K)[Rank(K, i)]) = Rank(K, i)
    BY <1>1, <1>3
  <2> QED BY <2>1, RankUnique
<1> QED BY <1>1, <1>2, <1>3, <1>4

\* Numbers before which none is missing stand at their own places.
LEMMA AscendingStart ==
  ASSUME NEW n \in Nat, NEW K \in SUBSET (1..n), NEW h \in 0..n, 1..h \subseteq K
  PROVE  /\ h <= Cardinality(K)
         /\ \A i \in 1..h : Ascending(K)[i] = i
<1>1. IsFiniteSet(K) /\ Cardinality(K) \in Nat
  BY RankType
<1>2. ASSUME NEW i \in 0..h
      PROVE  Cardinality(1..i) = i
  <2>1. i \in Nat /\ Cardinality(1..i) = IF 1 > i THEN 0 ELSE i - 1 + 1
    BY FS_Interval
  <2> QED BY <2>1
<1>3. h <= Cardinality(K)
  <2>1. Cardinality(1..h) <= Cardinality(K)
    BY <1>1, FS_Subset
  <2> QED BY <1>2, <2>1
<1>4. ASSUME NEW i \in 1..h
      PROVE  Ascending(K)[i] = i
  <2>1. Below(K, i) = 1..i /\ i \in K /\ i \in 0..h
    <3>1. i \in Nat /\ i <= h /\ h \in Nat /\ i >= 1
      OBVIOUS
    <3>2. \A x : x \in 1..i => x \in 1..h /\ x <= i
      BY <3>1
    <3>3. \A x \in K : x <= i => x \in 1..i
      BY <3>1
    <3>4. i \in 1..h /\ i \in 0..h
      BY <3>1
    <3> QED BY <3>2, <3>3, <3>4 DEF Below
  <2>2. Rank(K, i) = i
    BY <1>2, <2>1 DEF Rank
  <2>3. Ascending(K)[Rank(K, i)] = i
    BY <2>1, AscendingIs
  <2> QED BY <2>2, <2>3
<1> QED BY <1>3, <1>4

-----------------------------------------------------------------------------
(* TruncateSection                                                            *)

LEMMA DroppedIsInside ==
  ASSUME NEW b, NEW name, NEW keep
  PROVE  Dropped(b, name, keep) \subseteq Inside(b, name)
BY DEF Dropped, Older

\* What TruncateSection takes out is below the heading: the lines above stay, each
\* at its place.
LEMMA TruncateAbove ==
  ASSUME NEW b \in Seq(Line), NEW name, HasSection(b, name), NEW keep
  PROVE  /\ TruncateSection(b, name, keep) \in Seq(Line)
         /\ HeadOf(b, name) <= Len(TruncateSection(b, name, keep))
         /\ \A i \in 1..HeadOf(b, name) : TruncateSection(b, name, keep)[i] = b[i]
<1> DEFINE drop == Dropped(b, name, keep)
           first == Earliest(drop)
           h == HeadOf(b, name)
           e == EndOf(b, name)
           K == DOMAIN b \ (drop \ {first})
           kept == Ascending(K)
           c == [k \in DOMAIN kept |->
                   IF kept[k] = first THEN Marker(Cardinality(drop)) ELSE b[kept[k]]]
<1>1. /\ h \in Nat /\ h \in 1..Len(b) /\ Len(b) \in Nat /\ DOMAIN b = 1..Len(b)
      /\ e \in Nat /\ h < e /\ e <= Len(b) + 1
  BY HeadIs, EndIs, LenProperties
<1>2. CASE drop = {}
  <2>1. TruncateSection(b, name, keep) = b
    BY <1>2 DEF TruncateSection
  <2> QED BY <1>1, <2>1
<1>3. CASE drop # {}
  <2>1. TruncateSection(b, name, keep) = c
    BY <1>3 DEF TruncateSection
  <2>2. drop \subseteq (h + 1)..(e - 1)
    BY DroppedIsInside DEF Inside
  <2> HIDE DEF h, e, drop
  <2>3. drop \in SUBSET Nat /\ \A i \in drop : i > h /\ i <= Len(b)
    BY <1>1, <2>2
  <2>4. first \in drop
    BY <1>3, <2>3, EarliestIs
  <2>5. Cardinality(drop) \in Nat
    BY <1>1, <2>3, FS_BoundedSetOfNaturals, FS_CardinalityType
  <2>6. /\ K \in SUBSET (1..Len(b)) /\ h \in 0..Len(b) /\ 1..h \subseteq K
    BY <1>1, <2>3
  <2> HIDE DEF K, first
  <2>7. /\ Cardinality(K) \in Nat /\ DOMAIN kept = 1..Cardinality(K)
        /\ \A k \in 1..Cardinality(K) : kept[k] \in K
    BY <1>1, <2>6, AscendingIs
  <2>8. h <= Cardinality(K) /\ \A i \in 1..h : kept[i] = i
    BY <1>1, <2>6, AscendingStart
  <2> HIDE DEF kept
  <2>9. ASSUME NEW k \in 1..Cardinality(K)
        PROVE  c[k] \in Line
    <3>1. kept[k] \in 1..Len(b)
      BY <2>6, <2>7
    <3>2. b[kept[k]] \in Line /\ Marker(Cardinality(drop)) \in Line
      BY <2>5, <3>1, LineAt, LinesType
    <3> QED BY <2>7, <3>2
  <2>10. c \in Seq(Line) /\ Len(c) = Cardinality(K)
    <3>1. c \in [1..Cardinality(K) -> Line]
      BY <2>7, <2>9
    <3>2. c \in Seq(Line)
      BY <2>7, <3>1, SeqDef
    <3>3. DOMAIN c = 1..Len(c) /\ Len(c) \in Nat /\ DOMAIN c = 1..Cardinality(K)
      BY <3>1, <3>2, LenProperties
    <3> HIDE DEF c
    <3>4. Len(c) = Cardinality(K)
      <4> DEFINE l == Len(c)
                 n == Cardinality(K)
      <4>1. l \in Nat /\ n \in Nat /\ 1..l = 1..n
        BY <2>7, <3>3
      <4> HIDE DEF l, n
      <4>2. l = n
        BY <4>1
      <4> QED BY <4>2 DEF l, n
    <3> QED BY <3>2, <3>4
  <2>11. ASSUME NEW i \in 1..h
         PROVE  c[i] = b[i]
    <3>1. i \in 1..Cardinality(K) /\ kept[i] = i /\ i # first
      BY <1>1, <2>3, <2>4, <2>7, <2>8
    <3> QED BY <2>7, <3>1
  <2> HIDE DEF c
  <2> QED BY <1>1, <2>1, <2>8, <2>10, <2>11 DEF h
<1> QED BY <1>2, <1>3

LEMMA SameStops ==
  ASSUME NEW b \in Seq(Line), NEW c \in Seq(Line), NEW h \in Nat,
         h <= Len(b), h <= Len(c), \A i \in 1..h : c[i] = b[i],
         NEW i \in 1..h
  PROVE  i \in Stops(c) <=> i \in Stops(b)
<1>1. Count(c, 1, i - 1) = Count(b, 1, i - 1)
  <2>1. i - 1 \in Nat /\ \A j \in 1..(i - 1) : c[j] = b[j]
    OBVIOUS
  <2> QED BY <2>1, CountSame
<1>2. InCode(c, i) <=> InCode(b, i)
  BY <1>1, InCodeCounts
<1>3. i \in DOMAIN b /\ i \in DOMAIN c /\ c[i] = b[i]
  <2>1. Len(b) \in Nat /\ Len(c) \in Nat /\ DOMAIN b = 1..Len(b) /\ DOMAIN c = 1..Len(c)
    BY LenProperties
  <2> QED BY <2>1
<1> QED BY <1>2, <1>3 DEF Stops

\* Two sections have no line in common.
LEMMA SectionsApart ==
  ASSUME NEW b \in Seq(Line), NEW n, NEW m, n # m, HasSection(b, n), HasSection(b, m)
  PROVE  EndOf(b, n) <= HeadOf(b, m) \/ EndOf(b, m) <= HeadOf(b, n)
<1>1. /\ HeadOf(b, n) \in Nat /\ HeadOf(b, m) \in Nat
      /\ HeadOf(b, n) \in Stops(b) /\ HeadOf(b, m) \in Stops(b)
      /\ b[HeadOf(b, n)] = Section(n) /\ b[HeadOf(b, m)] = Section(m)
  BY HeadIs
<1>2. Section(n) # Section(m)
  BY DEF Section
<1>3. HeadOf(b, n) < HeadOf(b, m) \/ HeadOf(b, m) < HeadOf(b, n)
  BY <1>1, <1>2
<1> QED BY <1>1, <1>3, EndIs

\* The lines that stay, of the sections above the one that is truncated.
LEMMA TruncateHead ==
  ASSUME NEW b \in Seq(Line), NEW name, HasSection(b, name), NEW keep,
         NEW n, HasSection(b, n), HeadOf(b, n) <= HeadOf(b, name)
  PROVE  /\ HasSection(TruncateSection(b, name, keep), n)
         /\ HeadOf(TruncateSection(b, name, keep), n) = HeadOf(b, n)
<1> DEFINE c == TruncateSection(b, name, keep)
           h == HeadOf(b, name)
           g == HeadOf(b, n)
<1>1. /\ c \in Seq(Line) /\ h <= Len(c) /\ \A i \in 1..h : c[i] = b[i]
  BY TruncateAbove
<1>2. h \in Nat /\ h <= Len(b)
  <2>1. h \in 1..Len(b) /\ h \in Nat
    BY HeadIs
  <2>2. Len(b) \in Nat
    BY LenProperties
  <2> HIDE DEF h
  <2> QED BY <2>1, <2>2
<1>3. /\ g \in Stops(b) /\ g \in 1..h /\ b[g] = Section(n)
      /\ \A i \in Stops(b) : b[i] = Section(n) => g <= i
  <2>1. /\ g \in Stops(b) /\ g \in 1..Len(b) /\ g \in Nat /\ b[g] = Section(n)
        /\ \A i \in Stops(b) : b[i] = Section(n) => g <= i
    BY HeadIs
  <2>2. g <= h /\ Len(b) \in Nat
    BY LenProperties
  <2> HIDE DEF g, h
  <2> QED BY <1>2, <2>1, <2>2
<1> HIDE DEF c, h, g
<1>4. g \in Stops(c) /\ c[g] = Section(n)
  BY <1>1, <1>2, <1>3, SameStops
<1>5. ASSUME NEW i \in Stops(c), c[i] = Section(n)
      PROVE  g <= i
  <2>1. i \in Nat /\ i >= 1 /\ g \in Nat
    <3>1. i \in 1..Len(c) /\ Len(c) \in Nat
      BY <1>1, StopsType
    <3> QED BY <1>2, <1>3, <3>1
  <2>2. CASE i <= h
    <3>1. i \in 1..h
      BY <1>2, <2>1, <2>2
    <3>2. i \in Stops(b) /\ b[i] = c[i]
      BY <1>1, <1>2, <3>1, SameStops
    <3> QED BY <1>3, <1>5, <3>2
  <2>3. CASE i > h
    BY <1>2, <1>3, <2>1, <2>3
  <2> QED BY <1>2, <2>1, <2>2, <2>3
<1>6. HasSection(c, n) /\ HeadOf(c, n) = g
  BY <1>1, <1>4, <1>5, HeadUnique
<1> QED BY <1>6 DEF c, g

\* The lines of section n have the same numbers in c.
Unmoved(b, c, n) == Inside(c, n) = Inside(b, n) /\ \A i \in Inside(b, n) : c[i] = b[i]

LEMMA TruncateSame ==
  ASSUME NEW b \in Seq(Line), NEW name, HasSection(b, name), NEW keep,
         NEW n, HasSection(b, n), HeadOf(b, n) < HeadOf(b, name)
  PROVE  /\ HasSection(TruncateSection(b, name, keep), n)
         /\ Content(TruncateSection(b, name, keep), n) = Content(b, n)
         /\ Unmoved(b, TruncateSection(b, name, keep), n)
<1> DEFINE c == TruncateSection(b, name, keep)
           h == HeadOf(b, name)
           g == HeadOf(b, n)
           e == EndOf(b, n)
<1>0. /\ h \in Nat /\ g \in Nat /\ g >= 1 /\ h <= Len(b) /\ Len(b) \in Nat /\ h \in Stops(b)
      /\ e \in Nat /\ g < e /\ e <= h /\ (e \in Stops(b) \/ e = Len(b) + 1)
      /\ \A i \in Stops(b) : i > g => e <= i
  <2>1. /\ h \in Nat /\ g \in Nat /\ h \in Stops(b) /\ h \in 1..Len(b) /\ g \in 1..Len(b)
        /\ Len(b) \in Nat
    BY HeadIs, LenProperties
  <2>2. /\ e \in Nat /\ g < e /\ (e \in Stops(b) \/ e = Len(b) + 1)
        /\ \A i \in Stops(b) : i > g => e <= i
    BY EndIs
  <2>3. g < h
    OBVIOUS
  <2> HIDE DEF h, g, e
  <2> QED BY <2>1, <2>2, <2>3
<1>1. /\ c \in Seq(Line) /\ h <= Len(c) /\ \A i \in 1..h : c[i] = b[i]
  BY TruncateAbove
<1>2. HasSection(c, n) /\ HeadOf(c, n) = g
  <2>1. HeadOf(b, n) <= HeadOf(b, name)
    BY <1>0
  <2> QED BY <2>1, TruncateHead
<1> HIDE DEF c, h, e
<1>3. e \in Stops(c) /\ e \in 1..h
  <2>1. e \in Stops(b) /\ e \in 1..h
    BY <1>0
  <2> QED BY <1>0, <1>1, <2>1, SameStops
<1>4. EndOf(c, n) = e
  <2>1. e \in Ends(c, n)
    BY <1>0, <1>2, <1>3 DEF Ends
  <2>2. ASSUME NEW i \in Ends(c, n)
        PROVE  e <= i
    <3> HIDE DEF g
    <3>1. Len(c) \in Nat /\ Stops(c) \subseteq 1..Len(c)
      BY <1>1, StopsType
    <3>2. CASE i = Len(c) + 1
      BY <1>0, <1>1, <3>1, <3>2
    <3>3. CASE i \in Stops(c) /\ i > g
      <4>1. i \in Nat /\ i >= 1
        BY <3>1, <3>3
      <4>2. CASE i <= h
        <5>1. i \in 1..h
          BY <1>0, <4>1, <4>2
        <5>2. i \in Stops(b)
          BY <1>0, <1>1, <3>3, <5>1, SameStops
        <5> QED BY <1>0, <3>3, <5>2
      <4>3. CASE i > h
        BY <1>0, <4>1, <4>3
      <4> QED BY <1>0, <4>1, <4>2, <4>3
    <3> QED BY <1>2, <2>2, <3>2, <3>3 DEF Ends
  <2> QED BY <1>1, <2>1, <2>2, EndUnique
<1>5. Inside(c, n) = Inside(b, n) /\ \A i \in Inside(b, n) : c[i] = b[i]
  <2>1. Inside(c, n) = Inside(b, n)
    BY <1>2, <1>4 DEF Inside, e
  <2>2. ASSUME NEW i \in (g + 1)..(e - 1)
        PROVE  c[i] = b[i]
    <3> HIDE DEF g
    <3>1. i \in 1..h
      BY <1>0
    <3> QED BY <1>1, <3>1
  <2> QED BY <2>1, <2>2 DEF Inside, e
<1>6. Content(c, n) = Content(b, n)
  <2>1. SameLines(b, c, g + 1, e - 1, g + 1, e - 1)
    <3> HIDE DEF g
    <3>1. /\ g + 1 \in Nat /\ e - 1 \in Nat /\ g + 1 >= 1 /\ e - 1 <= Len(b)
          /\ e - 1 <= Len(c)
      <4>1. Len(c) \in Nat
        BY <1>1, LenProperties
      <4> QED BY <1>0, <1>1, <4>1
    <3>2. Copied(b, c, g + 1, g + 1, e - 1)
      <4> SUFFICES ASSUME NEW j \in (g + 1)..(e - 1)
                   PROVE  c[j - (g + 1) + (g + 1)] = b[j]
        BY DEF Copied
      <4>1. j \in 1..h /\ j - (g + 1) + (g + 1) = j
        BY <1>0
      <4> QED BY <1>1, <4>1
    <3> QED BY <1>1, <3>1, <3>2 DEF SameLines
  <2>2. Part(c, g + 1, e - 1) = Part(b, g + 1, e - 1)
    BY <2>1, SubSeqSame
  <2> QED BY <1>2, <1>4, <2>2 DEF Content, Part, e
<1> QED BY <1>2, <1>5, <1>6 DEF c, Unmoved

-----------------------------------------------------------------------------
(* What each verb owes the sections it was not asked to change                *)

\* In c the section n is what it is in b.
Keeps(b, c, n) == HasSection(c, n) /\ Content(c, n) = Content(b, n)

\* SetSection leaves every other section as it is, line for line, whatever text
\* goes into its own, so long as the fences of the text pair up and its headings are
\* in code.
THEOREM SetSectionKeeps ==
  ASSUME NEW b \in Seq(Line), NEW name, HasSection(b, name),
         NEW s \in Seq(Line), Contained(s),
         NEW n, n # name, HasSection(b, n)
  PROVE  Keeps(b, SetSection(b, name, s), n)
<1> DEFINE c == SetSection(b, name, s)
           h == HeadOf(b, name)
           z == EndOf(b, name) - 1
           y == h + (Len(s) + 2)
<1>1. Patch(b, c, h, z, y)
  BY SetPatch
<1>2. EndOf(b, n) <= h \/ z < HeadOf(b, n)
  <2>1. EndOf(b, n) <= h \/ EndOf(b, name) <= HeadOf(b, n)
    BY SectionsApart
  <2>2. EndOf(b, name) \in Nat /\ HeadOf(b, n) \in Nat
    BY EndIs, HeadIs
  <2> QED BY <2>1, <2>2
<1> HIDE DEF c, h, z, y
<1>3. HasSection(c, n) /\ Content(c, n) = Content(b, n)
  BY <1>1, <1>2, PatchHead, PatchContent
<1> QED BY <1>3 DEF c, Keeps

\* AppendEntry leaves every other section as it is: the line it adds is in its own
\* section, even below a fence that was never closed.
THEOREM AppendEntryKeeps ==
  ASSUME NEW b \in Seq(Line), NEW name, HasSection(b, name), NEW k \in Nat,
         NEW n, n # name, HasSection(b, n)
  PROVE  Keeps(b, AppendEntry(b, name, Entry(k)), n)
<1> DEFINE c == AppendEntry(b, name, Entry(k))
           a == LastOf(b, name)
           y == a + Len(Added(b, name, Entry(k)))
<1>1. Patch(b, c, a, a, y) /\ HeadOf(b, name) <= a /\ a < EndOf(b, name)
  BY AppendPatch
<1>2. EndOf(b, n) <= a \/ a < HeadOf(b, n)
  <2>1. EndOf(b, n) <= HeadOf(b, name) \/ EndOf(b, name) <= HeadOf(b, n)
    BY SectionsApart
  <2>2. /\ EndOf(b, name) \in Nat /\ HeadOf(b, n) \in Nat
        /\ EndOf(b, n) \in Nat /\ HeadOf(b, name) \in Nat /\ a \in Nat
    BY <1>1, EndIs, HeadIs DEF Patch
  <2> HIDE DEF a
  <2> QED BY <1>1, <2>1, <2>2
<1> HIDE DEF c, a, y
<1>3. HasSection(c, n) /\ Content(c, n) = Content(b, n)
  BY <1>1, <1>2, PatchHead, PatchContent
<1> QED BY <1>3 DEF c, Keeps

\* TruncateSection leaves the sections above it as they are.  It may take out
\* a fence and not the one that pairs with it, so it promises nothing below.
THEOREM TruncateSectionKeeps ==
  ASSUME NEW b \in Seq(Line), NEW name, HasSection(b, name), NEW keep,
         NEW n, HasSection(b, n), HeadOf(b, n) < HeadOf(b, name)
  PROVE  Keeps(b, TruncateSection(b, name, keep), n)
BY TruncateSame DEF Keeps

\* The sections of a task: all three, Log the last of them.
Shaped(b) ==
  /\ b \in Seq(Line)
  /\ \A n \in Name : HasSection(b, n)
  /\ HeadOf(b, Context) < HeadOf(b, Log)
  /\ HeadOf(b, Decisions) < HeadOf(b, Log)

LEMMA PatchIsShaped ==
  ASSUME NEW b, NEW c, NEW a, NEW z, NEW y, Patch(b, c, a, z, y), Shaped(b)
  PROVE  Shaped(c)
<1>1. c \in Seq(Line)
  BY DEF Patch
<1>2. \A n \in Name : HasSection(b, n)
  BY DEF Shaped
<1>3. \A n \in Name : HasSection(c, n)
  BY <1>2, PatchHead
<1>4. ASSUME NEW n \in Name, NEW m \in Name, HeadOf(b, n) < HeadOf(b, m)
      PROVE  HeadOf(c, n) < HeadOf(c, m)
  <2> DEFINE g == HeadOf(b, n)
             h == HeadOf(b, m)
  <2>1. /\ HeadOf(c, n) = Moved(g, a, z, y) /\ (g <= a \/ z < g)
        /\ HeadOf(c, m) = Moved(h, a, z, y) /\ (h <= a \/ z < h)
    BY <1>2, PatchHead
  <2>2. g \in Nat /\ h \in Nat
    <3>1. b \in Seq(Line)
      BY DEF Shaped
    <3> QED BY <1>2, <3>1, HeadIs
  <2>3. a \in Nat /\ z \in Nat /\ y \in Nat /\ a <= z /\ a <= y /\ g < h
    BY <1>4 DEF Patch
  <2> HIDE DEF g, h
  <2>4. Moved(g, a, z, y) < Moved(h, a, z, y)
    BY <2>1, <2>2, <2>3, MovedInOrder
  <2> QED BY <2>1, <2>4
<1>5. Context \in Name /\ Decisions \in Name /\ Log \in Name
  BY DEF Name
<1> QED BY <1>1, <1>3, <1>4, <1>5 DEF Shaped

LEMMA TruncateIsShaped ==
  ASSUME NEW b, Shaped(b), NEW keep
  PROVE  Shaped(TruncateSection(b, Log, keep))
<1> DEFINE c == TruncateSection(b, Log, keep)
<1>1. /\ b \in Seq(Line) /\ \A n \in Name : HasSection(b, n)
      /\ HeadOf(b, Context) < HeadOf(b, Log) /\ HeadOf(b, Decisions) < HeadOf(b, Log)
      /\ Name = {Context, Decisions, Log}
  BY DEF Shaped, Name
<1>2. /\ HasSection(b, Context) /\ HasSection(b, Decisions) /\ HasSection(b, Log)
  BY <1>1
<1>3. \A n \in Name : HeadOf(b, n) \in Nat /\ HeadOf(b, n) <= HeadOf(b, Log)
  <2>1. HeadOf(b, Context) \in Nat /\ HeadOf(b, Decisions) \in Nat /\ HeadOf(b, Log) \in Nat
    BY <1>1, <1>2, HeadIs
  <2> QED BY <1>1, <2>1
<1>4. \A n \in Name : HasSection(c, n) /\ HeadOf(c, n) = HeadOf(b, n)
  BY <1>1, <1>2, <1>3, TruncateHead
<1>5. c \in Seq(Line)
  BY <1>1, <1>2, TruncateAbove
<1> HIDE DEF c
<1>6. Shaped(c)
  BY <1>1, <1>4, <1>5 DEF Shaped
<1> QED BY <1>6 DEF c

LEMMA TemplateIsShaped ==
  Shaped(Template)
<1> DEFINE t == Template
<1>1. /\ t \in Seq(Line) /\ Len(t) = 9
      /\ t[1] = Blank /\ t[2] = Plain("title") /\ t[3] = Blank
      /\ t[4] = Section(Context) /\ t[5] = Blank /\ t[6] = Section(Decisions)
      /\ t[7] = Blank /\ t[8] = Section(Log) /\ t[9] = Blank
  <2>1. /\ Blank \in Line /\ Plain("title") \in Line
        /\ Section(Context) \in Line /\ Section(Decisions) \in Line /\ Section(Log) \in Line
    BY DEF Blank, Plain, Section, Line, Kind, Context, Decisions, Log
  <2> QED BY <2>1 DEF Template
<1> HIDE DEF t
<1>2. \A i \in 1..9 : t[i].is # "fence"
  <2>1. /\ Blank.is # "fence" /\ Plain("title").is # "fence"
        /\ \A n : Section(n).is # "fence"
    BY DEF Blank, Plain, Section
  <2>2. \A i \in 1..9 : i \in {1, 2, 3, 4, 5, 6, 7, 8, 9}
    OBVIOUS
  <2> QED BY <1>1, <2>1, <2>2
<1>3. \A i \in 1..9 : ~ InCode(t, i)
  <2> SUFFICES ASSUME NEW i \in 1..9
               PROVE  ~ InCode(t, i)
    OBVIOUS
  <2>1. i - 1 \in Nat /\ \A j \in 1..(i - 1) : j \in 1..9
    OBVIOUS
  <2>2. Count(t, 1, i - 1) = 0
    BY <1>2, <2>1, CountNone
  <2> QED BY <1>2, <2>2, InCodeCounts
<1>4. /\ \A n : Heading(Section(n)) /\ Section(n) # Blank /\ Section(n) # Plain("title")
      /\ \A n, m : Section(n) = Section(m) => n = m
  BY DEF Section, Heading, Blank, Plain
<1>5. DOMAIN t = 1..9
  BY <1>1, LenProperties
<1>6. \A i \in {4, 6, 8} : i \in Stops(t)
  BY <1>1, <1>3, <1>4, <1>5 DEF Stops
<1>7. ASSUME NEW h \in {4, 6, 8}, NEW n \in Name, t[h] = Section(n)
      PROVE  HasSection(t, n) /\ HeadOf(t, n) = h
  <2>1. ASSUME NEW i \in Stops(t), t[i] = Section(n)
        PROVE  h <= i
    <3>1. i \in {1, 2, 3, 4, 5, 6, 7, 8, 9}
      <4>1. i \in 1..9
        BY <1>5 DEF Stops
      <4> QED BY <4>1
    <3>2. i \in {4, 6, 8}
      BY <1>1, <1>4, <2>1, <3>1
    <3> QED BY <1>1, <1>4, <1>7, <2>1, <3>2 DEF Context, Decisions, Log
  <2> QED BY <1>1, <1>6, <1>7, <2>1, HeadUnique
<1>8. /\ HasSection(t, Context) /\ HeadOf(t, Context) = 4
      /\ HasSection(t, Decisions) /\ HeadOf(t, Decisions) = 6
      /\ HasSection(t, Log) /\ HeadOf(t, Log) = 8
  BY <1>1, <1>7 DEF Name
<1> QED BY <1>1, <1>8 DEF Shaped, Name, t

-----------------------------------------------------------------------------
(* The lines of a section that later rewrites keep                            *)

Holds(b, name, line) == HasSection(b, name) /\ \E i \in Inside(b, name) : b[i] = line

LEMMA HeldIsContent ==
  ASSUME NEW b \in Seq(Line), NEW name, NEW line, Holds(b, name, line)
  PROVE  \E i \in DOMAIN Content(b, name) : Content(b, name)[i] = line
<1> DEFINE h == HeadOf(b, name)
           e == EndOf(b, name)
           s == SubSeq(b, h + 1, e - 1)
<1>1. /\ h \in Nat /\ h >= 1 /\ e \in Nat /\ h < e /\ e <= Len(b) + 1 /\ Len(b) \in Nat
  <2>1. h \in 1..Len(b) /\ Len(b) \in Nat
    BY HeadIs, LenProperties DEF Holds
  <2>2. e \in Nat /\ h < e /\ e <= Len(b) + 1
    BY EndIs DEF Holds
  <2> HIDE DEF h, e
  <2> QED BY <2>1, <2>2
<1>2. PICK i \in (h + 1)..(e - 1) : b[i] = line
  BY DEF Holds, Inside
<1> HIDE DEF h, e
<1>3. /\ s \in Seq(Line) /\ Len(s) = IF h + 1 <= e - 1 THEN (e - 1) - (h + 1) + 1 ELSE 0
      /\ \A j \in 1..((e - 1) - (h + 1) + 1) : s[j] = b[h + 1 + j - 1]
  <2>1. \A j \in (h + 1)..(e - 1) : b[j] \in Line
    BY <1>1, LineAt
  <2>2. h + 1 \in Int /\ e - 1 \in Int
    BY <1>1
  <2> QED BY <2>1, <2>2, SubSeqProperties
<1> HIDE DEF s
<1>4. i - h \in 1..Len(s) /\ s[i - h] = b[i]
  <2>1. /\ i - h \in 1..((e - 1) - (h + 1) + 1) /\ h + 1 + (i - h) - 1 = i
        /\ h + 1 <= e - 1
    BY <1>1
  <2> QED BY <1>1, <1>3, <2>1
<1>5. DOMAIN s = 1..Len(s)
  BY <1>3, LenProperties
<1>6. Content(b, name) = s
  BY DEF Content, s, h, e
<1> QED BY <1>2, <1>4, <1>5, <1>6

LEMMA PatchHolds ==
  ASSUME NEW b, NEW c, NEW a, NEW z, NEW y, Patch(b, c, a, z, y),
         NEW name, NEW line, Holds(b, name, line),
         a = z \/ EndOf(b, name) <= a \/ z < HeadOf(b, name)
  PROVE  Holds(c, name, line)
<1>1. HasSection(b, name) /\ b \in Seq(Line) /\ a \in Nat /\ z \in Nat
  BY DEF Holds, Patch
<1>2. PICK i \in Inside(b, name) : b[i] = line
  BY DEF Holds
<1>3. i <= a \/ z < i
  <2>1. /\ HeadOf(b, name) \in Nat /\ EndOf(b, name) \in Nat
        /\ i \in (HeadOf(b, name) + 1)..(EndOf(b, name) - 1)
    BY <1>1, HeadIs, EndIs DEF Inside
  <2> QED BY <1>1, <2>1
<1>4. Moved(i, a, z, y) \in Inside(c, name) /\ c[Moved(i, a, z, y)] = b[i]
  BY <1>1, <1>3, PatchInside
<1>5. HasSection(c, name)
  BY <1>1, PatchHead
<1> QED BY <1>2, <1>4, <1>5 DEF Holds

LEMMA SetHolds ==
  ASSUME NEW b \in Seq(Line), NEW name, HasSection(b, name),
         NEW s \in Seq(Line), Contained(s),
         NEW n, n # name, NEW line, Holds(b, n, line)
  PROVE  Holds(SetSection(b, name, s), n, line)
<1> DEFINE c == SetSection(b, name, s)
           h == HeadOf(b, name)
           z == EndOf(b, name) - 1
           y == h + (Len(s) + 2)
<1>1. Patch(b, c, h, z, y)
  BY SetPatch
<1>2. EndOf(b, n) <= h \/ z < HeadOf(b, n)
  <2>1. EndOf(b, n) <= h \/ EndOf(b, name) <= HeadOf(b, n)
    BY SectionsApart DEF Holds
  <2>2. EndOf(b, name) \in Nat /\ HeadOf(b, n) \in Nat
    BY EndIs, HeadIs DEF Holds
  <2> QED BY <2>1, <2>2
<1> HIDE DEF c, h, z, y
<1>3. Holds(c, n, line)
  BY <1>1, <1>2, PatchHolds
<1> QED BY <1>3 DEF c

LEMMA AppendHolds ==
  ASSUME NEW b \in Seq(Line), NEW name, HasSection(b, name), NEW k \in Nat
  PROVE  /\ Holds(AppendEntry(b, name, Entry(k)), name, Entry(k))
         /\ \A n, line : Holds(b, n, line) => Holds(AppendEntry(b, name, Entry(k)), n, line)
<1> DEFINE c == AppendEntry(b, name, Entry(k))
           a == LastOf(b, name)
           y == a + Len(Added(b, name, Entry(k)))
<1>1. /\ Patch(b, c, a, a, y) /\ HeadOf(b, name) <= a /\ a < EndOf(b, name)
      /\ a < y /\ c[y] = Entry(k)
  BY AppendPatch
<1> HIDE DEF c, a, y
<1>2. \A n, line : Holds(b, n, line) => Holds(c, n, line)
  BY <1>1, PatchHolds
<1>3. HasSection(c, name) /\ \A i \in (a + 1)..y : i \in Inside(c, name)
  BY <1>1, PatchHead, PatchInside
<1>4. y \in (a + 1)..y
  BY <1>1 DEF Patch
<1> QED BY <1>1, <1>2, <1>3, <1>4 DEF Holds, c

LEMMA TruncateHolds ==
  ASSUME NEW b \in Seq(Line), NEW name, HasSection(b, name), NEW keep,
         NEW n, HeadOf(b, n) < HeadOf(b, name), NEW line, Holds(b, n, line)
  PROVE  Holds(TruncateSection(b, name, keep), n, line)
<1>1. HasSection(b, n)
  BY DEF Holds
<1> DEFINE c == TruncateSection(b, name, keep)
<1>2. HasSection(c, n) /\ Unmoved(b, c, n)
  BY <1>1, TruncateSame
<1> HIDE DEF c
<1>3. Holds(c, n, line)
  BY <1>2 DEF Holds, Unmoved
<1> QED BY <1>3 DEF c

-----------------------------------------------------------------------------
(* What the rewrites return is a body                                         *)

LEMMA ConcatType ==
  ASSUME NEW p \in Seq(Line), NEW q \in Seq(Line)
  PROVE  p \o q \in Seq(Line)
BY ConcatProperties

LEMMA PartType ==
  ASSUME NEW b \in Seq(Line), NEW lo \in Nat, NEW hi \in Nat, lo >= 1, hi <= Len(b)
  PROVE  SubSeq(b, lo, hi) \in Seq(Line)
<1>1. \A i \in lo..hi : b[i] \in Line
  BY LineAt, LenProperties
<1> QED BY <1>1, SubSeqProperties

LEMMA SetType ==
  ASSUME NEW b \in Seq(Line), NEW name, HasSection(b, name), NEW s \in Seq(Line)
  PROVE  SetSection(b, name, s) \in Seq(Line)
<1> DEFINE A == SubSeq(b, 1, HeadOf(b, name))
           T == SubSeq(b, EndOf(b, name), Len(b))
           one == <<Blank>>
<1>1. one \in Seq(Line)
  BY LinesType
<1>2. A \in Seq(Line) /\ T \in Seq(Line)
  <2>1. /\ HeadOf(b, name) \in Nat /\ HeadOf(b, name) \in 1..Len(b) /\ Len(b) \in Nat
        /\ EndOf(b, name) \in Nat /\ HeadOf(b, name) < EndOf(b, name)
    BY HeadIs, EndIs, LenProperties
  <2>2. HeadOf(b, name) <= Len(b) /\ EndOf(b, name) >= 1 /\ Len(b) <= Len(b) /\ 1 \in Nat /\ 1 >= 1
    BY <2>1
  <2> QED BY <2>1, <2>2, PartType
<1>3. SetSection(b, name, s) = (((A \o one) \o s) \o one) \o T
  BY DEF SetSection
<1> HIDE DEF A, T, one
<1>4. A \o one \in Seq(Line)
  BY <1>1, <1>2, ConcatType
<1>5. (A \o one) \o s \in Seq(Line)
  BY <1>4, ConcatType
<1>6. ((A \o one) \o s) \o one \in Seq(Line)
  BY <1>1, <1>5, ConcatType
<1>7. (((A \o one) \o s) \o one) \o T \in Seq(Line)
  BY <1>2, <1>6, ConcatType
<1> QED BY <1>3, <1>7

LEMMA AppendType ==
  ASSUME NEW b \in Seq(Line), NEW name, HasSection(b, name), NEW k \in Nat
  PROVE  AppendEntry(b, name, Entry(k)) \in Seq(Line)
BY AppendPatch DEF Patch

-----------------------------------------------------------------------------
(* The page of a body: its two recursive functions                            *)

\* What holds at 0 and is handed on holds up to N.
LEMMA HandedOn ==
  ASSUME NEW N \in Nat, NEW S, 0 \in S, \A n \in 1..N : n - 1 \in S => n \in S
  PROVE  \A n \in 0..N : n \in S
<1> DEFINE T == {n \in 0..N : n \notin S}
<1> SUFFICES ASSUME T # {} PROVE FALSE
  OBVIOUS
<1>1. T \in SUBSET Nat
  OBVIOUS
<1> HIDE DEF T
<1>2. PICK i \in T : \A j \in T : i <= j
  BY <1>1, LeastExists
<1> USE DEF T
<1>3. i \in 1..N /\ i - 1 \in 0..N /\ i - 1 < i
  BY <1>2
<1>4. i - 1 \in S
  BY <1>2, <1>3
<1> QED BY <1>2, <1>3, <1>4

\* The two recursive functions of the page take their steps line by line, and tag by tag.
Reads(b, f, N) ==
  f = [n \in 0..N |-> IF n = 0 THEN Top ELSE NextLine(f[n - 1], b[n], n)]
Nests(page, f, N) ==
  f = [n \in 0..N |-> IF n = 0 THEN <<>> ELSE Now(f[n - 1], page[n])]

LEMMA LinesAreRead ==
  ASSUME NEW b, NEW N \in Nat, Len(b) = N
  PROVE  Reads(b, AfterLine(b), N)
<1> DEFINE S == {n \in 0..N : \E f : Reads(b, f, n)}
<1>1. 0 \in S
  <2>1. Reads(b, [n \in 0..0 |-> Top], 0)
    BY DEF Reads
  <2> QED BY <2>1
<1>2. ASSUME NEW n \in 1..N, n - 1 \in S PROVE n \in S
  <2>1. PICK f : Reads(b, f, n - 1)
    BY <1>2
  <2> DEFINE g == [m \in 0..n |-> IF m = n THEN NextLine(f[n - 1], b[n], n) ELSE f[m]]
  <2>2. DOMAIN g = 0..n /\ \A m \in 0..n - 1 : g[m] = f[m]
    OBVIOUS
  <2>3. g[n] = NextLine(g[n - 1], b[n], n)
    OBVIOUS
  <2>4. g[0] = Top
    BY <2>1 DEF Reads
  <2>5. \A m \in 1..n - 1 : g[m] = NextLine(g[m - 1], b[m], m)
    BY <2>1 DEF Reads
  <2>6. \A m \in 0..n : g[m] = IF m = 0 THEN Top ELSE NextLine(g[m - 1], b[m], m)
    <3> HIDE DEF g
    <3> QED BY <2>3, <2>4, <2>5
  <2>7. Reads(b, g, n)
    BY <2>2, <2>6 DEF Reads
  <2> QED BY <2>7
<1>3. N \in S
  <2> HIDE DEF S
  <2> QED BY <1>1, <1>2, HandedOn
<1>4. \E f : Reads(b, f, N)
  BY <1>3
<1>5. AfterLine(b) = CHOOSE f : Reads(b, f, N)
  BY DEF AfterLine, Reads
<1> QED BY <1>4, <1>5

Tag == {"p", "ul", "li", "pre", "h"}
Token == [is : {"open", "close", "line"}, tag : Tag \cup {""}, line : Nat]

\* g goes one tag further than f.
Extends(page, f, g, n) ==
  g = [m \in 0..n |-> IF m = n THEN Now(f[n - 1], page[n]) ELSE f[m]]

LEMMA NestsExtends ==
  ASSUME NEW page, NEW n \in Nat, n >= 1, NEW f, NEW g,
         Nests(page, f, n - 1), Extends(page, f, g, n)
  PROVE  Nests(page, g, n)
<1>1. DOMAIN g = 0..n /\ \A m \in 0..n - 1 : g[m] = f[m]
  BY DEF Extends
<1>2. g[n] = Now(g[n - 1], page[n])
  BY <1>1 DEF Extends
<1>3. g[0] = <<>>
  BY <1>1 DEF Nests
<1>4. \A m \in 1..n - 1 : g[m] = Now(g[m - 1], page[m])
  BY <1>1 DEF Nests
<1>5. \A m \in 0..n : g[m] = IF m = 0 THEN <<>> ELSE Now(g[m - 1], page[m])
  BY <1>2, <1>3, <1>4
<1> QED BY <1>1, <1>5 DEF Nests, Extends

LEMMA TagsAreNested ==
  ASSUME NEW page, NEW N \in Nat, Len(page) = N
  PROVE  Nests(page, Nesting(page), N)
<1> DEFINE S == {n \in 0..N : \E f : Nests(page, f, n)}
<1>1. 0 \in S
  <2>1. Nests(page, [n \in 0..0 |-> <<>>], 0)
    BY DEF Nests
  <2> QED BY <2>1
<1>2. ASSUME NEW n \in 1..N, n - 1 \in S PROVE n \in S
  <2>1. PICK f : Nests(page, f, n - 1)
    BY <1>2
  <2>2. PICK g : Extends(page, f, g, n)
    BY DEF Extends
  <2>3. Nests(page, g, n)
    BY <2>1, <2>2, NestsExtends
  <2> QED BY <2>3
<1>3. N \in S
  <2> HIDE DEF S
  <2> QED BY <1>1, <1>2, HandedOn
<1>4. \E f : Nests(page, f, N)
  BY <1>3
<1>5. Nesting(page) = CHOOSE f : Nests(page, f, N)
  BY DEF Nesting, Nests
<1> QED BY <1>4, <1>5

\* One token more.
LEMMA NestsAppend ==
  ASSUME NEW page \in Seq(Token), NEW token \in Token, NEW f, Nests(page, f, Len(page))
  PROVE  LET more == Append(page, token)
             n == Len(page) + 1
         IN \E g : /\ Nests(more, g, n) /\ g[n] = Now(f[n - 1], token)
                   /\ \A m \in 0..n - 1 : g[m] = f[m]
<1> DEFINE more == Append(page, token)
           n == Len(page) + 1
<1>1. /\ n \in Nat /\ n >= 1 /\ n - 1 = Len(page) /\ more[n] = token
      /\ \A m \in 1..n - 1 : more[m] = page[m]
  BY AppendProperties, LenProperties
<1>2. Nests(more, f, n - 1)
  <2> HIDE DEF more, n
  <2>1. Nests(page, f, n - 1)
    BY <1>1
  <2> QED BY <1>1, <2>1 DEF Nests
<1>3. PICK g : Extends(more, f, g, n)
  BY DEF Extends
<1> HIDE DEF more, n
<1>4. Nests(more, g, n)
  BY <1>1, <1>2, <1>3, NestsExtends
<1>5. g[n] = Now(f[n - 1], token) /\ \A m \in 0..n - 1 : g[m] = f[m]
  BY <1>1, <1>3 DEF Extends
<1> QED BY <1>4, <1>5 DEF more, n

\* There is one way to read a page.
LEMMA NestsOnce ==
  ASSUME NEW page, NEW N \in Nat, NEW f, NEW g, Nests(page, f, N), Nests(page, g, N)
  PROVE  f = g
<1> DEFINE S == {n \in 0..N : f[n] = g[n]}
<1>1. 0 \in S
  BY DEF Nests
<1>2. ASSUME NEW n \in 1..N, n - 1 \in S PROVE n \in S
  <2>1. f[n] = Now(f[n - 1], page[n]) /\ g[n] = Now(g[n - 1], page[n])
    BY DEF Nests
  <2> QED BY <1>2, <2>1
<1>3. \A n \in 0..N : n \in S
  <2> HIDE DEF S
  <2> QED BY <1>1, <1>2, HandedOn
<1>4. \A n \in 0..N : f[n] = g[n]
  BY <1>3
<1>5. /\ DOMAIN f = 0..N /\ f = [n \in DOMAIN f |-> f[n]]
      /\ DOMAIN g = 0..N /\ g = [n \in DOMAIN g |-> g[n]]
  BY DEF Nests
<1> QED BY <1>4, <1>5

-----------------------------------------------------------------------------
(* A page under way: what of the body is on it, and which tags are open *)

Shown(page) == {k \in 1..Len(page) : page[k].is = "line"}
Holding(b, n) == {i \in 1..n : b[i].is # "fence" /\ (b[i].is # "blank" \/ InCode(b, i))}

\* The first n lines are shown, each in its place, in their order.
ShowsLines(b, n, page, open) ==
  /\ \A k \in Shown(page) : /\ page[k].line \in Holding(b, n)
                            /\ open[k] = Place(b, page[k].line)
  /\ \A i \in Holding(b, n) : \E k \in Shown(page) : page[k].line = i
  /\ \A k, m \in Shown(page) : k < m => page[k].line < page[m].line

Under(b, n, page, now) ==
  /\ page \in Seq(Token)
  /\ \E open : /\ Nests(page, open, Len(page)) /\ open[Len(page)] = now
               /\ ShowsLines(b, n, page, open)

LEMMA UnderNothing ==
  ASSUME NEW b
  PROVE  Under(b, 0, <<>>, <<>>)
<1> DEFINE open == [k \in 0..0 |-> <<>>]
<1>1. <<>> \in Seq(Token) /\ Len(<<>>) = 0
  OBVIOUS
<1>2. Nests(<<>>, open, 0)
  BY DEF Nests
<1>3. Shown(<<>>) = {} /\ Holding(b, 0) = {}
  BY <1>1 DEF Shown, Holding
<1>4. ShowsLines(b, 0, <<>>, open)
  BY <1>3 DEF ShowsLines
<1>5. open[0] = <<>>
  OBVIOUS
<1> HIDE DEF open
<1> QED BY <1>1, <1>2, <1>4, <1>5 DEF Under

\* A tag changes what is open and nothing of what is shown.
LEMMA UnderTag ==
  ASSUME NEW b, NEW n \in Nat, NEW page, NEW now, NEW then, Under(b, n, page, now),
         NEW token \in Token, token.is # "line", then = Now(now, token)
  PROVE  Under(b, n, Append(page, token), then)
<1> DEFINE more == Append(page, token)
           last == Len(page) + 1
<1>1. page \in Seq(Token)
  BY DEF Under
<1>2. PICK open : /\ Nests(page, open, Len(page)) /\ open[Len(page)] = now
                  /\ ShowsLines(b, n, page, open)
  BY DEF Under
<1>3. PICK g : /\ Nests(more, g, last) /\ g[last] = Now(open[last - 1], token)
               /\ \A m \in 0..last - 1 : g[m] = open[m]
  BY <1>1, <1>2, NestsAppend
<1>4. /\ more \in Seq(Token) /\ Len(more) = last /\ last - 1 = Len(page)
      /\ Len(page) \in Nat /\ more[last] = token
      /\ \A m \in 1..Len(page) : more[m] = page[m]
  BY <1>1, AppendProperties, LenProperties
<1> HIDE DEF more, last
<1>5. Shown(more) = Shown(page) /\ \A k \in Shown(page) : more[k] = page[k] /\ g[k] = open[k]
  BY <1>3, <1>4 DEF Shown
<1>6. ShowsLines(b, n, more, g)
  BY <1>2, <1>5 DEF ShowsLines
<1>7. g[Len(more)] = then /\ Nests(more, g, Len(more))
  BY <1>2, <1>3, <1>4
<1>8. Under(b, n, more, then)
  BY <1>4, <1>6, <1>7 DEF Under
<1> QED BY <1>8 DEF more

\* The next line is shown where the open tags are its place.
LEMMA UnderShows ==
  ASSUME NEW b, NEW n \in Nat, n >= 1, NEW page, NEW now, Under(b, n - 1, page, now),
         n \in Holding(b, n), Place(b, n) = now
  PROVE  Under(b, n, Append(page, Shows(n)), now)
<1> DEFINE more == Append(page, Shows(n))
           last == Len(page) + 1
<1>0. Shows(n) \in Token /\ Shows(n).is = "line" /\ Shows(n).line = n
  BY DEF Shows, Token
<1>1. page \in Seq(Token)
  BY DEF Under
<1>2. PICK open : /\ Nests(page, open, Len(page)) /\ open[Len(page)] = now
                  /\ ShowsLines(b, n - 1, page, open)
  BY DEF Under
<1>3. PICK g : /\ Nests(more, g, last) /\ g[last] = Now(open[last - 1], Shows(n))
               /\ \A m \in 0..last - 1 : g[m] = open[m]
  BY <1>0, <1>1, <1>2, NestsAppend
<1>4. /\ more \in Seq(Token) /\ Len(more) = last /\ last - 1 = Len(page)
      /\ Len(page) \in Nat /\ more[last] = Shows(n)
      /\ \A m \in 1..Len(page) : more[m] = page[m]
  BY <1>0, <1>1, AppendProperties, LenProperties
<1>5. Now(now, Shows(n)) = now
  BY <1>0 DEF Now
<1> HIDE DEF more, last
<1>6. /\ Shown(more) = Shown(page) \cup {last}
      /\ \A k \in Shown(page) : more[k] = page[k] /\ g[k] = open[k] /\ k < last /\ k \in Nat
  BY <1>0, <1>3, <1>4 DEF Shown
<1>7. /\ Holding(b, n) = Holding(b, n - 1) \cup {n} /\ \A i \in Holding(b, n - 1) : i < n
      /\ last \in Nat
  BY <1>4 DEF Holding
<1>8. g[last] = now /\ more[last].line = n
  BY <1>0, <1>2, <1>3, <1>4, <1>5
<1>9. ShowsLines(b, n, more, g)
  <2>1. \A k \in Shown(more) : more[k].line \in Holding(b, n) /\ g[k] = Place(b, more[k].line)
    BY <1>2, <1>6, <1>7, <1>8 DEF ShowsLines
  <2>2. \A i \in Holding(b, n) : \E k \in Shown(more) : more[k].line = i
    BY <1>2, <1>6, <1>7, <1>8 DEF ShowsLines
  <2>3. \A k, m \in Shown(more) : k < m => more[k].line < more[m].line
    BY <1>2, <1>6, <1>7, <1>8 DEF ShowsLines
  <2> QED BY <2>1, <2>2, <2>3 DEF ShowsLines
<1>10. Under(b, n, more, now)
  BY <1>3, <1>4, <1>8, <1>9 DEF Under
<1> QED BY <1>10 DEF more

\* A line that holds nothing is passed over.
LEMMA UnderSkips ==
  ASSUME NEW b, NEW n \in Nat, n >= 1, NEW page, NEW now, Under(b, n - 1, page, now),
         n \notin Holding(b, n)
  PROVE  Under(b, n, page, now)
<1>1. Holding(b, n) = Holding(b, n - 1)
  BY DEF Holding
<1> QED BY <1>1 DEF Under, ShowsLines

\* The tags the page opens and closes.
LEMMA TagsOpened ==
  /\ Opens("p") \in Token /\ Opens("p").is # "line" /\ Now(<<>>, Opens("p")) = <<"p">>
  /\ Opens("pre") \in Token /\ Opens("pre").is # "line" /\ Now(<<>>, Opens("pre")) = <<"pre">>
  /\ Opens("h") \in Token /\ Opens("h").is # "line" /\ Now(<<>>, Opens("h")) = <<"h">>
  /\ Opens("ul") \in Token /\ Opens("ul").is # "line" /\ Now(<<>>, Opens("ul")) = <<"ul">>
  /\ Opens("li") \in Token /\ Opens("li").is # "line"
  /\ Now(<<"ul">>, Opens("li")) = <<"ul", "li">>
<1>1. \A tag \in Tag : Opens(tag) \in Token /\ Opens(tag).is = "open" /\ Opens(tag).tag = tag
  BY DEF Opens, Token
<1>2. ASSUME NEW tag \in Tag \ {"li"} PROVE Now(<<>>, Opens(tag)) = <<tag>>
  <2>1. Append(<<>>, tag) = <<tag>>
    OBVIOUS
  <2> QED BY <1>1, <2>1 DEF Now
<1>3. Now(<<"ul">>, Opens("li")) = <<"ul", "li">>
  <2>1. Append(<<"ul">>, "li") = <<"ul", "li">>
    <3> DEFINE one == <<"ul">>
               two == <<"ul", "li">>
    <3>1. one \in Seq(Tag) /\ Len(one) = 1 /\ one[1] = "ul" /\ "li" \in Tag
      BY DEF Tag
    <3>2. two \in Seq(Tag) /\ Len(two) = 2 /\ two[1] = "ul" /\ two[2] = "li"
      BY DEF Tag
    <3> HIDE DEF one, two
    <3>3. Append(one, "li") = two
      BY <3>1, <3>2, AppendProperties, SeqEqual
    <3> QED BY <3>3 DEF one, two
  <2>2. Opens("li").is = "open" /\ Opens("li").tag = "li"
    BY DEF Opens
  <2> QED BY <2>1, <2>2 DEF Now
<1> QED BY <1>1, <1>2, <1>3 DEF Tag

LEMMA TagsClosed ==
  /\ Closes("p") \in Token /\ Closes("p").is # "line" /\ Now(<<"p">>, Closes("p")) = <<>>
  /\ Closes("pre") \in Token /\ Closes("pre").is # "line" /\ Now(<<"pre">>, Closes("pre")) = <<>>
  /\ Closes("h") \in Token /\ Closes("h").is # "line" /\ Now(<<"h">>, Closes("h")) = <<>>
  /\ Closes("ul") \in Token /\ Closes("ul").is # "line" /\ Now(<<"ul">>, Closes("ul")) = <<>>
  /\ Closes("li") \in Token /\ Closes("li").is # "line"
  /\ Now(<<"ul", "li">>, Closes("li")) = <<"ul">>
<1>1. \A tag \in Tag : Closes(tag) \in Token /\ Closes(tag).is = "close" /\ Closes(tag).tag = tag
  BY DEF Closes, Token
<1>2. \A tag \in Tag : /\ Len(<<tag>>) = 1 /\ <<tag>>[1] = tag /\ <<tag>> # <<>>
                       /\ Front(<<tag>>) = <<>>
  <2> SUFFICES ASSUME NEW tag \in Tag
               PROVE  /\ Len(<<tag>>) = 1 /\ <<tag>>[1] = tag /\ <<tag>> # <<>>
                      /\ Front(<<tag>>) = <<>>
    OBVIOUS
  <2>1. Len(<<tag>>) = 1 /\ <<tag>>[1] = tag /\ <<tag>> # <<>>
    OBVIOUS
  <2>2. SubSeq(<<tag>>, 1, 0) = <<>>
    BY SubSeqEmpty
  <2> QED BY <2>1, <2>2 DEF Front
<1>3. \A tag \in Tag : Now(<<tag>>, Closes(tag)) = <<>>
  BY <1>1, <1>2 DEF Now, Last
<1>4. Front(<<"ul", "li">>) = <<"ul">>
  <2> DEFINE two == <<"ul", "li">>
             one == SubSeq(two, 1, 1)
  <2>1. two \in Seq(Tag) /\ Len(two) = 2 /\ two[1] = "ul"
    BY DEF Tag
  <2>2. one \in Seq(Tag) /\ Len(one) = 1 /\ one[1] = "ul"
    <3> HIDE DEF two
    <3>1. \A i \in 1..1 : two[i] \in Tag
      BY <2>1 DEF Tag
    <3> QED BY <2>1, <3>1, SubSeqProperties
  <2>3. <<"ul">> \in Seq(Tag) /\ Len(<<"ul">>) = 1 /\ <<"ul">>[1] = "ul"
    BY DEF Tag
  <2>4. one = <<"ul">>
    <3> HIDE DEF one
    <3> QED BY <2>2, <2>3, SeqEqual
  <2> QED BY <2>1, <2>4 DEF Front
<1>5. Now(<<"ul", "li">>, Closes("li")) = <<"ul">>
  BY <1>1, <1>4 DEF Now, Last, Tag
<1> QED BY <1>1, <1>3, <1>5 DEF Tag

LEMMA OneMore ==
  ASSUME NEW o \in Seq(Token), NEW q \in Seq(Token), NEW t \in Token
  PROVE  /\ o \o <<t>> = Append(o, t)
         /\ o \o (q \o <<t>>) = Append(o \o q, t)
         /\ q \o <<t>> \in Seq(Token)
<1>1. <<t>> \in Seq(Token)
  OBVIOUS
<1>2. o \o q \in Seq(Token) /\ q \o <<t>> \in Seq(Token)
  BY <1>1, ConcatProperties
<1>3. o \o (q \o <<t>>) = (o \o q) \o <<t>>
  BY <1>1, ConcatAssociative
<1> QED BY <1>2, <1>3, AppendIsConcat

LEMMA BlockIs ==
  ASSUME NEW o \in Seq(Token), NEW p \in Seq(Token), NEW tag \in Tag
  PROVE  o \o Block(tag, p) = Append(o \o (<<Opens(tag)>> \o p), Closes(tag))
<1>1. Opens(tag) \in Token /\ Closes(tag) \in Token
  BY DEF Opens, Closes, Token
<1>2. <<Opens(tag)>> \o p \in Seq(Token)
  <2>1. <<Opens(tag)>> \in Seq(Token)
    BY <1>1
  <2> QED BY <2>1, ConcatProperties
<1> QED BY <1>1, <1>2, OneMore DEF Block

LEMMA UnderBlock ==
  ASSUME NEW b, NEW n \in Nat, n >= 1, NEW o, NEW now, NEW then, NEW tag \in Tag,
         Under(b, n - 1, o, now), n \in Holding(b, n), Place(b, n) = then,
         Now(now, Opens(tag)) = then, Now(then, Closes(tag)) = now
  PROVE  Under(b, n, o \o Block(tag, <<Shows(n)>>), now)
<1>1. /\ Opens(tag) \in Token /\ Opens(tag).is # "line"
      /\ Closes(tag) \in Token /\ Closes(tag).is # "line"
  BY DEF Opens, Closes, Token
<1>2. Shows(n) \in Token /\ o \in Seq(Token) /\ n - 1 \in Nat
  <2>1. Shows(n) \in Token
    BY DEF Shows, Token
  <2> QED BY <2>1 DEF Under
<1>3. Under(b, n - 1, Append(o, Opens(tag)), then)
  BY <1>1, <1>2, UnderTag
<1>4. Under(b, n, Append(Append(o, Opens(tag)), Shows(n)), then)
  BY <1>3, UnderShows
<1>5. Under(b, n, Append(Append(Append(o, Opens(tag)), Shows(n)), Closes(tag)), now)
  BY <1>1, <1>4, UnderTag
<1>6. <<Opens(tag)>> \in Seq(Token) /\ <<Shows(n)>> \in Seq(Token)
  BY <1>1, <1>2
<1>7. o \o (<<Opens(tag)>> \o <<Shows(n)>>) = Append(Append(o, Opens(tag)), Shows(n))
  BY <1>1, <1>2, <1>6, OneMore
<1>8. o \o Block(tag, <<Shows(n)>>)
        = Append(o \o (<<Opens(tag)>> \o <<Shows(n)>>), Closes(tag))
  BY <1>2, <1>6, BlockIs
<1> QED BY <1>5, <1>7, <1>8

-----------------------------------------------------------------------------
(* The four states between two lines *)

Reading(o, p, list, code) == [out |-> o, para |-> p, inList |-> list, inCode |-> code]

Free(b, n, s) ==
  \E o : Under(b, n, o, <<>>) /\ s = Reading(o, <<>>, FALSE, FALSE)
Listing(b, n, s) ==
  \E o : Under(b, n, o, <<"ul">>) /\ s = Reading(o, <<>>, TRUE, FALSE)
Coding(b, n, s) ==
  \E o : Under(b, n, o, <<"pre">>) /\ s = Reading(o, <<>>, FALSE, TRUE)
\* Here the lines of the paragraph are still to be put on the page.
Writing(b, n, s) ==
  \E o, p \in Seq(Token) :
    /\ p # <<>> /\ Under(b, n, o \o (<<Opens("p")>> \o p), <<"p">>)
    /\ s = Reading(o, p, FALSE, FALSE)

Text(b, n, s) == Free(b, n, s) \/ Listing(b, n, s) \/ Writing(b, n, s)

LEMMA SetPara ==
  ASSUME NEW o, NEW p, NEW list, NEW code, NEW x
  PROVE  [Reading(o, p, list, code) EXCEPT !.para = x] = Reading(o, x, list, code)
BY DEF Reading

LEMMA SetList ==
  ASSUME NEW o, NEW p, NEW list, NEW code, NEW x
  PROVE  [Reading(o, p, list, code) EXCEPT !.inList = x] = Reading(o, p, x, code)
BY DEF Reading

LEMMA SetCode ==
  ASSUME NEW o, NEW p, NEW list, NEW code, NEW x
  PROVE  [Reading(o, p, list, code) EXCEPT !.inCode = x] = Reading(o, p, list, x)
BY DEF Reading

LEMMA ParaIs ==
  ASSUME NEW o, NEW p, NEW x
  PROVE  [Reading(o, p, FALSE, FALSE) EXCEPT !.para = x] = Reading(o, x, FALSE, FALSE)
<1>1. PICK f : f = FALSE
  OBVIOUS
<1>2. [Reading(o, p, f, f) EXCEPT !.para = x] = Reading(o, x, f, f)
  BY SetPara
<1> QED BY <1>1, <1>2

LEMMA SwitchIs ==
  ASSUME NEW o, NEW p
  PROVE  /\ [Reading(o, p, FALSE, FALSE) EXCEPT !.inList = TRUE] = Reading(o, p, TRUE, FALSE)
         /\ [Reading(o, p, TRUE, FALSE) EXCEPT !.inList = TRUE] = Reading(o, p, TRUE, FALSE)
         /\ [Reading(o, p, FALSE, FALSE) EXCEPT !.inCode = TRUE] = Reading(o, p, FALSE, TRUE)
         /\ [Reading(o, p, FALSE, TRUE) EXCEPT !.inCode = FALSE] = Reading(o, p, FALSE, FALSE)
<1>1. PICK t, f : t = TRUE /\ f = FALSE
  OBVIOUS
<1>3. [Reading(o, p, f, f) EXCEPT !.inList = t] = Reading(o, p, t, f)
  BY SetList
<1>4. [Reading(o, p, t, f) EXCEPT !.inList = t] = Reading(o, p, t, f)
  BY SetList
<1>5. [Reading(o, p, f, f) EXCEPT !.inCode = t] = Reading(o, p, f, t)
  BY SetCode
<1>6. [Reading(o, p, f, t) EXCEPT !.inCode = f] = Reading(o, p, f, f)
  BY SetCode
<1> QED BY <1>1, <1>3, <1>4, <1>5, <1>6

LEMMA PutIs ==
  ASSUME NEW o, NEW p, NEW t
  PROVE  /\ Put(Reading(o, p, TRUE, FALSE), t) = Reading(o \o t, p, TRUE, FALSE)
         /\ Put(Reading(o, p, FALSE, FALSE), t) = Reading(o \o t, p, FALSE, FALSE)
         /\ Put(Reading(o, p, FALSE, TRUE), t) = Reading(o \o t, p, FALSE, TRUE)
<1>1. ASSUME NEW l, NEW c PROVE Put(Reading(o, p, l, c), t) = Reading(o \o t, p, l, c)
  BY DEF Put, Reading
<1> QED BY <1>1, Zenon

LEMMA CloseIs ==
  ASSUME NEW o, NEW p
  PROVE  /\ closeList(Reading(o, p, TRUE, FALSE)) = Reading(o \o <<Closes("ul")>>, p, FALSE, FALSE)
         /\ closeList(Reading(o, p, FALSE, FALSE)) = Reading(o, p, FALSE, FALSE)
         /\ closeList(Reading(o, p, FALSE, TRUE)) = Reading(o, p, FALSE, TRUE)
BY DEF closeList, Put, Reading

LEMMA FlushIs ==
  ASSUME NEW o, NEW p
  PROVE  /\ flushPara(Reading(o, <<>>, TRUE, FALSE)) = Reading(o, <<>>, TRUE, FALSE)
         /\ flushPara(Reading(o, <<>>, FALSE, FALSE)) = Reading(o, <<>>, FALSE, FALSE)
         /\ flushPara(Reading(o, <<>>, FALSE, TRUE)) = Reading(o, <<>>, FALSE, TRUE)
         /\ p # <<>> =>
              flushPara(Reading(o, p, FALSE, FALSE))
                = Reading(o \o Block("p", p), <<>>, FALSE, FALSE)
BY DEF flushPara, Put, Reading

LEMMA CloseListing ==
  ASSUME NEW b, NEW n \in Nat, NEW s, Listing(b, n, s)
  PROVE  Free(b, n, closeList(s))
<1>1. PICK o : Under(b, n, o, <<"ul">>) /\ s = Reading(o, <<>>, TRUE, FALSE)
  BY DEF Listing
<1>2. o \in Seq(Token) /\ o \o <<Closes("ul")>> = Append(o, Closes("ul"))
  BY <1>1, TagsClosed, OneMore DEF Under
<1>3. Under(b, n, o \o <<Closes("ul")>>, <<>>)
  BY <1>1, <1>2, TagsClosed, UnderTag
<1>4. closeList(s) = Reading(o \o <<Closes("ul")>>, <<>>, FALSE, FALSE)
  BY <1>1, CloseIs
<1> QED BY <1>3, <1>4 DEF Free

LEMMA FlushAgain ==
  ASSUME NEW b, NEW n \in Nat, NEW s, Text(b, n, s)
  PROVE  Free(b, n, flushPara(s)) \/ Listing(b, n, flushPara(s))
<1>1. CASE Free(b, n, s)
  <2>1. PICK o : Under(b, n, o, <<>>) /\ s = Reading(o, <<>>, FALSE, FALSE)
    BY <1>1 DEF Free
  <2>2. flushPara(s) = s
    BY <2>1, FlushIs
  <2> QED BY <1>1, <2>2
<1>2. CASE Listing(b, n, s)
  <2>1. PICK o : Under(b, n, o, <<"ul">>) /\ s = Reading(o, <<>>, TRUE, FALSE)
    BY <1>2 DEF Listing
  <2>2. flushPara(s) = s
    BY <2>1, FlushIs
  <2> QED BY <1>2, <2>2
<1>3. CASE Writing(b, n, s)
  <2>1. PICK o \in Seq(Token), p \in Seq(Token) :
          /\ p # <<>> /\ Under(b, n, o \o (<<Opens("p")>> \o p), <<"p">>)
          /\ s = Reading(o, p, FALSE, FALSE)
    BY <1>3 DEF Writing
  <2>2. o \o Block("p", p) = Append(o \o (<<Opens("p")>> \o p), Closes("p"))
    BY BlockIs DEF Tag
  <2>3. Under(b, n, o \o Block("p", p), <<>>)
    BY <2>1, <2>2, TagsClosed, UnderTag
  <2>4. flushPara(s) = Reading(o \o Block("p", p), <<>>, FALSE, FALSE)
    BY <2>1, FlushIs
  <2> QED BY <2>3, <2>4 DEF Free
<1> QED BY <1>1, <1>2, <1>3 DEF Text

LEMMA CloseAgain ==
  ASSUME NEW b, NEW n \in Nat, NEW s, Text(b, n, s)
  PROVE  Free(b, n, closeList(s)) \/ Writing(b, n, closeList(s))
<1>1. CASE Free(b, n, s)
  <2>1. PICK o : Under(b, n, o, <<>>) /\ s = Reading(o, <<>>, FALSE, FALSE)
    BY <1>1 DEF Free
  <2>2. closeList(s) = s
    BY <2>1, CloseIs
  <2> QED BY <1>1, <2>2
<1>2. CASE Listing(b, n, s)
  BY <1>2, CloseListing
<1>3. CASE Writing(b, n, s)
  <2>1. PICK o \in Seq(Token), p \in Seq(Token) : s = Reading(o, p, FALSE, FALSE)
    BY <1>3 DEF Writing
  <2>2. closeList(s) = s
    BY <2>1, CloseIs
  <2> QED BY <1>3, <2>2
<1> QED BY <1>1, <1>2, <1>3 DEF Text

LEMMA FreeAgain ==
  ASSUME NEW b, NEW n \in Nat, NEW s, Text(b, n, s)
  PROVE  Free(b, n, closeList(flushPara(s)))
<1>1. Free(b, n, flushPara(s)) \/ Listing(b, n, flushPara(s))
  BY FlushAgain
<1>2. CASE Free(b, n, flushPara(s))
  <2>1. PICK o : flushPara(s) = Reading(o, <<>>, FALSE, FALSE)
    BY <1>2 DEF Free
  <2>2. closeList(flushPara(s)) = flushPara(s)
    BY <2>1, CloseIs
  <2> QED BY <1>2, <2>2
<1>3. CASE Listing(b, n, flushPara(s))
  BY <1>3, CloseListing
<1> QED BY <1>1, <1>2, <1>3

\* What a line counts for: a fence turns code on or off, and what follows is in code
\* while the fences above are odd.
Odd(b, n) == Count(b, 1, n) % 2 = 1

LEMMA OddFence ==
  ASSUME NEW b, NEW n \in Nat, n >= 1, b[n].is = "fence"
  PROVE  Odd(b, n) <=> ~ Odd(b, n - 1)
<1>1. n - 1 \in Nat /\ Count(b, 1, n - 1) \in Nat
  BY CountType
<1>2. Count(b, 1, n) = Count(b, 1, n - 1) + 1
  <2>1. Fences(b, 1, n) = Fences(b, 1, n - 1) \cup {n} /\ n \notin Fences(b, 1, n - 1)
    BY DEF Fences
  <2>2. IsFiniteSet(Fences(b, 1, n - 1))
    BY <1>1, CountType
  <2> QED BY <2>1, <2>2, FS_AddElement DEF Count
<1>3. \A c \in Nat : (c + 1) % 2 = 1 <=> c % 2 # 1
  OBVIOUS
<1> QED BY <1>1, <1>2, <1>3 DEF Odd

LEMMA OddText ==
  ASSUME NEW b, NEW n \in Nat, n >= 1, b[n].is # "fence"
  PROVE  (Odd(b, n) <=> Odd(b, n - 1)) /\ (InCode(b, n) <=> Odd(b, n - 1))
BY CountNext, InCodeCounts DEF Odd

LEMMA FenceLine ==
  ASSUME NEW b, NEW n \in Nat, n >= 1, b[n].is = "fence"
  PROVE  n \notin Holding(b, n)
BY DEF Holding

LEMMA CodeHolds ==
  ASSUME NEW b, NEW n \in Nat, n >= 1, b[n].is # "fence", Odd(b, n - 1)
  PROVE  n \in Holding(b, n) /\ Place(b, n) = <<"pre">>
BY OddText DEF Holding, Place

LEMMA TextHolds ==
  ASSUME NEW b, NEW n \in Nat, n >= 1, b[n].is # "fence", ~ Odd(b, n - 1)
  PROVE  /\ n \in Holding(b, n) <=> b[n].is # "blank"
         /\ b[n].is \in {"title", "section"} => Place(b, n) = <<"h">>
         /\ IsEntry(b[n]) => Place(b, n) = <<"ul", "li">>
         /\ b[n].is \notin {"title", "section"} /\ ~ IsEntry(b[n]) => Place(b, n) = <<"p">>
<1>1. ~ InCode(b, n)
  BY OddText
<1>2. n \in Holding(b, n) <=> b[n].is # "blank"
  BY <1>1 DEF Holding
<1> QED BY <1>1, <1>2 DEF Place, IsEntry

LEMMA CodeFence ==
  ASSUME NEW b, NEW n \in Nat, n >= 1, NEW s, Coding(b, n - 1, s), b[n].is = "fence"
  PROVE  Free(b, n, NextLine(s, b[n], n))
<1>1. PICK o : Under(b, n - 1, o, <<"pre">>) /\ s = Reading(o, <<>>, FALSE, TRUE)
  BY DEF Coding
<1>2. o \in Seq(Token) /\ o \o <<Closes("pre")>> = Append(o, Closes("pre")) /\ n - 1 \in Nat
  BY <1>1, TagsClosed, OneMore DEF Under
<1>3. Under(b, n - 1, o \o <<Closes("pre")>>, <<>>)
  BY <1>1, <1>2, TagsClosed, UnderTag
<1>4. Under(b, n, o \o <<Closes("pre")>>, <<>>)
  BY <1>3, FenceLine, UnderSkips
<1>5. NextLine(s, b[n], n) = Reading(o \o <<Closes("pre")>>, <<>>, FALSE, FALSE)
  <2>1. s.inCode
    BY <1>1 DEF Reading
  <2>2. NextLine(s, b[n], n) = [Put(s, <<Closes("pre")>>) EXCEPT !.inCode = FALSE]
    BY <2>1 DEF NextLine, CodeLine
  <2>3. Put(s, <<Closes("pre")>>) = Reading(o \o <<Closes("pre")>>, <<>>, FALSE, TRUE)
    BY <1>1, PutIs
  <2> QED BY <2>2, <2>3, SwitchIs
<1> QED BY <1>4, <1>5 DEF Free

LEMMA CodeText ==
  ASSUME NEW b, NEW n \in Nat, n >= 1, NEW s, Coding(b, n - 1, s),
         b[n].is # "fence", Odd(b, n - 1)
  PROVE  Coding(b, n, NextLine(s, b[n], n))
<1>1. PICK o : Under(b, n - 1, o, <<"pre">>) /\ s = Reading(o, <<>>, FALSE, TRUE)
  BY DEF Coding
<1>2. Shows(n) \in Token
  BY DEF Shows, Token
<1>3. o \in Seq(Token) /\ o \o <<Shows(n)>> = Append(o, Shows(n))
  BY <1>1, <1>2, OneMore DEF Under
<1>4. Under(b, n, o \o <<Shows(n)>>, <<"pre">>)
  BY <1>1, <1>3, CodeHolds, UnderShows
<1>5. NextLine(s, b[n], n) = Reading(o \o <<Shows(n)>>, <<>>, FALSE, TRUE)
  <2>1. s.inCode
    BY <1>1 DEF Reading
  <2>2. NextLine(s, b[n], n) = Put(s, <<Shows(n)>>)
    BY <2>1 DEF NextLine, CodeLine
  <2> QED BY <1>1, <2>2, PutIs
<1> QED BY <1>4, <1>5 DEF Coding

\* Outside of code a line is read for what it is.
LEMMA TextLineIs ==
  ASSUME NEW s, NEW line, NEW i
  PROVE  LET done == closeList(flushPara(s))
         IN /\ line.is = "fence" =>
                 TextLine(s, line, i) = [Put(done, <<Opens("pre")>>) EXCEPT !.inCode = TRUE]
            /\ line.is = "blank" => TextLine(s, line, i) = done
            /\ line.is \in {"title", "section"} =>
                 TextLine(s, line, i) = Put(done, Block("h", <<Shows(i)>>))
            /\ IsEntry(line) => TextLine(s, line, i) = ListItem(s, i)
BY Zenon DEF TextLine, IsEntry

LEMMA TextIsNext ==
  ASSUME NEW b, NEW n, NEW s, Text(b, n, s), NEW line, NEW i
  PROVE  NextLine(s, line, i) = TextLine(s, line, i)
<1>1. ~ s.inCode
  BY DEF Text, Free, Listing, Writing, Reading
<1> QED BY <1>1 DEF NextLine

LEMMA TextFence ==
  ASSUME NEW b, NEW n \in Nat, n >= 1, NEW s, Text(b, n - 1, s), b[n].is = "fence"
  PROVE  Coding(b, n, NextLine(s, b[n], n))
<1> DEFINE done == closeList(flushPara(s))
<1>0. NextLine(s, b[n], n) = TextLine(s, b[n], n)
  BY TextIsNext
<1>1. PICK o : Under(b, n - 1, o, <<>>) /\ done = Reading(o, <<>>, FALSE, FALSE)
  <2>1. n - 1 \in Nat
    OBVIOUS
  <2>2. Free(b, n - 1, done)
    BY <2>1, FreeAgain
  <2> QED BY <2>2 DEF Free
<1>2. o \in Seq(Token) /\ o \o <<Opens("pre")>> = Append(o, Opens("pre")) /\ n - 1 \in Nat
  BY <1>1, TagsOpened, OneMore DEF Under
<1>3. Under(b, n - 1, o \o <<Opens("pre")>>, <<"pre">>)
  BY <1>1, <1>2, TagsOpened, UnderTag
<1>4. Under(b, n, o \o <<Opens("pre")>>, <<"pre">>)
  BY <1>3, FenceLine, UnderSkips
<1>5. NextLine(s, b[n], n) = [Put(done, <<Opens("pre")>>) EXCEPT !.inCode = TRUE]
  BY <1>0, TextLineIs
<1>6. Put(done, <<Opens("pre")>>) = Reading(o \o <<Opens("pre")>>, <<>>, FALSE, FALSE)
  BY <1>1, PutIs
<1>7. NextLine(s, b[n], n) = Reading(o \o <<Opens("pre")>>, <<>>, FALSE, TRUE)
  BY <1>5, <1>6, SwitchIs
<1> QED BY <1>4, <1>7 DEF Coding

LEMMA TextBlank ==
  ASSUME NEW b, NEW n \in Nat, n >= 1, NEW s, Text(b, n - 1, s),
         b[n].is = "blank", ~ Odd(b, n - 1)
  PROVE  Free(b, n, NextLine(s, b[n], n))
<1> DEFINE done == closeList(flushPara(s))
<1>0. NextLine(s, b[n], n) = TextLine(s, b[n], n)
  BY TextIsNext
<1>1. PICK o : Under(b, n - 1, o, <<>>) /\ done = Reading(o, <<>>, FALSE, FALSE)
  <2>1. n - 1 \in Nat
    OBVIOUS
  <2>2. Free(b, n - 1, done)
    BY <2>1, FreeAgain
  <2> QED BY <2>2 DEF Free
<1>2. Under(b, n, o, <<>>)
  BY <1>1, TextHolds, UnderSkips
<1>3. NextLine(s, b[n], n) = done
  BY <1>0, TextLineIs
<1> QED BY <1>1, <1>2, <1>3 DEF Free

LEMMA TextHeading ==
  ASSUME NEW b, NEW n \in Nat, n >= 1, NEW s, Text(b, n - 1, s),
         b[n].is \in {"title", "section"}, ~ Odd(b, n - 1)
  PROVE  Free(b, n, NextLine(s, b[n], n))
<1> DEFINE done == closeList(flushPara(s))
<1>0. NextLine(s, b[n], n) = TextLine(s, b[n], n)
  BY TextIsNext
<1>1. PICK o : Under(b, n - 1, o, <<>>) /\ done = Reading(o, <<>>, FALSE, FALSE)
  <2>1. n - 1 \in Nat
    OBVIOUS
  <2>2. Free(b, n - 1, done)
    BY <2>1, FreeAgain
  <2> QED BY <2>2 DEF Free
<1>2. n \in Holding(b, n) /\ Place(b, n) = <<"h">>
  BY TextHolds
<1>3. Under(b, n, o \o Block("h", <<Shows(n)>>), <<>>)
  BY <1>1, <1>2, TagsOpened, TagsClosed, UnderBlock DEF Tag
<1>4. NextLine(s, b[n], n) = Put(done, Block("h", <<Shows(n)>>))
  BY <1>0, TextLineIs
<1>5. NextLine(s, b[n], n) = Reading(o \o Block("h", <<Shows(n)>>), <<>>, FALSE, FALSE)
  BY <1>1, <1>4, PutIs
<1> QED BY <1>3, <1>5 DEF Free

LEMMA TextEntry ==
  ASSUME NEW b, NEW n \in Nat, n >= 1, NEW s, Text(b, n - 1, s),
         IsEntry(b[n]), ~ Odd(b, n - 1)
  PROVE  Listing(b, n, NextLine(s, b[n], n))
<1> DEFINE t == flushPara(s)
           item == Block("li", <<Shows(n)>>)
<1>0. NextLine(s, b[n], n) = ListItem(s, n)
  <2>1. NextLine(s, b[n], n) = TextLine(s, b[n], n)
    BY TextIsNext
  <2>2. TextLine(s, b[n], n) = ListItem(s, n)
    BY TextLineIs
  <2> QED BY <2>1, <2>2
<1>1. n \in Holding(b, n) /\ Place(b, n) = <<"ul", "li">>
  BY TextHolds DEF IsEntry
<1>2. n - 1 \in Nat
  OBVIOUS
<1>3. item \in Seq(Token)
  <2>1. /\ <<Opens("li")>> \in Seq(Token) /\ <<Shows(n)>> \in Seq(Token)
        /\ <<Closes("li")>> \in Seq(Token)
    BY DEF Opens, Shows, Closes, Token, Tag
  <2>2. <<Opens("li")>> \o <<Shows(n)>> \in Seq(Token)
    BY <2>1, ConcatProperties
  <2> QED BY <2>1, <2>2, ConcatProperties DEF Block
<1>4. Free(b, n - 1, t) \/ Listing(b, n - 1, t)
  BY <1>2, FlushAgain
<1>5. CASE Free(b, n - 1, t)
  <2>1. PICK o : Under(b, n - 1, o, <<>>) /\ t = Reading(o, <<>>, FALSE, FALSE)
    BY <1>5 DEF Free
  <2> DEFINE ul == <<Opens("ul")>>
  <2>2. o \in Seq(Token) /\ ul \in Seq(Token) /\ o \o ul = Append(o, Opens("ul"))
    BY <2>1, TagsOpened, OneMore DEF Under
  <2>3. Under(b, n - 1, o \o ul, <<"ul">>)
    BY <1>2, <2>1, <2>2, TagsOpened, UnderTag
  <2>4. Under(b, n, (o \o ul) \o item, <<"ul">>)
    BY <1>1, <2>3, TagsOpened, TagsClosed, UnderBlock DEF Tag
  <2>5. (o \o ul) \o item = o \o (ul \o item)
    BY <1>3, <2>2, ConcatAssociative
  <2>6. ~ t.inList
    BY <2>1 DEF Reading
  <2>7. ListItem(s, n) = [Put(t, ul \o item) EXCEPT !.inList = TRUE]
    BY <2>6, Zenon DEF ListItem
  <2>8. Put(t, ul \o item) = Reading(o \o (ul \o item), <<>>, FALSE, FALSE)
    BY <2>1, PutIs
  <2>9. ListItem(s, n) = Reading(o \o (ul \o item), <<>>, TRUE, FALSE)
    BY <2>7, <2>8, SwitchIs
  <2> QED BY <1>0, <2>4, <2>5, <2>9 DEF Listing
<1>6. CASE Listing(b, n - 1, t)
  <2>1. PICK o : Under(b, n - 1, o, <<"ul">>) /\ t = Reading(o, <<>>, TRUE, FALSE)
    BY <1>6 DEF Listing
  <2>2. Under(b, n, o \o item, <<"ul">>)
    BY <1>1, <2>1, TagsOpened, TagsClosed, UnderBlock DEF Tag
  <2>3. <<>> \o item = item
    BY <1>3, ConcatEmptySeq
  <2>4. t.inList
    BY <2>1 DEF Reading
  <2>5. ListItem(s, n) = [Put(t, <<>> \o item) EXCEPT !.inList = TRUE]
    BY <2>4, Zenon DEF ListItem
  <2>6. Put(t, item) = Reading(o \o item, <<>>, TRUE, FALSE)
    BY <2>1, PutIs
  <2>7. ListItem(s, n) = Reading(o \o item, <<>>, TRUE, FALSE)
    <3>1. [Reading(o \o item, <<>>, TRUE, FALSE) EXCEPT !.inList = TRUE]
            = Reading(o \o item, <<>>, TRUE, FALSE)
      BY SwitchIs
    <3> QED BY <2>3, <2>5, <2>6, <3>1, Zenon
  <2> QED BY <1>0, <2>2, <2>7 DEF Listing
<1> QED BY <1>4, <1>5, <1>6

LEMMA TextProse ==
  ASSUME NEW b, NEW n \in Nat, n >= 1, NEW s, Text(b, n - 1, s),
         b[n].is = "prose", ~ Odd(b, n - 1)
  PROVE  Writing(b, n, NextLine(s, b[n], n))
<1> DEFINE t == closeList(s)
           open == <<Opens("p")>>
<1>0. NextLine(s, b[n], n) = [t EXCEPT !.para = Append(@, Shows(n))]
  <2>1. NextLine(s, b[n], n) = TextLine(s, b[n], n)
    BY TextIsNext
  <2>2. TextLine(s, b[n], n) = [t EXCEPT !.para = Append(@, Shows(n))]
    BY Zenon DEF TextLine, IsEntry
  <2> QED BY <2>1, <2>2
<1>1. n \in Holding(b, n) /\ Place(b, n) = <<"p">>
  BY TextHolds DEF IsEntry
<1>2. Shows(n) \in Token /\ n - 1 \in Nat
  BY DEF Shows, Token
<1>3. open \in Seq(Token) /\ <<>> \in Seq(Token) /\ <<Shows(n)>> \in Seq(Token)
  BY <1>2, TagsOpened
<1>4. Free(b, n - 1, t) \/ Writing(b, n - 1, t)
  BY <1>2, CloseAgain
<1>5. CASE Free(b, n - 1, t)
  <2>1. PICK o : Under(b, n - 1, o, <<>>) /\ t = Reading(o, <<>>, FALSE, FALSE)
    BY <1>5 DEF Free
  <2>2. o \in Seq(Token) /\ o \o open = Append(o, Opens("p"))
    BY <2>1, TagsOpened, OneMore DEF Under
  <2>3. Under(b, n - 1, o \o open, <<"p">>)
    BY <1>2, <2>1, <2>2, TagsOpened, UnderTag
  <2>4. Under(b, n, Append(o \o open, Shows(n)), <<"p">>)
    BY <1>1, <2>3, UnderShows
  <2>5. o \o (open \o <<Shows(n)>>) = Append(o \o open, Shows(n))
    BY <1>2, <1>3, <2>2, OneMore
  <2>6. t.para = <<>>
    BY <2>1 DEF Reading
  <2>7. Append(<<>>, Shows(n)) = <<Shows(n)>> /\ <<Shows(n)>> # <<>>
    OBVIOUS
  <2>8. NextLine(s, b[n], n) = [t EXCEPT !.para = <<Shows(n)>>]
    BY <1>0, <2>6, <2>7, Zenon
  <2>9. NextLine(s, b[n], n) = Reading(o, <<Shows(n)>>, FALSE, FALSE)
    <3>1. [Reading(o, <<>>, FALSE, FALSE) EXCEPT !.para = <<Shows(n)>>]
            = Reading(o, <<Shows(n)>>, FALSE, FALSE)
      BY ParaIs
    <3> QED BY <2>1, <2>8, <3>1, Zenon
  <2> QED BY <1>3, <2>2, <2>4, <2>5, <2>7, <2>9 DEF Writing
<1>6. CASE Writing(b, n - 1, t)
  <2>1. PICK o \in Seq(Token), p \in Seq(Token) :
          /\ p # <<>> /\ Under(b, n - 1, o \o (open \o p), <<"p">>)
          /\ t = Reading(o, p, FALSE, FALSE)
    BY <1>6 DEF Writing
  <2> DEFINE q == Append(p, Shows(n))
  <2>2. q \in Seq(Token) /\ q # <<>> /\ q = p \o <<Shows(n)>>
    BY <1>2, AppendProperties, AppendIsConcat
  <2>3. open \o q = (open \o p) \o <<Shows(n)>>
    BY <1>3, <2>2, ConcatAssociative
  <2>4. open \o p \in Seq(Token)
    BY <1>3, ConcatProperties
  <2>5. o \o (open \o q) = Append(o \o (open \o p), Shows(n))
    <3>1. o \o ((open \o p) \o <<Shows(n)>>) = Append(o \o (open \o p), Shows(n))
      BY <1>2, <2>4, OneMore
    <3> QED BY <2>3, <3>1, Zenon
  <2>6. Under(b, n, o \o (open \o q), <<"p">>)
    BY <1>1, <2>1, <2>5, UnderShows
  <2>7. t.para = p
    BY <2>1 DEF Reading
  <2>8. NextLine(s, b[n], n) = [t EXCEPT !.para = q]
    BY <1>0, <2>7, Zenon
  <2>9. NextLine(s, b[n], n) = Reading(o, q, FALSE, FALSE)
    <3>1. [Reading(o, p, FALSE, FALSE) EXCEPT !.para = q] = Reading(o, q, FALSE, FALSE)
      BY ParaIs
    <3>2. t = Reading(o, p, FALSE, FALSE)
      BY <2>1
    <3> QED BY <2>8, <3>1, <3>2, Zenon
  <2> QED BY <2>2, <2>6, <2>9 DEF Writing
<1> QED BY <1>4, <1>5, <1>6

\* Between two lines: in code while the fences above are odd.
Stands(b, n, s) ==
  /\ Odd(b, n) => Coding(b, n, s)
  /\ ~ Odd(b, n) => Text(b, n, s)

LEMMA LineStands ==
  ASSUME NEW b \in Seq(Line), NEW n \in 1..Len(b), NEW s, Stands(b, n - 1, s)
  PROVE  Stands(b, n, NextLine(s, b[n], n))
<1>1. n \in Nat /\ n >= 1 /\ b[n].is \in Kind
  <2>1. b[n] \in Line
    BY LineAt
  <2>2. \A l \in Line : l.is \in Kind
    BY DEF Line
  <2> QED BY <2>1, <2>2
<1>2. CASE Odd(b, n - 1) /\ b[n].is = "fence"
  <2>1. Free(b, n, NextLine(s, b[n], n))
    BY <1>1, <1>2, CodeFence DEF Stands
  <2> QED BY <1>1, <1>2, <2>1, OddFence DEF Stands, Text
<1>3. CASE Odd(b, n - 1) /\ b[n].is # "fence"
  <2>1. Coding(b, n, NextLine(s, b[n], n))
    BY <1>1, <1>3, CodeText DEF Stands
  <2> QED BY <1>1, <1>3, <2>1, OddText DEF Stands
<1>4. CASE ~ Odd(b, n - 1) /\ b[n].is = "fence"
  <2>1. Coding(b, n, NextLine(s, b[n], n))
    BY <1>1, <1>4, TextFence DEF Stands
  <2> QED BY <1>1, <1>4, <2>1, OddFence DEF Stands
<1>5. CASE ~ Odd(b, n - 1) /\ b[n].is # "fence"
  <2>1. Text(b, n - 1, s) /\ ~ Odd(b, n)
    BY <1>1, <1>5, OddText DEF Stands
  <2>2. CASE b[n].is = "blank"
    BY <1>1, <1>5, <2>1, <2>2, TextBlank DEF Stands, Text
  <2>3. CASE b[n].is \in {"title", "section"}
    BY <1>1, <1>5, <2>1, <2>3, TextHeading DEF Stands, Text
  <2>4. CASE IsEntry(b[n])
    BY <1>1, <1>5, <2>1, <2>4, TextEntry DEF Stands, Text
  <2>5. CASE b[n].is = "prose"
    BY <1>1, <1>5, <2>1, <2>5, TextProse DEF Stands, Text
  <2> QED BY <1>1, <1>5, <2>2, <2>3, <2>4, <2>5 DEF Kind, IsEntry
<1> QED BY <1>2, <1>3, <1>4, <1>5

LEMMA BodyStands ==
  ASSUME NEW b \in Seq(Line)
  PROVE  Stands(b, Len(b), AfterLine(b)[Len(b)])
<1> DEFINE N == Len(b)
           S == {n \in 0..N : Stands(b, n, AfterLine(b)[n])}
<1>1. N \in Nat /\ Reads(b, AfterLine(b), N)
  BY LenProperties, LinesAreRead
<1>2. /\ AfterLine(b)[0] = Top
      /\ \A n \in 1..N : AfterLine(b)[n] = NextLine(AfterLine(b)[n - 1], b[n], n)
  BY <1>1 DEF Reads
<1>3. 0 \in S
  <2>1. ~ Odd(b, 0)
    <3>1. Count(b, 1, 0) = 0
      BY CountNone
    <3> QED BY <3>1 DEF Odd
  <2>2. Top = Reading(<<>>, <<>>, FALSE, FALSE)
    BY DEF Top, Reading
  <2>3. Free(b, 0, Top)
    BY <2>2, UnderNothing DEF Free
  <2> QED BY <1>1, <1>2, <2>1, <2>3 DEF Stands, Text
<1>4. \A n \in 1..N : n - 1 \in S => n \in S
  BY <1>1, <1>2, LineStands
<1>5. N \in S
  <2> HIDE DEF S, N
  <2>1. \A n \in 0..N : n \in S
    BY <1>1, <1>3, <1>4, HandedOn
  <2>2. N \in 0..N
    BY <1>1
  <2> QED BY <2>1, <2>2
<1> QED BY <1>5

\* The end of the file closes what is open.
LEMMA PageIsUnder ==
  ASSUME NEW b \in Seq(Line)
  PROVE  Under(b, Len(b), mdToHTML(b), <<>>)
<1> DEFINE s == AfterLine(b)[Len(b)]
<1>1. Stands(b, Len(b), s) /\ Len(b) \in Nat
  BY BodyStands, LenProperties
<1>2. ASSUME NEW t, Free(b, Len(b), t), AtTheEnd(s) = t
      PROVE  Under(b, Len(b), mdToHTML(b), <<>>)
  <2>1. PICK o : Under(b, Len(b), o, <<>>) /\ t = Reading(o, <<>>, FALSE, FALSE)
    BY <1>2 DEF Free
  <2>2. t.out = o
    BY <2>1 DEF Reading
  <2> QED BY <1>2, <2>1, <2>2 DEF mdToHTML
<1>3. CASE Odd(b, Len(b))
  <2>1. PICK o : Under(b, Len(b), o, <<"pre">>) /\ s = Reading(o, <<>>, FALSE, TRUE)
    BY <1>1, <1>3 DEF Stands, Coding
  <2>2. o \in Seq(Token) /\ o \o <<Closes("pre")>> = Append(o, Closes("pre"))
    BY <2>1, TagsClosed, OneMore DEF Under
  <2>3. Under(b, Len(b), o \o <<Closes("pre")>>, <<>>)
    BY <1>1, <2>1, <2>2, TagsClosed, UnderTag
  <2>4. s.inCode
    BY <2>1 DEF Reading
  <2>5. Put(s, <<Closes("pre")>>) = Reading(o \o <<Closes("pre")>>, <<>>, FALSE, TRUE)
    BY <2>1, PutIs
  <2>6. AtTheEnd(s) = closeList(flushPara(Put(s, <<Closes("pre")>>)))
    BY <2>4 DEF AtTheEnd
  <2>7. AtTheEnd(s) = Reading(o \o <<Closes("pre")>>, <<>>, FALSE, TRUE)
    <3> DEFINE page == o \o <<Closes("pre")>>
    <3>1. flushPara(Reading(page, <<>>, FALSE, TRUE)) = Reading(page, <<>>, FALSE, TRUE)
      BY FlushIs
    <3>2. closeList(Reading(page, <<>>, FALSE, TRUE)) = Reading(page, <<>>, FALSE, TRUE)
      BY CloseIs
    <3> QED BY <2>5, <2>6, <3>1, <3>2, Zenon
  <2>8. mdToHTML(b) = o \o <<Closes("pre")>>
    BY <2>7 DEF mdToHTML, Reading
  <2> QED BY <2>3, <2>8
<1>4. CASE ~ Odd(b, Len(b))
  <2>1. Text(b, Len(b), s)
    BY <1>1, <1>4 DEF Stands
  <2>2. ~ s.inCode
    <3> HIDE DEF s
    <3> QED BY <2>1 DEF Text, Free, Listing, Writing, Reading
  <2>3. AtTheEnd(s) = closeList(flushPara(s))
    BY <2>2 DEF AtTheEnd
  <2>4. Free(b, Len(b), closeList(flushPara(s)))
    BY <1>1, <2>1, FreeAgain
  <2> QED BY <1>2, <2>3, <2>4
<1> QED BY <1>3, <1>4

\* Every line of a body that holds something is on its page once, in the file's order,
\* where the verbs see it, and the page closes its tags: mdToHTML reads the fences and
\* the entries as task.go does, for every body of every length.
THEOREM PagesShow ==
  ASSUME NEW b \in Seq(Line)
  PROVE  ShowsTheBody(b)
<1> DEFINE page == mdToHTML(b)
           open == Nesting(page)
           shown == {n \in DOMAIN page : page[n].is = "line"}
           holds == {i \in DOMAIN b : b[i].is # "fence" /\ (b[i].is # "blank" \/ InCode(b, i))}
<1>1. PICK f : /\ page \in Seq(Token) /\ Nests(page, f, Len(page)) /\ f[Len(page)] = <<>>
               /\ ShowsLines(b, Len(b), page, f)
  BY PageIsUnder DEF Under
<1>2. open = f
  <2>1. Len(page) \in Nat
    BY <1>1, LenProperties
  <2>2. Nests(page, open, Len(page))
    BY <2>1, TagsAreNested
  <2> QED BY <1>1, <2>1, <2>2, NestsOnce
<1>3. shown = Shown(page) /\ holds = Holding(b, Len(b))
  <2>1. DOMAIN page = 1..Len(page) /\ DOMAIN b = 1..Len(b)
    BY <1>1, LenProperties
  <2> QED BY <2>1 DEF Shown, Holding
<1> HIDE DEF page, open, shown, holds
<1>4. /\ \A n \in shown : page[n].line \in holds /\ open[n] = Place(b, page[n].line)
      /\ \A i \in holds : \E n \in shown : page[n].line = i
      /\ \A n, m \in shown : n < m => page[n].line < page[m].line
  BY <1>1, <1>2, <1>3 DEF ShowsLines
<1>5. {page[n].line : n \in shown} = holds
  BY <1>4
<1>6. Cardinality(shown) = Cardinality(holds)
  <2>1. IsFiniteSet(shown) /\ shown \subseteq Nat /\ holds \subseteq Nat
    <3>1. Len(page) \in Nat /\ Len(b) \in Nat
      BY <1>1, LenProperties
    <3>2. IsFiniteSet(1..Len(page))
      BY <3>1, FS_Interval
    <3>3. shown \subseteq 1..Len(page) /\ holds \subseteq 1..Len(b)
      BY <1>3 DEF Shown, Holding
    <3>4. IsFiniteSet(shown)
      BY <3>2, <3>3, FS_Subset
    <3> QED BY <3>1, <3>3, <3>4
  <2>2. ASSUME NEW n \in shown, NEW m \in shown, page[n].line = page[m].line
        PROVE  n = m
    <3>1. n \in Nat /\ m \in Nat /\ page[n].line \in Nat /\ page[m].line \in Nat
      BY <1>4, <2>1
    <3>2. ~ (n < m) /\ ~ (m < n)
      BY <1>4, <2>2, <3>1
    <3> QED BY <3>1, <3>2
  <2> DEFINE to == [n \in shown |-> page[n].line]
  <2>3. to \in Bijection(shown, holds)
    BY <1>4, <2>2 DEF Bijection, Injection, Surjection, IsInjective
  <2>4. ExistsBijection(shown, holds)
    BY <2>3 DEF ExistsBijection
  <2> QED BY <2>1, <2>4, FS_Bijection
<1>7. /\ open[Len(page)] = <<>>
      /\ {page[n].line : n \in shown} = holds
      /\ Cardinality(shown) = Cardinality(holds)
      /\ \A n \in shown : open[n] = Place(b, page[n].line)
      /\ \A n, m \in shown : n < m => page[n].line < page[m].line
  BY <1>1, <1>2, <1>4, <1>5, <1>6
<1> QED BY <1>7 DEF ShowsTheBody, page, open, shown, holds
=============================================================================
