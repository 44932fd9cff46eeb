--------------------------- MODULE AgentConfigProofs ---------------------------
(***************************************************************************)
(* Theorems about AgentConfig, for every set of files: no line of a file   *)
(* that loads is passed over, what is loaded is what is written, only what *)
(* is sound loads, and what is refused is not sound.                       *)
(*                                                                         *)
(* First the two pure parts, the strings of a line and the paths; then     *)
(* where the reader stands (Inv) and what it has read (Values); then what  *)
(* is so at the end of the file, and the bounds.                           *)
(***************************************************************************)
EXTENDS AgentConfig, SequenceTheorems, FiniteSetTheorems, WellFoundedInduction, TLAPS

-----------------------------------------------------------------------------
(* Counting up                                                                *)

LEMMA LeastExists ==
  ASSUME NEW S \in SUBSET Nat, S # {}
  PROVE  \E i \in S : \A j \in S : i <= j
<1>1. \E R : IsWellFoundedOn(R, Nat) /\ \A m, n \in Nat : m < n => <<m, n>> \in R
  <2> DEFINE R == OpToRel(<, Nat)
  <2>1. IsWellFoundedOn(R, Nat)
    BY NatLessThanWellFounded
  <2>2. \A m, n \in Nat : m < n => <<m, n>> \in R
    BY DEF OpToRel
  <2> HIDE DEF R
  <2> QED BY <2>1, <2>2
<1>2. PICK R : IsWellFoundedOn(R, Nat) /\ \A m, n \in Nat : m < n => <<m, n>> \in R
  BY <1>1
<1>3. \E i \in S : \A j \in S : ~ (<<j, i>> \in R)
  <2> DEFINE N == Nat
  <2>1. IsWellFoundedOn(R, N) /\ S \subseteq N
    BY <1>2
  <2> HIDE DEF N
  <2> QED BY <2>1, WFMin
<1>4. PICK i \in S : \A j \in S : ~ (<<j, i>> \in R)
  BY <1>3
<1>5. S \subseteq Nat /\ \A j \in S : ~ (j < i)
  BY <1>2, <1>4
<1>6. \A j \in S : i <= j
  BY <1>5
<1> QED BY <1>6

\* What holds at 0 and is handed on holds up to N.
LEMMA CountingUp ==
  ASSUME NEW N \in Nat, NEW S, 0 \in S, \A n \in 1..N : n - 1 \in S => n \in S
  PROVE  0..N \subseteq S
<1> DEFINE T == {n \in 0..N : n \notin S}
<1> SUFFICES ASSUME T # {} PROVE FALSE
  OBVIOUS
<1>1. T \in SUBSET Nat
  OBVIOUS
<1> HIDE DEF T
<1>2. PICK i \in T : \A j \in T : i <= j
  BY <1>1, LeastExists
<1> USE DEF T
<1>3. i \in 1..N /\ i - 1 \in 0..N /\ i - 1 < i
  BY <1>2
<1>4. i - 1 \in S
  BY <1>2, <1>3
<1> QED BY <1>2, <1>3, <1>4

\* A function that takes its steps from a to N.
Steps(f, A, a, g, N) ==
  f \in [0..N -> A] /\ f[0] = a /\ \A n \in 1..N : f[n] = g[n][f[n - 1]]

LEMMA StepsExist ==
  ASSUME NEW N \in Nat, NEW A, NEW a \in A, NEW g, \A n \in 1..N : g[n] \in [A -> A]
  PROVE  \E f : Steps(f, A, a, g, N)
<1> DEFINE S == {n \in 0..N : \E f : Steps(f, A, a, g, n)}
<1>1. 0 \in S
  <2>1. Steps([n \in 0..0 |-> a], A, a, g, 0)
    BY DEF Steps
  <2> QED BY <2>1
<1>2. ASSUME NEW n \in 1..N, n - 1 \in S PROVE n \in S
  <2>1. PICK f : Steps(f, A, a, g, n - 1)
    BY <1>2
  <2> DEFINE h == [m \in 0..n |-> IF m = n THEN g[n][f[n - 1]] ELSE f[m]]
  <2>2. f \in [0..n - 1 -> A] /\ n - 1 \in 0..n - 1
    BY <2>1 DEF Steps
  <2>3. g[n][f[n - 1]] \in A
    BY <2>2
  <2>4. \A m \in 0..n - 1 : h[m] = f[m] /\ f[m] \in A
    BY <2>2
  <2>5. h \in [0..n -> A] /\ h[0] = a
    BY <2>1, <2>3, <2>4 DEF Steps
  <2>6. \A m \in 1..n : h[m] = g[m][h[m - 1]]
    BY <2>1, <2>4 DEF Steps
  <2>7. Steps(h, A, a, g, n)
    BY <2>5, <2>6 DEF Steps
  <2> QED BY <2>7
<1> HIDE DEF S
<1>3. 0..N \subseteq S
  BY <1>1, <1>2, CountingUp
<1> QED BY <1>3 DEF S

-----------------------------------------------------------------------------
(* Reading a text from left to right                                          *)

Start == [quote |-> "", escaped |-> FALSE]
Position == [quote : Quote \cup {""}, escaped : BOOLEAN]

LEMMA MarksDiffer ==
  /\ Basic # Literal /\ Basic # Escape /\ Basic # Hash /\ Literal # Escape
  /\ Literal # Hash /\ Escape # Hash /\ "" \notin Quote
BY DEF Basic, Literal, Escape, Hash, Quote

LEMMA InsideSteps ==
  ASSUME NEW text \in Seq(STRING)
  PROVE  /\ Inside(text)[0] = Start
         /\ \A n \in 0..Len(text) : Inside(text)[n] \in Position
         /\ \A n \in 1..Len(text) : Inside(text)[n] = Scan(Inside(text)[n - 1], text[n])
<1> DEFINE N == Len(text)
           g == [n \in 1..N |-> [was \in Position |-> Scan(was, text[n])]]
           All(f) == [n \in 0..N |-> IF n = 0 THEN Start ELSE Scan(f[n - 1], text[n])]
<1>1. N \in Nat /\ Start \in Position
  BY DEF Start, Position
<1>2. \A n \in 1..N : g[n] \in [Position -> Position]
  <2>1. \A was \in Position : \A c : Scan(was, c) \in Position
    BY DEF Position, Scan, Quote
  <2> QED BY <2>1
<1>3. PICK f : Steps(f, Position, Start, g, N)
  <2> HIDE DEF g, N
  <2> QED BY <1>1, <1>2, StepsExist
<1>4. /\ f \in [0..N -> Position] /\ f[0] = Start
      /\ \A n \in 1..N : f[n] = Scan(f[n - 1], text[n])
  <2>1. f \in [0..N -> Position] /\ f[0] = Start /\ \A n \in 1..N : f[n] = g[n][f[n - 1]]
    BY <1>3 DEF Steps
  <2>2. \A n \in 1..N : f[n - 1] \in Position
    BY <1>1, <2>1
  <2> QED BY <2>1, <2>2
<1>5. f = All(f)
  BY <1>4
<1>6. Inside(text) = CHOOSE h : h = All(h)
  BY DEF Inside, Start
<1> DEFINE i == Inside(text)
<1>7. i = All(i)
  <2> HIDE DEF All
  <2> QED BY <1>5, <1>6
<1>8. i[0] = Start /\ \A n \in 1..N : i[n] = Scan(i[n - 1], text[n])
  <2> HIDE DEF i
  <2>1. \A n \in 0..N : i[n] = IF n = 0 THEN Start ELSE Scan(i[n - 1], text[n])
    BY <1>7
  <2> QED BY <1>1, <2>1
<1>9. \A n \in 0..N : i[n] \in Position
  <2> DEFINE S == {n \in 0..N : i[n] \in Position}
  <2>1. 0 \in S
    BY <1>1, <1>8
  <2>2. ASSUME NEW n \in 1..N, n - 1 \in S PROVE n \in S
    <3>1. i[n - 1] \in Position /\ i[n] = Scan(i[n - 1], text[n])
      BY <1>8, <2>2
    <3> HIDE DEF i
    <3>2. i[n] \in Position
      BY <3>1 DEF Position, Scan, Quote
    <3> QED BY <3>2
  <2> HIDE DEF S
  <2>3. 0..N \subseteq S
    BY <1>1, <2>1, <2>2, CountingUp
  <2> QED BY <2>3 DEF S
<1> QED BY <1>8, <1>9

\* What one more mark does inside a basic string, inside a literal one and outside.
LEMMA ScanStep ==
  ASSUME NEW text \in Seq(STRING), NEW n \in 1..Len(text)
  PROVE  LET was == Inside(text)[n - 1]
             is == Inside(text)[n]
             c == text[n]
         IN /\ was \in Position /\ is \in Position
            /\ was.escaped => is.quote = was.quote /\ ~ is.escaped
            /\ ~ was.escaped /\ was.quote = Basic =>
                 /\ c = Escape => is.quote = Basic /\ is.escaped
                 /\ c = Basic => is.quote = "" /\ ~ is.escaped
                 /\ c \notin {Basic, Escape} => is.quote = Basic /\ ~ is.escaped
            /\ ~ was.escaped /\ was.quote = Literal =>
                 /\ c = Literal => is.quote = "" /\ ~ is.escaped
                 /\ c # Literal => is.quote = Literal /\ ~ is.escaped
            /\ ~ was.escaped /\ was.quote = "" =>
                 /\ c \in Quote => is.quote = c /\ ~ is.escaped
                 /\ c \notin Quote => is.quote = "" /\ ~ is.escaped
<1> DEFINE was == Inside(text)[n - 1]
           is == Inside(text)[n]
           c == text[n]
<1>1. was \in Position /\ is \in Position /\ is = Scan(was, c)
  BY InsideSteps
<1> HIDE DEF was, is, c
<1>2. /\ was.quote \in {Basic, Literal, ""} /\ was.escaped \in BOOLEAN
      /\ was = [quote |-> was.quote, escaped |-> was.escaped]
  BY <1>1 DEF Position, Quote
<1>3. was.escaped => is.quote = was.quote /\ ~ is.escaped
  BY <1>1, <1>2 DEF Scan
<1>4. ASSUME ~ was.escaped, was.quote = Basic
      PROVE  /\ c = Escape => is.quote = Basic /\ is.escaped
             /\ c = Basic => is.quote = "" /\ ~ is.escaped
             /\ c \notin {Basic, Escape} => is.quote = Basic /\ ~ is.escaped
  BY <1>1, <1>2, <1>4, MarksDiffer DEF Scan, Quote
<1>5. ASSUME ~ was.escaped, was.quote = Literal
      PROVE  /\ c = Literal => is.quote = "" /\ ~ is.escaped
             /\ c # Literal => is.quote = Literal /\ ~ is.escaped
  BY <1>1, <1>2, <1>5, MarksDiffer DEF Scan, Quote
<1>6. ASSUME ~ was.escaped, was.quote = ""
      PROVE  /\ c \in Quote => is.quote = c /\ ~ is.escaped
             /\ c \notin Quote => is.quote = "" /\ ~ is.escaped
  BY <1>1, <1>2, <1>6, MarksDiffer DEF Scan, Quote
<1> QED BY <1>1, <1>3, <1>4, <1>5, <1>6 DEF was, is, c

\* A quote that comes first opens a string.
LEMMA FirstMark ==
  ASSUME NEW text \in Seq(STRING), 1 \in 1..Len(text), text[1] \in Quote
  PROVE  Inside(text)[1].quote = text[1] /\ ~ Inside(text)[1].escaped
<1> DEFINE was == Inside(text)[1 - 1]
           is == Inside(text)[1]
<1>1. was = Start
  BY InsideSteps
<1> HIDE DEF was, is
<1>2. ~ was.escaped /\ was.quote = "" => is.quote = text[1] /\ ~ is.escaped
  BY ScanStep DEF was, is
<1> QED BY <1>1, <1>2 DEF Start, is

\* An escape begins at each backslash that is not itself escaped.
LEMMA EscapesStep ==
  ASSUME NEW body \in Seq(STRING)
  PROVE  /\ Escapes(body) \subseteq 1..Len(body)
         /\ \A n \in 1..Len(body) :
              n \in Escapes(body) <=> body[n] = Escape /\ n - 1 \notin Escapes(body)
<1> DEFINE N == Len(body)
           g == [n \in 1..N |-> [b \in BOOLEAN |-> body[n] = Escape /\ ~ b]]
           All(f) == [n \in 0..N |-> IF n = 0 THEN FALSE ELSE body[n] = Escape /\ ~ f[n - 1]]
           begins == CHOOSE f : f = All(f)
<1>1. N \in Nat
  OBVIOUS
<1>2. PICK f : Steps(f, BOOLEAN, FALSE, g, N)
  <2>1. \A n \in 1..N : g[n] \in [BOOLEAN -> BOOLEAN]
    OBVIOUS
  <2> HIDE DEF g, N
  <2> QED BY <1>1, <2>1, StepsExist
<1>3. f \in [0..N -> BOOLEAN] /\ f[0] = FALSE /\ \A n \in 1..N : f[n] = g[n][f[n - 1]]
  BY <1>2 DEF Steps
<1>4. \A n \in 1..N : f[n - 1] \in BOOLEAN /\ f[n] = (body[n] = Escape /\ ~ f[n - 1])
  BY <1>1, <1>3
<1>5. f = All(f)
  <2>1. \A n \in 0..N : f[n] = IF n = 0 THEN FALSE ELSE body[n] = Escape /\ ~ f[n - 1]
    <3> SUFFICES ASSUME NEW n \in 0..N
                 PROVE  f[n] = IF n = 0 THEN FALSE ELSE body[n] = Escape /\ ~ f[n - 1]
      OBVIOUS
    <3>1. CASE n = 0
      BY <1>3, <3>1
    <3>2. CASE n # 0
      <4>1. n \in 1..N
        BY <1>1, <3>2
      <4> QED BY <1>4, <3>2, <4>1, Zenon
    <3> QED BY <3>1, <3>2
  <2>2. f = [n \in 0..N |-> f[n]]
    BY <1>3
  <2>3. [n \in 0..N |-> f[n]] = All(f)
    BY <2>1, Zenon
  <2> QED BY <2>2, <2>3
<1>6. begins = All(begins)
  <2> HIDE DEF All
  <2> QED BY <1>5
<1>7. Escapes(body) = {n \in 1..N : begins[n]}
  BY DEF Escapes
<1> HIDE DEF begins
<1>8. ~ begins[0] /\ \A n \in 1..N : begins[n] <=> body[n] = Escape /\ ~ begins[n - 1]
  <2>1. \A n \in 0..N : begins[n] = IF n = 0 THEN FALSE ELSE body[n] = Escape /\ ~ begins[n - 1]
    BY <1>6, Zenon
  <2>2. 0 \in 0..N /\ \A n \in 1..N : n \in 0..N /\ n # 0
    BY <1>1
  <2> QED BY <2>1, <2>2, Zenon
<1> QED BY <1>1, <1>7, <1>8

\* The marks between the first and the n-th.
Between(text, n) == SubSeq(text, 2, n - 1)

LEMMA BetweenIs ==
  ASSUME NEW text \in Seq(STRING), NEW n \in 2..Len(text)
  PROVE  /\ Between(text, n) \in Seq(STRING) /\ Len(Between(text, n)) = n - 2
         /\ \A k \in 1..n - 2 : Between(text, n)[k] = text[k + 1]
BY SubSeqProperties DEF Between

\* Up to its n-th mark a basic string holds no bare quote.
Unbroken(text, m, n) ==
  /\ text[1] = Basic
  /\ \A k \in 2..n : text[k] = Basic => k - 2 \in Escapes(Between(text, m))

\* So far it is open, and the scan has escaped what its escapes escape.
LEMMA InBasic ==
  ASSUME NEW text \in Seq(STRING), NEW m \in 2..Len(text), NEW n \in 1..m - 1,
         Unbroken(text, m, n)
  PROVE  \A k \in 1..n :
           /\ Inside(text)[k].quote = Basic
           /\ Inside(text)[k].escaped <=> k - 1 \in Escapes(Between(text, m))
<1> DEFINE E == Escapes(Between(text, m))
           P(k) == /\ Inside(text)[k].quote = Basic
                   /\ Inside(text)[k].escaped <=> k - 1 \in E
           S == {k \in 0..n : k # 0 => P(k)}
<1>1. 0 \in S /\ n \in Nat
  OBVIOUS
<1>2. E \subseteq 1..m - 2 /\ \A k \in 1..m - 2 : k \in E <=> text[k + 1] = Escape /\ k - 1 \notin E
  <2>1. PICK b \in Seq(STRING) : b = Between(text, m)
    BY BetweenIs
  <2>2. Len(b) = m - 2 /\ \A k \in 1..m - 2 : b[k] = text[k + 1]
    BY <2>1, BetweenIs
  <2>3. /\ Escapes(b) \subseteq 1..Len(b)
        /\ \A k \in 1..Len(b) : k \in Escapes(b) <=> b[k] = Escape /\ k - 1 \notin Escapes(b)
    BY EscapesStep
  <2> QED BY <2>1, <2>2, <2>3
<1>3. ASSUME NEW k \in 1..n, k - 1 \in S PROVE k \in S
  <2> DEFINE was == Inside(text)[k - 1]
             is == Inside(text)[k]
  <2>1. CASE k = 1
    <3>2. is.quote = Basic /\ ~ is.escaped
      BY <2>1, FirstMark DEF Unbroken, Quote
    <3>3. 0 \notin E
      BY <1>2
    <3> QED BY <2>1, <3>2, <3>3
  <2>2. CASE k # 1
    <3>1. k - 1 \in 1..m - 2 /\ k \in 2..n /\ k \in 1..Len(text) /\ k - 2 = (k - 1) - 1
      BY <2>2
    <3>2. was.quote = Basic /\ (was.escaped <=> k - 2 \in E)
      BY <1>3, <2>2, <3>1
    <3>3. k - 1 \in E <=> text[k] = Escape /\ k - 2 \notin E
      BY <1>2, <3>1
    <3>4. text[k] = Basic => k - 2 \in E
      BY <3>1 DEF Unbroken
    <3> HIDE DEF was, is, E
    <3>5. /\ was.escaped => is.quote = was.quote /\ ~ is.escaped
          /\ ~ was.escaped /\ was.quote = Basic =>
                 /\ text[k] = Escape => is.quote = Basic /\ is.escaped
                 /\ text[k] \notin {Basic, Escape} => is.quote = Basic /\ ~ is.escaped
          /\ is \in Position
      BY <3>1, ScanStep DEF was, is
    <3>6. is.quote = Basic /\ (is.escaped <=> k - 1 \in E)
      BY <3>2, <3>3, <3>4, <3>5 DEF Position
    <3>7. P(k)
      BY <3>6 DEF is
    <3> QED BY <3>7
  <2> QED BY <2>1, <2>2
<1> HIDE DEF S
<1>4. 0..n \subseteq S
  BY <1>1, <1>3, CountingUp
<1>5. \A k \in 1..n : k \in S /\ k # 0
  BY <1>4
<1> QED BY <1>5 DEF S

\* A quote that is not escaped closes it.
LEMMA ClosesBasic ==
  ASSUME NEW text \in Seq(STRING), NEW m \in 2..Len(text), NEW n \in 2..m,
         Unbroken(text, m, n - 1), text[n] = Basic, n - 2 \notin Escapes(Between(text, m))
  PROVE  /\ Inside(text)[n].quote = ""
         /\ \A k \in 1..n - 1 : Inside(text)[k].quote = Basic
<1>1. n - 1 \in 1..m - 1 /\ n - 1 \in 1..n - 1 /\ n \in 1..Len(text) /\ (n - 1) - 1 = n - 2
  OBVIOUS
<1>2. /\ \A k \in 1..n - 1 : Inside(text)[k].quote = Basic
      /\ Inside(text)[n - 1].escaped <=> n - 2 \in Escapes(Between(text, m))
  BY <1>1, InBasic
<1> QED BY <1>1, <1>2, ScanStep

LEMMA ClosesLiteral ==
  ASSUME NEW text \in Seq(STRING), NEW n \in 2..Len(text), text[1] = Literal,
         \A k \in 2..n - 1 : text[k] # Literal, text[n] = Literal
  PROVE  /\ Inside(text)[n].quote = ""
         /\ \A k \in 1..n - 1 : Inside(text)[k].quote = Literal
<1> DEFINE P(k) == Inside(text)[k].quote = Literal /\ ~ Inside(text)[k].escaped
           S == {k \in 0..n - 1 : k # 0 => P(k)}
<1>1. 0 \in S /\ n - 1 \in Nat
  OBVIOUS
<1>2. ASSUME NEW k \in 1..n - 1, k - 1 \in S PROVE k \in S
  <2>1. CASE k = 1
    <3>1. 1 \in 1..Len(text) /\ text[1] \in Quote
      BY DEF Quote
    <3>2. P(1)
      BY <3>1, FirstMark
    <3> QED BY <2>1, <3>2
  <2>2. CASE k # 1
    <3>1. P(k - 1) /\ k \in 1..Len(text) /\ text[k] # Literal
      BY <1>2, <2>2
    <3>2. P(k)
      BY <3>1, ScanStep
    <3> QED BY <3>2
  <2> QED BY <2>1, <2>2
<1> HIDE DEF S
<1>3. 0..n - 1 \subseteq S
  BY <1>1, <1>2, CountingUp
<1>4. \A k \in 1..n - 1 : P(k)
  <2>1. \A k \in 1..n - 1 : k \in S /\ k # 0
    BY <1>3
  <2> QED BY <2>1 DEF S
<1>5. n \in 1..Len(text) /\ n - 1 \in 1..n - 1
  OBVIOUS
<1> QED BY <1>4, <1>5, ScanStep

-----------------------------------------------------------------------------
(* The readers and the grammar                                                *)

LEMMA CommentsAre ==
  ASSUME NEW text \in Seq(STRING)
  PROVE  /\ Comments(text) \in SUBSET (1..Len(text))
         /\ Comments(text) \in SUBSET Nat
         /\ \A c \in 1..Len(text) :
              c \in Comments(text) <=> text[c] = Hash /\ Inside(text)[c - 1].quote = ""
<1>1. Comments(text) \in SUBSET (1..Len(text))
  BY Zenon DEF Comments
<1>2. \A n \in 1..Len(text) : n \in Nat
  OBVIOUS
<1>3. \A c \in 1..Len(text) :
         c \in Comments(text) <=> text[c] = Hash /\ Inside(text)[c - 1].quote = ""
  BY Zenon DEF Comments
<1> QED BY <1>1, <1>2, <1>3

\* What a text is cut down to, and what of it is between its quotes.
LEMMA CutIs ==
  ASSUME NEW text \in Seq(STRING), NEW m \in 2..Len(text)
  PROVE  LET u == SubSeq(text, 1, m)
         IN /\ Len(u) = m /\ u[1] = text[1] /\ u[m] = text[m]
            /\ Body(u) = Between(text, m)
<1> DEFINE u == SubSeq(text, 1, m)
<1>1. u \in Seq(STRING) /\ Len(u) = m /\ \A k \in 1..m : u[k] = text[k]
  BY SubSeqProperties
<1> HIDE DEF u
<1>2. PICK b \in Seq(STRING) : b = Body(u) /\ Len(b) = m - 2 /\ \A k \in 1..m - 2 : b[k] = u[k + 1]
  <2>1. m \in 2..Len(u) /\ Body(u) = Between(u, m)
    BY <1>1 DEF Body, Between
  <2> QED BY <1>1, <2>1, BetweenIs
<1>3. PICK c \in Seq(STRING) : c = Between(text, m) /\ Len(c) = m - 2
                               /\ \A k \in 1..m - 2 : c[k] = text[k + 1]
  BY BetweenIs
<1>4. \A k \in 1..m - 2 : u[k + 1] = text[k + 1]
  BY <1>1
<1>5. b = c
  BY <1>2, <1>3, <1>4, SeqEqual
<1> QED BY <1>1, <1>2, <1>3, <1>5 DEF u

\* A comment is cut off at its first mark, and nothing else is.
LEMMA StripIs ==
  ASSUME NEW text \in Seq(STRING)
  PROVE  \/ Comments(text) = {} /\ strip(text) = text /\ text = SubSeq(text, 1, Len(text))
         \/ \E c \in Comments(text) : /\ \A k \in Comments(text) : c <= k
                                      /\ strip(text) = SubSeq(text, 1, c - 1)
<1> DEFINE C == Comments(text)
<1>1. C \in SUBSET Nat
  BY CommentsAre
<1> HIDE DEF C
<1>2. CASE C # {}
  <2>1. PICK i \in C : \A j \in C : i <= j
    BY <1>1, <1>2, LeastExists
  <2> DEFINE c == CHOOSE n \in C : \A k \in C : n <= k
  <2>2. c \in C /\ \A k \in C : c <= k
    BY <2>1
  <2>3. strip(text) = SubSeq(text, 1, c - 1)
    BY <1>2 DEF strip, C
  <2> HIDE DEF c
  <2> QED BY <2>2, <2>3 DEF C
<1>3. CASE C = {}
  <2>1. strip(text) = text
    BY <1>3 DEF strip, C
  <2>2. PICK u \in Seq(STRING) : u = SubSeq(text, 1, Len(text)) /\ Len(u) = Len(text)
                                 /\ \A k \in 1..Len(text) : u[k] = text[k]
    BY SubSeqProperties
  <2>3. u = text
    BY <2>2, SeqEqual
  <2> QED BY <1>3, <2>1, <2>2, <2>3 DEF C
<1> QED BY <1>2, <1>3

\* A string that closes at m, where the text ends or a comment begins, is read to m.
ClosedAt(text, m) ==
  /\ text[1] \in Quote
  /\ Inside(text)[m].quote = "" /\ \A k \in 1..m - 1 : Inside(text)[k].quote # ""
  /\ m = Len(text) \/ text[m + 1] = Hash

LEMMA ReadTo ==
  ASSUME NEW text \in Seq(STRING), NEW m \in 2..Len(text), ClosedAt(text, m)
  PROVE  strip(text) = SubSeq(text, 1, m) /\ ~ NeverClosed(text)
<1> DEFINE C == Comments(text)
<1> HIDE DEF C
<1>1. PICK N \in Nat : N = Len(text) /\ m \in Nat /\ 2 <= m /\ m <= N
  OBVIOUS
<1>2. \A c \in C : c \in Nat /\ 1 <= c /\ c <= N
  <2>1. C \in SUBSET (1..N)
    BY <1>1, CommentsAre DEF C
  <2>2. \A c \in 1..N : c \in Nat /\ 1 <= c /\ c <= N
    OBVIOUS
  <2> QED BY <2>1, <2>2
<1>3. \A c \in 1..N : c \in C <=> text[c] = Hash /\ Inside(text)[c - 1].quote = ""
  BY <1>1, CommentsAre DEF C
<1>4. ASSUME NEW c \in C, ~ (c > m) PROVE FALSE
  <2>1. c \in Nat /\ 1 <= c /\ c <= m /\ c \in 1..N
    <3>1. c \in Nat /\ 1 <= c /\ c <= N
      BY <1>2
    <3> QED BY <1>1, <1>4, <3>1
  <2>2. text[c] = Hash /\ Inside(text)[c - 1].quote = ""
    BY <1>3, <2>1
  <2>3. c # 1
    BY <2>2, MarksDiffer DEF Quote, ClosedAt
  <2>4. c - 1 \in 1..m - 1
    BY <1>1, <2>1, <2>3
  <2>5. Inside(text)[c - 1].quote # ""
    BY <2>4 DEF ClosedAt
  <2> QED BY <2>2, <2>5
<1>5. CASE m = Len(text)
  <2>1. C = {}
    <3> SUFFICES ASSUME NEW c \in C PROVE FALSE
      OBVIOUS
    <3>1. c \in Nat /\ c <= N
      BY <1>2
    <3>2. ~ (c > m)
      BY <1>1, <1>5, <3>1
    <3> QED BY <1>4, <3>2
  <2> QED BY <1>5, <2>1, StripIs DEF NeverClosed, ClosedAt, C
<1>6. CASE m # Len(text)
  <2>1. m + 1 \in C
    <3>1. m + 1 \in 1..N /\ (m + 1) - 1 = m
      BY <1>1, <1>6
    <3>2. text[m + 1] = Hash /\ Inside(text)[(m + 1) - 1].quote = ""
      BY <1>6, <3>1 DEF ClosedAt
    <3> QED BY <1>3, <3>1, <3>2
  <2>2. PICK c \in C : (\A k \in C : c <= k) /\ strip(text) = SubSeq(text, 1, c - 1)
    BY <2>1, StripIs DEF C
  <2>3. c <= m + 1 /\ c \in Nat /\ c > m
    BY <1>2, <1>4, <2>1, <2>2
  <2>4. c - 1 = m
    BY <1>1, <2>3
  <2> QED BY <2>1, <2>2, <2>4 DEF NeverClosed, C
<1> QED BY <1>5, <1>6

\* There is one way to cut a body: at its escapes.
LEMMA CutOnce ==
  ASSUME NEW body \in Seq(STRING), NEW E \in SUBSET (DOMAIN body), CutAt(body, E)
  PROVE  E = Escapes(body)
<1> DEFINE S == {n \in 0..Len(body) : n \in E <=> n \in Escapes(body)}
<1>1. /\ Escapes(body) \subseteq 1..Len(body) /\ E \subseteq 1..Len(body) /\ Len(body) \in Nat
      /\ \A n \in 1..Len(body) :
           n \in Escapes(body) <=> body[n] = Escape /\ n - 1 \notin Escapes(body)
  BY EscapesStep
<1>2. \A n \in 1..Len(body) : n \in E <=> body[n] = Escape /\ n - 1 \notin E
  <2> SUFFICES ASSUME NEW n \in 1..Len(body) PROVE n \in E <=> body[n] = Escape /\ n - 1 \notin E
    OBVIOUS
  <2>1. \A k \in 1..Len(body) : k \in E => body[k] = Escape /\ k + 1 \notin E
    BY DEF CutAt
  <2>2. n \notin E => n - 1 \in E \/ body[n] # Escape
    BY DEF CutAt
  <2>3. n \in E => n - 1 \notin E
    <3> SUFFICES ASSUME n \in E, n - 1 \in E PROVE FALSE
      OBVIOUS
    <3>1. n - 1 \in 1..Len(body) /\ (n - 1) + 1 = n
      BY <1>1
    <3> QED BY <2>1, <3>1
  <2> QED BY <2>1, <2>2, <2>3
<1>3. 0 \in S
  BY <1>1
<1>4. ASSUME NEW n \in 1..Len(body), n - 1 \in S PROVE n \in S
  BY <1>1, <1>2, <1>4
<1> HIDE DEF S
<1>5. 0..Len(body) \subseteq S
  BY <1>1, <1>3, <1>4, CountingUp
<1>6. \A n \in 1..Len(body) : n \in E <=> n \in Escapes(body)
  <2>1. \A n \in 1..Len(body) : n \in S
    BY <1>1, <1>5
  <2> QED BY <2>1 DEF S
<1> QED BY <1>1, <1>6

\* The strings the grammar has: literal to the n-th mark, or basic with escapes at E.
IsLiteral(text, n) ==
  text[1] = Literal /\ text[n] = Literal /\ ~ Contains(Between(text, n), Literal)
IsBasic(text, n, E) == text[1] = Basic /\ text[n] = Basic /\ CutAt(Between(text, n), E)
EndsAt(text, n) == n \in 2..Len(text) /\ (n = Len(text) \/ text[n + 1] = Hash)

LEMMA MeaningsAre ==
  ASSUME NEW text \in Seq(STRING)
  PROVE  /\ \A t \in Meanings(text) : \E n : EndsAt(text, n) /\
              \/ IsLiteral(text, n) /\ t = Between(text, n)
              \/ \E E \in SUBSET DOMAIN Between(text, n) :
                   IsBasic(text, n, E) /\ t = Unescaped(Between(text, n), E)
         /\ \A n : EndsAt(text, n) /\ IsLiteral(text, n) => Between(text, n) \in Meanings(text)
         /\ \A n : \A E \in SUBSET DOMAIN Between(text, n) :
              EndsAt(text, n) /\ IsBasic(text, n, E) =>
                Unescaped(Between(text, n), E) \in Meanings(text)
<1> DEFINE ends(q) == {n \in 2..Len(text) : /\ text[1] = q /\ text[n] = q
                                            /\ n = Len(text) \/ text[n + 1] = Hash}
           lit == {Between(text, n) : n \in {n \in ends(Literal) :
                                              ~ Contains(Between(text, n), Literal)}}
           cuts(n) == {E \in SUBSET DOMAIN Between(text, n) : CutAt(Between(text, n), E)}
           bas == UNION {{Unescaped(Between(text, n), E) : E \in cuts(n)} : n \in ends(Basic)}
<1>1. Meanings(text) = lit \cup bas
  BY DEF Meanings, Between
<1>2. \A q, n : n \in ends(q) <=> EndsAt(text, n) /\ text[1] = q /\ text[n] = q
  BY DEF EndsAt
<1> HIDE DEF ends
<1>3. \A t : t \in lit <=> \E n : EndsAt(text, n) /\ IsLiteral(text, n) /\ t = Between(text, n)
  BY <1>2, Zenon DEF IsLiteral
<1>4. \A t : t \in bas <=> \E n : EndsAt(text, n) /\ \E E \in SUBSET DOMAIN Between(text, n) :
                                     IsBasic(text, n, E) /\ t = Unescaped(Between(text, n), E)
  <2>1. \A n : \A E : E \in cuts(n) <=> E \in SUBSET DOMAIN Between(text, n)
                                       /\ CutAt(Between(text, n), E)
    OBVIOUS
  <2> HIDE DEF cuts
  <2>2. \A t : t \in bas <=> \E n \in ends(Basic) : \E E \in cuts(n) :
                               t = Unescaped(Between(text, n), E)
    OBVIOUS
  <2> HIDE DEF bas
  <2>3. \A n, E : IsBasic(text, n, E) <=>
                    text[1] = Basic /\ text[n] = Basic /\ CutAt(Between(text, n), E)
    BY Zenon DEF IsBasic
  <2>4. \A n : n \in ends(Basic) <=> EndsAt(text, n) /\ text[1] = Basic /\ text[n] = Basic
    BY <1>2, Zenon
  <2>5. \A n, E : n \in ends(Basic) /\ E \in cuts(n) <=>
                    EndsAt(text, n) /\ E \in SUBSET DOMAIN Between(text, n) /\ IsBasic(text, n, E)
    BY <2>1, <2>3, <2>4, Zenon
  <2> QED BY <2>2, <2>5, Zenon
<1> HIDE DEF lit, bas
<1> QED BY <1>1, <1>3, <1>4, Zenon

\* A text of the grammar is never refused and is read as what it means: the scan for a
\* comment stops where the string ends, and the escapes are cut the one way there is
\* (agent/toml.go strip, str).
THEOREM MeaningIsRead ==
  ASSUME NEW text \in Seq(STRING), NEW t \in Meanings(text)
  PROVE  ~ Unreadable(text) /\ ReadString(text) = t
<1>1. PICK m : /\ EndsAt(text, m)
               /\ \/ IsLiteral(text, m) /\ t = Between(text, m)
                  \/ \E E \in SUBSET DOMAIN Between(text, m) :
                       IsBasic(text, m, E) /\ t = Unescaped(Between(text, m), E)
  BY MeaningsAre
<1>2. m \in 2..Len(text) /\ (m = Len(text) \/ text[m + 1] = Hash)
  BY <1>1 DEF EndsAt
<1>3. PICK b \in Seq(STRING) : /\ b = Between(text, m) /\ Len(b) = m - 2
                               /\ \A k \in 1..m - 2 : b[k] = text[k + 1]
  BY <1>2, BetweenIs
<1>4. PICK u : u = SubSeq(text, 1, m) /\ Len(u) = m /\ u[1] = text[1] /\ u[m] = text[m] /\ Body(u) = b
  BY <1>2, <1>3, CutIs
<1>5. CASE IsLiteral(text, m) /\ t = Between(text, m)
  <2>1. text[1] = Literal /\ text[m] = Literal /\ ~ Contains(b, Literal)
    BY <1>3, <1>5 DEF IsLiteral
  <2>2. \A k \in 2..m - 1 : text[k] # Literal
    <3> SUFFICES ASSUME NEW k \in 2..m - 1 PROVE text[k] # Literal
      OBVIOUS
    <3>1. k - 1 \in 1..m - 2 /\ (k - 1) + 1 = k
      BY <1>2
    <3>2. b[k - 1] = text[k] /\ b[k - 1] # Literal
      BY <1>3, <2>1, <3>1 DEF Contains
    <3> QED BY <3>2
  <2>3. strip(text) = u /\ ~ NeverClosed(text)
    <3>1. Inside(text)[m].quote = "" /\ \A k \in 1..m - 1 : Inside(text)[k].quote = Literal
      BY <1>2, <2>1, <2>2, ClosesLiteral
    <3>2. text[1] \in Quote /\ Literal # ""
      BY <2>1, MarksDiffer DEF Quote
    <3>3. ClosedAt(text, m)
      BY <1>2, <3>1, <3>2 DEF ClosedAt
    <3> QED BY <1>2, <1>4, <3>3, ReadTo
  <2>4. u[1] = Literal /\ u[Len(u)] = Literal /\ Len(u) >= 2
    BY <1>2, <1>4, <2>1
  <2>5. ~ NoString(u)
    <3>1. u[1] \in Quote /\ u[1] # Basic /\ ~ (Len(u) < 2) /\ ~ Contains(Body(u), Literal)
      <4>1. ~ (Len(u) < 2)
        BY <1>2, <1>4
      <4>2. ~ Contains(Body(u), Literal)
        BY <1>4, <2>1, Zenon
      <4> QED BY <2>4, <4>1, <4>2, MarksDiffer DEF Quote
    <3>2. u[Len(u)] = u[1]
      BY <2>4
    <3> QED BY <3>1, <3>2, Zenon DEF NoString
  <2>6. str(u) = b
    BY <1>4, <2>4 DEF str
  <2> QED BY <1>3, <1>5, <2>3, <2>5, <2>6 DEF Unreadable, ReadString
<1>6. CASE \E E \in SUBSET DOMAIN Between(text, m) :
             IsBasic(text, m, E) /\ t = Unescaped(Between(text, m), E)
  <2>1. PICK E \in SUBSET DOMAIN b : IsBasic(text, m, E) /\ t = Unescaped(b, E)
    BY <1>3, <1>6
  <2>2. CutAt(b, E) /\ text[1] = Basic /\ text[m] = Basic
    BY <1>3, <2>1 DEF IsBasic
  <2>3. E = Escapes(b)
    BY <2>2, CutOnce
  <2>4. DOMAIN b = 1..m - 2
    BY <1>3
  <2>5. \A k \in 2..m - 1 : text[k] = Basic => k - 2 \in E
    <3> SUFFICES ASSUME NEW k \in 2..m - 1, text[k] = Basic PROVE k - 2 \in E
      OBVIOUS
    <3>1. k - 1 \in 1..m - 2 /\ (k - 1) + 1 = k /\ (k - 1) - 1 = k - 2
      BY <1>2
    <3>2. b[k - 1] = Basic
      BY <1>3, <3>1
    <3> QED BY <2>2, <2>4, <3>1, <3>2, MarksDiffer DEF CutAt
  <2>6. m - 2 \notin E /\ \A n \in E : n # Len(b) /\ b[n + 1] \in Escapable
    <3>1. \A n \in E : n \in DOMAIN b /\ n + 1 \in DOMAIN b /\ b[n + 1] \in Escapable
      BY <2>2 DEF CutAt
    <3>2. \A n \in E : n + 1 <= m - 2 /\ n \in Nat
      BY <2>4, <3>1
    <3> QED BY <1>2, <1>3, <3>1, <3>2
  <2>7. strip(text) = u /\ ~ NeverClosed(text)
    <3>1. Unbroken(text, m, m - 1)
      BY <1>3, <2>2, <2>3, <2>5 DEF Unbroken
    <3>2. m \in 2..m /\ m - 2 \notin Escapes(Between(text, m))
      BY <1>2, <1>3, <2>3, <2>6
    <3>3. Inside(text)[m].quote = "" /\ \A k \in 1..m - 1 : Inside(text)[k].quote = Basic
      BY <1>2, <2>2, <3>1, <3>2, ClosesBasic
    <3>4. text[1] \in Quote /\ Basic # ""
      BY <2>2, MarksDiffer DEF Quote
    <3>5. ClosedAt(text, m)
      BY <1>2, <3>3, <3>4 DEF ClosedAt
    <3> QED BY <1>2, <1>4, <3>5, ReadTo
  <2>8. u[1] = Basic /\ u[Len(u)] = Basic /\ Len(u) >= 2
    BY <1>2, <1>4, <2>2
  <2>9. ~ NoString(u)
    <3>1. u[1] \in Quote /\ u[1] # Literal /\ ~ (Len(u) < 2)
      <4>1. ~ (Len(u) < 2)
        BY <1>2, <1>4
      <4> QED BY <2>8, <4>1, MarksDiffer DEF Quote
    <3>2. \A n \in Escapes(Body(u)) : ~ (n = Len(Body(u)) \/ Body(u)[n + 1] \notin Escapable)
      BY <1>4, <2>3, <2>6
    <3>3. u[Len(u)] = u[1]
      BY <2>8
    <3> QED BY <3>1, <3>2, <3>3, Zenon DEF NoString
  <2>10. str(u) = Unescaped(b, E)
    BY <1>4, <2>3, <2>8, MarksDiffer DEF str
  <2> QED BY <2>1, <2>7, <2>9, <2>10 DEF Unreadable, ReadString
<1> QED BY <1>1, <1>5, <1>6

\* And a text that is read means something, unless it is a basic string that closes and
\* opens again (agent/toml.go strip, str).
THEOREM ReadHasMeaning ==
  ASSUME NEW text \in Seq(STRING), ~ Unreadable(text)
  PROVE  \/ Meanings(text) # {}
         \/ /\ text[1] = Basic
            /\ \E n \in 2..Len(text) - 1 :
                 Inside(text)[n].quote = "" /\ \A m \in Comments(text) : n + 1 < m
<1>1. PICK m \in Nat : /\ m <= Len(text) /\ strip(text) = SubSeq(text, 1, m)
                       /\ m = Len(text) \/ text[m + 1] = Hash
                       /\ \A c \in Comments(text) : m < c
  <2>1. \A c \in Comments(text) : c \in 1..Len(text) /\ text[c] = Hash
    BY CommentsAre
  <2>2. CASE Comments(text) = {}
    BY <2>2, StripIs
  <2>3. CASE Comments(text) # {}
    <3>1. PICK c \in Comments(text) : /\ \A k \in Comments(text) : c <= k
                                      /\ strip(text) = SubSeq(text, 1, c - 1)
      BY <2>3, StripIs
    <3> DEFINE m == c - 1
    <3>2. m \in Nat /\ m <= Len(text) /\ text[m + 1] = Hash
      BY <2>1
    <3>3. \A k \in Comments(text) : m < k
      BY <2>1, <3>1
    <3> HIDE DEF m
    <3>4. strip(text) = SubSeq(text, 1, m)
      BY <3>1 DEF m
    <3> QED BY <3>2, <3>3, <3>4
  <2> QED BY <2>2, <2>3
<1>2. PICK u : u = strip(text) /\ ~ NoString(u)
  BY DEF Unreadable
<1>3. Len(u) = m
  BY <1>1, <1>2, SubSeqProperties
<1>4. m \in 2..Len(text)
  BY <1>1, <1>2, <1>3 DEF NoString
<1>5. PICK b \in Seq(STRING) : /\ b = Between(text, m) /\ Len(b) = m - 2
                               /\ \A k \in 1..m - 2 : b[k] = text[k + 1]
  BY <1>4, BetweenIs
<1>6. u[1] = text[1] /\ u[m] = text[m] /\ Body(u) = b
  BY <1>1, <1>2, <1>4, <1>5, CutIs
<1>7. /\ text[1] \in Quote /\ text[m] = text[1] /\ EndsAt(text, m)
      /\ text[1] = Literal => ~ Contains(b, Literal)
      /\ text[1] = Basic => \A n \in Escapes(b) : n # Len(b) /\ b[n + 1] \in Escapable
  BY <1>1, <1>2, <1>3, <1>4, <1>6 DEF NoString, EndsAt
<1>8. CASE text[1] = Literal
  <2>1. IsLiteral(text, m)
    BY <1>5, <1>7, <1>8 DEF IsLiteral
  <2> QED BY <1>7, <2>1, MeaningsAre
<1>9. CASE text[1] = Basic
  <2> DEFINE E == Escapes(b)
             Bare == {k \in 2..m - 1 : text[k] = Basic /\ k - 2 \notin E}
  <2>1. /\ E \subseteq 1..m - 2
        /\ \A k \in 1..m - 2 : k \in E <=> b[k] = Escape /\ k - 1 \notin E
    BY <1>5, EscapesStep
  <2>2. CASE Bare = {}
    <3>1. CutAt(b, E)
      <4> SUFFICES ASSUME NEW k \in 1..m - 2
                   PROVE  IF k \in E THEN /\ b[k] = Escape /\ k + 1 \in (1..m - 2) \ E
                                          /\ b[k + 1] \in Escapable
                          ELSE k - 1 \in E \/ b[k] \notin {Basic, Escape}
        BY <1>5 DEF CutAt
      <4>1. CASE k \in E
        <5>1. b[k] = Escape /\ k # m - 2 /\ b[k + 1] \in Escapable
          BY <1>5, <1>7, <1>9, <2>1, <4>1
        <5>2. k + 1 \in 1..m - 2 /\ (k + 1) - 1 = k
          BY <1>4, <5>1
        <5>3. k + 1 \notin E
          BY <2>1, <4>1, <5>2
        <5> QED BY <4>1, <5>1, <5>2, <5>3
      <4>2. CASE k \notin E
        <5>1. b[k] = Escape => k - 1 \in E
          BY <2>1, <4>2
        <5>2. k + 1 \in 2..m - 1 /\ (k + 1) - 2 = k - 1 /\ b[k] = text[k + 1]
          BY <1>4, <1>5
        <5>3. b[k] = Basic => k - 1 \in E
          BY <2>2, <5>2
        <5> QED BY <4>2, <5>1, <5>3
      <4> QED BY <4>1, <4>2
    <3>2. IsBasic(text, m, E) /\ E \in SUBSET DOMAIN Between(text, m)
      BY <1>5, <1>7, <1>9, <2>1, <3>1 DEF IsBasic
    <3> QED BY <1>7, <3>2, MeaningsAre
  <2>3. CASE Bare # {}
    <3>1. Bare \in SUBSET Nat
      OBVIOUS
    <3> HIDE DEF Bare
    <3>2. PICK n \in Bare : \A k \in Bare : n <= k
      BY <2>3, <3>1, LeastExists
    <3>3. n \in 2..m - 1 /\ text[n] = Basic /\ n - 2 \notin E
      BY <3>2 DEF Bare
    <3>4. Unbroken(text, m, n - 1)
      <4> SUFFICES ASSUME NEW k \in 2..n - 1, text[k] = Basic PROVE k - 2 \in E
        BY <1>5, <1>9 DEF Unbroken
      <4>1. k \in 2..m - 1 /\ ~ (n <= k)
        BY <1>4, <3>3
      <4>2. k \notin Bare
        BY <3>2, <4>1
      <4> QED BY <4>1, <4>2 DEF Bare
    <3>5. n \in 2..m
      BY <1>4, <3>3
    <3>6. Inside(text)[n].quote = ""
      BY <1>4, <1>5, <3>3, <3>4, <3>5, ClosesBasic
    <3>7. n \in 2..Len(text) - 1
      BY <1>4, <3>3
    <3>8. \A c \in Comments(text) : c \in Nat /\ m < c
      BY <1>1, CommentsAre
    <3>9. \A c \in Comments(text) : n + 1 < c
      BY <1>4, <3>3, <3>8
    <3> QED BY <1>9, <3>6, <3>7, <3>9
  <2> QED BY <2>2, <2>3
<1> QED BY <1>7, <1>8, <1>9 DEF Quote

-----------------------------------------------------------------------------
(* Paths                                                                      *)

\* What a value is made of.
Characters == STRING \cup {Char(c) : c \in STRING}

LEMMA ListEnds ==
  ASSUME NEW d \in Seq(Characters), NEW e \in Characters
  PROVE  /\ Len(d) \in Nat /\ (d # <<>> => Len(d) >= 1)
         /\ Append(d, e) \in Seq(Characters) /\ Len(Append(d, e)) = Len(d) + 1
         /\ Append(d, e)[Len(d) + 1] = e /\ \A k \in 1..Len(d) : Append(d, e)[k] = d[k]
         /\ d # <<>> => /\ Front(d) \in Seq(Characters) /\ Len(Front(d)) = Len(d) - 1
                        /\ \A k \in 1..Len(d) - 1 : Front(d)[k] = d[k]
<1>1. Len(d) \in Nat /\ (d # <<>> => Len(d) >= 1)
  <2>1. d # <<>> => Len(d) \in Nat \ {0}
    BY EmptySeq
  <2> QED BY <2>1
<1>2. Append(d, e) \in Seq(Characters) /\ Len(Append(d, e)) = Len(d) + 1
  BY AppendProperties
<1>3. Append(d, e)[Len(d) + 1] = e /\ \A k \in 1..Len(d) : Append(d, e)[k] = d[k]
  <2>1. Append(d, e)[Len(d) + 1] = e
    BY AppendProperties
  <2>2. \A k \in 1..Len(d) : Append(d, e)[k] = d[k]
    BY AppendProperties
  <2> QED BY <2>1, <2>2
<1>4. ASSUME d # <<>>
      PROVE  /\ Front(d) \in Seq(Characters) /\ Len(Front(d)) = Len(d) - 1
             /\ \A k \in 1..Len(d) - 1 : Front(d)[k] = d[k]
  <2>1. PICK n \in Nat : n = Len(d) - 1
    BY <1>1, <1>4
  <2>2. \A k \in 1..n : d[k] \in Characters
    <3>1. \A k \in 1..n : k \in 1..Len(d)
      BY <1>1, <2>1
    <3> QED BY <3>1, ElementOfSeq
  <2>3. PICK f : f = SubSeq(d, 1, n) /\ f = Front(d)
    BY <2>1 DEF Front
  <2>4. /\ f \in Seq(Characters) /\ Len(f) = IF 1 <= n THEN n - 1 + 1 ELSE 0
        /\ \A k \in 1..n - 1 + 1 : f[k] = d[1 + k - 1]
    <3>1. SubSeq(d, 1, n) \in Seq(Characters)
      BY <2>2, SubSeqProperties
    <3>2. Len(SubSeq(d, 1, n)) = IF 1 <= n THEN n - 1 + 1 ELSE 0
      BY <2>2, SubSeqProperties
    <3>3. \A k \in 1..n - 1 + 1 : SubSeq(d, 1, n)[k] = d[1 + k - 1]
      BY <2>2, SubSeqProperties
    <3> QED BY <2>3, <3>1, <3>2, <3>3
  <2>5. Len(f) = n
    BY <2>4
  <2>6. \A k \in 1..n : f[k] = d[k]
    <3>1. \A k \in 1..n : k \in 1..n - 1 + 1 /\ 1 + k - 1 = k
      OBVIOUS
    <3> QED BY <2>4, <3>1
  <2> QED BY <2>1, <2>3, <2>4, <2>5, <2>6
<1> QED BY <1>1, <1>2, <1>3, <1>4

LEMMA CleanedSteps ==
  ASSUME NEW path \in Seq(Characters)
  PROVE  /\ Cleaned(path)[0] = <<>>
         /\ \A n \in 0..Len(path) : Cleaned(path)[n] \in Seq(Characters)
         /\ \A n \in 1..Len(path) : Cleaned(path)[n] = Walk(Cleaned(path)[n - 1], path[n])
<1> DEFINE N == Len(path)
           Done == Seq(Characters)
           g == [n \in 1..N |-> [done \in Done |-> Walk(done, path[n])]]
           All(f) == [n \in 0..N |-> IF n = 0 THEN <<>> ELSE Walk(f[n - 1], path[n])]
           i == Cleaned(path)
<1>1. N \in Nat /\ <<>> \in Done
  OBVIOUS
<1>2. \A done \in Done : \A e \in Characters : Walk(done, e) \in Done
  <2> SUFFICES ASSUME NEW done \in Done, NEW e \in Characters PROVE Walk(done, e) \in Done
    OBVIOUS
  <2>1. (done # <<>> => Front(done) \in Done) /\ Append(done, e) \in Done
    BY ListEnds
  <2> HIDE DEF Done
  <2> QED BY <2>1 DEF Walk
<1>3. \A n \in 1..N : g[n] \in [Done -> Done]
  <2>1. \A n \in 1..N : path[n] \in Characters
    OBVIOUS
  <2> HIDE DEF Done
  <2> QED BY <1>2, <2>1
<1>4. PICK f : Steps(f, Done, <<>>, g, N)
  <2> HIDE DEF g, N, Done
  <2> QED BY <1>1, <1>3, StepsExist
<1> HIDE DEF Done
<1>5. f \in [0..N -> Done] /\ f[0] = <<>> /\ \A n \in 1..N : f[n] = Walk(f[n - 1], path[n])
  <2>1. f \in [0..N -> Done] /\ f[0] = <<>> /\ \A n \in 1..N : f[n] = g[n][f[n - 1]]
    BY <1>4 DEF Steps
  <2>2. \A n \in 1..N : f[n - 1] \in Done
    BY <1>1, <2>1
  <2> QED BY <2>1, <2>2
<1>6. f = All(f)
  BY <1>5
<1>7. i = CHOOSE h : h = All(h)
  BY DEF Cleaned
<1> HIDE DEF i
<1>8. i = All(i)
  <2> HIDE DEF All
  <2> QED BY <1>6, <1>7
<1>9. i[0] = <<>> /\ \A n \in 1..N : i[n] = Walk(i[n - 1], path[n])
  <2>1. \A n \in 0..N : i[n] = IF n = 0 THEN <<>> ELSE Walk(i[n - 1], path[n])
    BY <1>8
  <2> QED BY <1>1, <2>1
<1>10. \A n \in 0..N : i[n] \in Done
  <2> DEFINE S == {n \in 0..N : i[n] \in Done}
  <2>1. 0 \in S
    BY <1>1, <1>9
  <2>2. ASSUME NEW n \in 1..N, n - 1 \in S PROVE n \in S
    <3>1. i[n - 1] \in Done /\ i[n] = Walk(i[n - 1], path[n]) /\ path[n] \in Characters
      BY <1>9, <2>2
    <3>2. i[n] \in Done
      BY <3>1, <1>2
    <3> QED BY <3>2
  <2> HIDE DEF S
  <2>3. 0..N \subseteq S
    BY <1>1, <2>1, <2>2, CountingUp
  <2> QED BY <2>3 DEF S
<1> QED BY <1>9, <1>10 DEF i, Done

\* How often e stands among the first n elements.
Times(path, e, n) == Cardinality({m \in 1..n : path[m] \in {e}})

LEMMA TimesStep ==
  ASSUME NEW path, NEW e, NEW n \in Nat \ {0}
  PROVE  /\ Times(path, e, n - 1) \in Nat /\ Times(path, e, 0) = 0
         /\ Times(path, e, n) = Times(path, e, n - 1) + IF path[n] = e THEN 1 ELSE 0
<1> DEFINE S == {m \in 1..n - 1 : path[m] \in {e}}
           T == {m \in 1..n : path[m] \in {e}}
<1>1. IsFiniteSet(S) /\ n \notin S
  <2>1. IsFiniteSet(1..n - 1)
    BY FS_Interval
  <2>2. S \in SUBSET (1..n - 1)
    OBVIOUS
  <2>3. IsFiniteSet(S)
    <3> HIDE DEF S
    <3> QED BY <2>1, <2>2, FS_Subset
  <2> QED BY <2>3
<1>2. T = IF path[n] = e THEN S \cup {n} ELSE S
  OBVIOUS
<1>3. {m \in 1..0 : path[m] \in {e}} = {}
  OBVIOUS
<1>4. Cardinality(S) \in Nat /\ Cardinality(S \cup {n}) = Cardinality(S) + 1
  <2> HIDE DEF S
  <2> QED BY <1>1, FS_CardinalityType, FS_AddElement
<1>5. Cardinality({}) = 0
  BY FS_EmptySet
<1> HIDE DEF S, T
<1>6. Cardinality(T) = Cardinality(S) + IF path[n] = e THEN 1 ELSE 0
  BY <1>2, <1>4
<1> QED BY <1>3, <1>4, <1>5, <1>6 DEF Times, S, T

Ups(path, n) == Times(path, "..", n)
Dots(path, n) == Times(path, ".", n)
Within(path, n) == \A k \in 1..n : 2 * Ups(path, k) + Dots(path, k) <= k

\* Cleaned, a path that has not climbed out has only elements it went down by; one
\* that has begins with the parent.
CleanHolds(path, n) ==
  LET done == Cleaned(path)[n]
  IN IF Within(path, n)
       THEN /\ \A k \in 1..Len(done) : done[k] # ".."
            /\ Len(done) = n - 2 * Ups(path, n) - Dots(path, n)
       ELSE Len(done) >= 1 /\ done[1] = ".."

LEMMA CleanStep ==
  ASSUME NEW path \in Seq(Characters), NEW n \in 1..Len(path), CleanHolds(path, n - 1)
  PROVE  CleanHolds(path, n)
<1>1. n - 1 \in Nat /\ n \in Nat \ {0} /\ n - 1 \in 0..Len(path) /\ n \in 0..Len(path)
  OBVIOUS
<1>2. PICK d \in Seq(Characters), c \in Seq(Characters), e \in Characters :
         /\ d = Cleaned(path)[n - 1] /\ c = Cleaned(path)[n] /\ e = path[n] /\ c = Walk(d, e)
  <2>1. Cleaned(path)[n - 1] \in Seq(Characters) /\ Cleaned(path)[n] \in Seq(Characters)
    BY <1>1, CleanedSteps
  <2>2. Cleaned(path)[n] = Walk(Cleaned(path)[n - 1], path[n])
    BY CleanedSteps
  <2>3. path[n] \in Characters
    BY ElementOfSeq
  <2> QED BY <2>1, <2>2, <2>3
<1>3. PICK u \in Nat, o \in Nat : u = Ups(path, n - 1) /\ o = Dots(path, n - 1)
  BY <1>1, TimesStep DEF Ups, Dots
<1>4. /\ Ups(path, n) = u + IF e = ".." THEN 1 ELSE 0
      /\ Dots(path, n) = o + IF e = "." THEN 1 ELSE 0
  BY <1>1, <1>2, <1>3, TimesStep DEF Ups, Dots
<1>5. Within(path, n) <=> Within(path, n - 1) /\ 2 * Ups(path, n) + Dots(path, n) <= n
  <2>1. \A k \in 1..n : k \in 1..n - 1 \/ k = n
    OBVIOUS
  <2>2. n \in 1..n /\ \A k \in 1..n - 1 : k \in 1..n
    OBVIOUS
  <2> QED BY <2>1, <2>2, Zenon DEF Within
<1>6. d # <<>> => /\ Front(d) \in Seq(Characters) /\ Len(Front(d)) = Len(d) - 1 /\ Len(d) >= 1
                  /\ \A k \in 1..Len(d) - 1 : Front(d)[k] = d[k]
  BY ListEnds
<1>7. Len(d) \in Nat /\ Len(Append(d, e)) = Len(d) + 1 /\ Append(d, e)[Len(d) + 1] = e
      /\ \A k \in 1..Len(d) : Append(d, e)[k] = d[k]
  BY ListEnds
<1>8. CASE Within(path, n - 1)
  <2>1. (\A k \in 1..Len(d) : d[k] # "..") /\ Len(d) = n - 1 - 2 * u - o
    BY <1>2, <1>3, <1>8 DEF CleanHolds
  <2>2. CASE e = "."
    <3>1. c = d
      BY <1>2, <2>2 DEF Walk
    <3>2. Within(path, n) /\ Len(c) = n - 2 * Ups(path, n) - Dots(path, n)
      BY <1>1, <1>4, <1>5, <1>8, <2>1, <2>2, <3>1
    <3> QED BY <1>2, <2>1, <3>1, <3>2 DEF CleanHolds
  <2>3. CASE e = ".." /\ d = <<>>
    <3>1. c = <<"..">> /\ Len(d) = 0
      BY <1>2, <2>3 DEF Walk
    <3>2. ~ Within(path, n)
      BY <1>1, <1>4, <1>5, <2>1, <2>3, <3>1
    <3> QED BY <1>2, <3>1, <3>2 DEF CleanHolds
  <2>4. CASE e = ".." /\ d # <<>>
    <3>1. Len(d) \in 1..Len(d)
      BY <1>6, <2>4
    <3>2. c = Front(d)
      BY <1>2, <2>1, <2>4, <3>1 DEF Walk
    <3>3. Len(c) = Len(d) - 1 /\ \A k \in 1..Len(c) : c[k] # ".."
      <4>1. \A k \in 1..Len(d) - 1 : k \in 1..Len(d)
        OBVIOUS
      <4> QED BY <1>6, <2>1, <2>4, <3>2, <4>1
    <3>4. Within(path, n) /\ Len(c) = n - 2 * Ups(path, n) - Dots(path, n)
      BY <1>1, <1>2, <1>4, <1>5, <1>8, <2>1, <2>4, <3>3
    <3> QED BY <1>2, <3>3, <3>4 DEF CleanHolds
  <2>5. CASE e \notin {".", ".."}
    <3>1. c = Append(d, e)
      BY <1>2, <2>5 DEF Walk
    <3>0. Ups(path, n) = u /\ Dots(path, n) = o /\ Len(c) = Len(d) + 1
      BY <1>4, <1>7, <2>5, <3>1
    <3>2. Within(path, n) /\ Len(c) = n - 2 * Ups(path, n) - Dots(path, n)
      BY <1>1, <1>5, <1>7, <1>8, <2>1, <3>0
    <3>3. \A k \in 1..Len(c) : c[k] # ".."
      <4>1. \A k \in 1..Len(c) : k \in 1..Len(d) \/ k = Len(d) + 1
        BY <1>7, <3>1
      <4> QED BY <1>7, <2>1, <2>5, <3>1, <4>1
    <3> QED BY <1>2, <3>2, <3>3 DEF CleanHolds
  <2> QED BY <2>2, <2>3, <2>4, <2>5
<1>9. CASE ~ Within(path, n - 1)
  <2>1. Len(d) >= 1 /\ d[1] = ".."
    BY <1>2, <1>9 DEF CleanHolds
  <2>2. Len(c) >= 1 /\ c[1] = ".."
    <3>1. CASE c = d
      BY <2>1, <3>1
    <3>2. CASE c = Append(d, e)
      BY <1>7, <2>1, <3>2
    <3>3. CASE e = ".." /\ d # <<>> /\ d[Len(d)] # ".." /\ c = Front(d)
      <4>1. Len(d) # 1
        BY <2>1, <3>3
      <4>2. Len(c) >= 1 /\ 1 \in 1..Len(d) - 1
        BY <1>6, <2>1, <3>3, <4>1
      <4> QED BY <1>6, <2>1, <3>3, <4>2
    <3> QED BY <1>2, <3>1, <3>2, <3>3 DEF Walk
  <2> QED BY <1>2, <1>5, <1>9, <2>2 DEF CleanHolds
<1> QED BY <1>8, <1>9

\* What insideRepo takes, having cleaned the path, is what never climbs out on its way,
\* but for the parent itself (agent/config.go insideRepo).
THEOREM InsideStays ==
  ASSUME NEW path \in Seq(Characters)
  PROVE  /\ insideRepo(path) => StaysInside(path) \/ TheParent(path)
         /\ StaysInside(path) => insideRepo(path)
<1> DEFINE N == Len(path)
           S == {n \in 0..N : CleanHolds(path, n)}
<1>1. N \in Nat
  OBVIOUS
<1>2. 0 \in S
  <2>1. Ups(path, 0) = 0 /\ Dots(path, 0) = 0
    BY TimesStep, 1 \in Nat \ {0} DEF Ups, Dots
  <2>2. Within(path, 0) /\ Cleaned(path)[0] = <<>>
    BY CleanedSteps DEF Within
  <2> QED BY <1>1, <2>1, <2>2 DEF CleanHolds
<1>3. ASSUME NEW n \in 1..N, n - 1 \in S PROVE n \in S
  BY <1>3, CleanStep
<1> HIDE DEF S
<1>4. 0..N \subseteq S
  BY <1>1, <1>2, <1>3, CountingUp
<1>5. CleanHolds(path, N)
  BY <1>1, <1>4 DEF S
<1>6. PICK d \in Seq(Characters) : d = Clean(path) /\ d = Cleaned(path)[N]
  BY <1>1, CleanedSteps DEF Clean
<1>7. StaysInside(path) <=> path # <<>> /\ path[1] # "/" /\ Within(path, N)
  BY DEF StaysInside, Within, Ups, Dots, Times
<1>8. CASE Within(path, N)
  <2>1. ~ (Len(d) > 1 /\ d[1] = "..")
    BY <1>5, <1>6, <1>8 DEF CleanHolds
  <2> QED BY <1>6, <1>7, <1>8, <2>1 DEF insideRepo
<1>9. CASE ~ Within(path, N)
  <2>1. Len(d) >= 1 /\ d[1] = ".."
    BY <1>5, <1>6, <1>9 DEF CleanHolds
  <2>2. ~ (Len(d) > 1) => d = <<"..">>
    <3> SUFFICES ASSUME ~ (Len(d) > 1) PROVE d = <<"..">>
      OBVIOUS
    <3>1. Len(d) = 1
      <4>1. PICK n \in Nat : n = Len(d)
        BY LenProperties
      <4>2. n >= 1 /\ ~ (n > 1)
        BY <2>1, <4>1
      <4>3. n = 1
        BY <4>2
      <4> QED BY <4>1, <4>3
    <3>2. d = [k \in 1..1 |-> d[k]]
      <4>1. d \in [1..Len(d) -> Characters]
        BY LenProperties
      <4> QED BY <3>1, <4>1
    <3>3. [k \in 1..1 |-> d[k]] = <<"..">>
      BY <2>1
    <3> QED BY <3>2, <3>3
  <2> QED BY <1>6, <1>7, <1>9, <2>1, <2>2 DEF insideRepo, TheParent
<1> QED BY <1>8, <1>9

\* What is read is made of characters.
LEMMA UnescapedType ==
  ASSUME NEW body \in Seq(STRING), NEW E
  PROVE  Unescaped(body, E) \in Seq(Characters)
<1> DEFINE N == Len(body)
           Done == Seq(Characters)
           At(n, done) == IF n \in E THEN done
                          ELSE Append(done, IF n - 1 \in E THEN Char(body[n]) ELSE body[n])
           g == [n \in 1..N |-> [done \in Done |-> At(n, done)]]
           All(f) == [n \in 0..N |-> IF n = 0 THEN <<>> ELSE At(n, f[n - 1])]
           i == CHOOSE h : h = All(h)
<1>1. N \in Nat /\ <<>> \in Done
  OBVIOUS
<1>2. \A n \in 1..N : \A done \in Done : At(n, done) \in Done
  <2> SUFFICES ASSUME NEW n \in 1..N, NEW done \in Seq(Characters)
               PROVE  At(n, done) \in Seq(Characters)
    OBVIOUS
  <2>1. body[n] \in STRING
    BY ElementOfSeq
  <2>2. body[n] \in Characters /\ Char(body[n]) \in Characters
    BY <2>1 DEF Characters
  <2>3. PICK e \in Characters : e = IF n - 1 \in E THEN Char(body[n]) ELSE body[n]
    BY <2>2
  <2>4. Append(done, e) \in Seq(Characters)
    BY AppendProperties
  <2> QED BY <2>3, <2>4
<1> HIDE DEF Done
<1>3. \A n \in 1..N : g[n] \in [Done -> Done]
  <2> HIDE DEF At
  <2> QED BY <1>2
<1>4. PICK f : Steps(f, Done, <<>>, g, N)
  <2> HIDE DEF g, N
  <2> QED BY <1>1, <1>3, StepsExist
<1>5. f \in [0..N -> Done] /\ f[0] = <<>> /\ \A n \in 1..N : f[n] = At(n, f[n - 1])
  <2> HIDE DEF At
  <2>1. f \in [0..N -> Done] /\ f[0] = <<>> /\ \A n \in 1..N : f[n] = g[n][f[n - 1]]
    BY <1>4 DEF Steps
  <2>2. \A n \in 1..N : f[n - 1] \in Done
    BY <1>1, <2>1
  <2> QED BY <2>1, <2>2
<1>6. f = All(f)
  <2> HIDE DEF At
  <2> QED BY <1>5
<1>7. i = All(i)
  <2> HIDE DEF All
  <2> QED BY <1>6
<1>8. Unescaped(body, E) = i[N]
  BY DEF Unescaped
<1> HIDE DEF i
<1>9. i[0] = <<>> /\ \A n \in 1..N : i[n] = At(n, i[n - 1])
  <2>1. \A n \in 0..N : i[n] = IF n = 0 THEN <<>> ELSE At(n, i[n - 1])
    BY <1>7
  <2> HIDE DEF At
  <2> QED BY <1>1, <2>1
<1>10. 0..N \subseteq {n \in 0..N : i[n] \in Done}
  <2> DEFINE S == {n \in 0..N : i[n] \in Done}
  <2>1. 0 \in S
    BY <1>1, <1>9
  <2>2. ASSUME NEW n \in 1..N, n - 1 \in S PROVE n \in S
    <3> HIDE DEF At
    <3>1. i[n - 1] \in Done /\ i[n] = At(n, i[n - 1])
      BY <1>9, <2>2
    <3>2. i[n] \in Done
      BY <3>1, <1>2
    <3> QED BY <3>2
  <2> HIDE DEF S
  <2>3. 0..N \subseteq S
    BY <1>1, <2>1, <2>2, CountingUp
  <2> QED BY <2>3 DEF S
<1> QED BY <1>1, <1>8, <1>10 DEF Done

LEMMA MeaningType ==
  ASSUME NEW text \in Seq(STRING), NEW t \in Meanings(text)
  PROVE  t \in Seq(Characters)
<1>1. PICK m : /\ EndsAt(text, m)
               /\ \/ IsLiteral(text, m) /\ t = Between(text, m)
                  \/ \E E \in SUBSET DOMAIN Between(text, m) :
                       IsBasic(text, m, E) /\ t = Unescaped(Between(text, m), E)
  BY MeaningsAre
<1>0. Between(text, m) \in Seq(STRING)
  BY <1>1, BetweenIs DEF EndsAt
<1>2. Between(text, m) \in Seq(Characters)
  <2>1. STRING \subseteq Characters
    BY DEF Characters
  <2> QED BY <1>0, <2>1, SeqMonotonic
<1>3. \A E : Unescaped(Between(text, m), E) \in Seq(Characters)
  BY <1>0, UnescapedType
<1> QED BY <1>1, <1>2, <1>3

-----------------------------------------------------------------------------
(* Where the reader stands                                                    *)

\* A line of a file has a number, and its section is the last header above it.
Begun == file \in Files /\ at \in 1..Len(file) + 1 /\ DOMAIN file = 1..Len(file)
                        /\ Len(file) \in Nat

\* What is read so far.  The section is the header above; a key that is set was set
\* by its line; a key line is set or is the array being read; that array is open
\* since its line; an element is in an array.
Under == section = SectionOf(at)
FromLines ==
  \A k \in DOMAIN doc :
    /\ doc[k] = Value(doc[k].kind, doc[k].line, doc[k].n, doc[k].arr)
    /\ doc[k].line \in Lines("key") /\ doc[k].line < at
KeysTaken ==
  \A i \in Lines("key") : i < at =>
    \/ KeyOf(i) \in DOMAIN doc /\ doc[KeyOf(i)].line = i
    \/ open # NoArray /\ open.key = KeyOf(i) /\ open.line = i
OpenSince ==
  /\ open = [key |-> open.key, line |-> open.line, arr |-> open.arr]
  /\ open # NoArray =>
       /\ open.line \in Arrays /\ open.line < at
       /\ \A e \in Lines("close") : open.line < e => at <= e
ItemsTaken == \A j \in Lines("item") : j < at => \E i \in Arrays : j \in Elements(i)

Placed == Under /\ FromLines /\ KeysTaken /\ OpenSince /\ ItemsTaken

\* What is handed on from one pass to the next.
Handed ==
  /\ outcome \in {"reading", "parsed", "assigned", "loaded", "refused"}
  /\ outcome \in {"parsed", "assigned", "loaded"} => at = Len(file) + 1 /\ open = NoArray
  /\ outcome \in {"reading", "parsed"} => config = <<>>
  /\ outcome \in {"assigned", "loaded"} => DOMAIN config = DOMAIN doc
  /\ config = <<>> \/ DOMAIN config \subseteq DOMAIN doc \cap DOMAIN configKeys
  /\ \A k \in DOMAIN config : k \in DOMAIN doc /\ config[k].line = doc[k].line

Inv == Begun /\ Placed /\ Handed

-----------------------------------------------------------------------------
(* The lines above *)

LEMMA NoDomain == DOMAIN <<>> = {}
OBVIOUS

\* One line down, a header is the section; any other line leaves it.
LEMMA SectionStep ==
  ASSUME Begun, at \in DOMAIN file
  PROVE  SectionOf(at + 1) = IF at \in Lines("header") THEN file[at].name ELSE SectionOf(at)
<1>1. CASE at \in Lines("header")
  <2>1. at \in Above(at + 1) /\ \A g \in Above(at + 1) : g \in Int /\ g <= at
    BY <1>1 DEF Above, Lines, Begun
  <2> HIDE DEF Begun
  <2>2. Max(Above(at + 1)) = at
    BY <2>1 DEF Max
  <2> QED
    BY <1>1, <2>1, <2>2 DEF SectionOf
<1>2. CASE at \notin Lines("header")
  <2>1. Above(at + 1) = Above(at)
    BY <1>2 DEF Above, Lines, Begun
  <2> QED
    BY <1>2, <2>1 DEF SectionOf
<1> QED
  BY <1>1, <1>2

\* What the lines say does not change while they are read.
LEMMA SameFile ==
  ASSUME UNCHANGED file
  PROVE  /\ \A what : Lines(what)' = Lines(what)
         /\ \A i : KeyOf(i)' = KeyOf(i)
         /\ \A i : SectionOf(i)' = SectionOf(i)
         /\ Arrays' = Arrays
         /\ \A i : Elements(i)' = Elements(i)
<1>1. \A what : Lines(what)' = Lines(what)
  BY DEF Lines
<1>2. \A i : Above(i)' = Above(i)
  BY <1>1 DEF Above
<1>3. \A i : SectionOf(i)' = SectionOf(i)
  BY <1>2 DEF SectionOf
<1>4. \A i : KeyOf(i)' = KeyOf(i)
  BY <1>3 DEF KeyOf
<1>5. Arrays' = Arrays
  BY <1>1 DEF Arrays
<1>6. \A i : Elements(i)' = Elements(i)
  BY <1>1 DEF Elements
<1> QED
  BY <1>1, <1>3, <1>4, <1>5, <1>6

LEMMA InitInv == Init => Inv
<1> SUFFICES ASSUME Init PROVE Inv
  OBVIOUS
<1>1. Begun
  <2>1. file \in Files /\ at = 1
    BY DEF Init
  <2>2. file \in Seq({file[n] : n \in DOMAIN file})
    BY <2>1, FilesAssumption
  <2> QED
    BY <2>1, <2>2 DEF Begun
<1>2. Placed
  <2>1. Above(1) = {}
    BY <1>1 DEF Above, Lines, Begun
  <2>0. at = 1
    BY DEF Init
  <2> HIDE DEF Init
  <2>2. \A i \in DOMAIN file : ~ (i < 1)
    BY <1>1 DEF Begun
  <2>3. \A what : \A i \in Lines(what) : ~ (i < at)
    BY <2>0, <2>2 DEF Lines
  <2>4. Under
    BY <2>0, <2>1 DEF Under, Init, SectionOf
  <2>5. DOMAIN doc = {} /\ open = NoArray
    BY NoDomain DEF Init
  <2>6. OpenSince
    BY <2>5 DEF OpenSince, NoArray
  <2> QED
    BY <2>3, <2>4, <2>5, <2>6 DEF Placed, FromLines, KeysTaken, ItemsTaken
<1>3. Handed
  BY NoDomain DEF Handed, Init
<1> QED
  BY <1>1, <1>2, <1>3 DEF Inv

-----------------------------------------------------------------------------
(* One line *)

\* What every line that is read does to the invariant.
LEMMA ReadsStep ==
  ASSUME Inv, NEW what, Reads(what)
  PROVE  /\ at \in DOMAIN file /\ at \in Nat /\ at' = at + 1 /\ file[at].is = what
         /\ Fits(file[at]) /\ UNCHANGED file
         /\ Begun'
         /\ SectionOf(at)' = IF what = "header" THEN file[at].name ELSE section
         /\ at \in Lines(what)
         /\ \A w : \A i \in Lines(w) : i \in Nat /\ (i < at' => i < at \/ (i = at /\ w = what))
         /\ DOMAIN config = {} /\ UNCHANGED <<config, outcome>> /\ outcome = "reading"
         /\ config = <<>>
<1>1. at \in DOMAIN file /\ at \in Nat /\ at' = at + 1 /\ file[at].is = what
      /\ Fits(file[at]) /\ UNCHANGED file
  BY DEF Reads, Reading, Inv, Begun
<1>2. Begun'
  BY <1>1 DEF Inv, Begun
<1>3. at \in Lines(what) /\ \A w : at \in Lines(w) => w = what
  BY <1>1 DEF Lines
<1>4. SectionOf(at)' = SectionOf(at + 1)
  <2>1. Above(at)' = Above(at + 1)
    BY <1>1 DEF Above, Lines
  <2> QED
    BY <1>1, <2>1 DEF SectionOf
<1>5. SectionOf(at + 1) = IF what = "header" THEN file[at].name ELSE section
  BY <1>1, <1>3, SectionStep DEF Inv, Placed, Under
<1>6. \A i \in DOMAIN file : i \in Nat /\ (i < at' => i < at \/ i = at)
  BY <1>1 DEF Inv, Begun
<1>7. \A w : \A i \in Lines(w) : i \in Nat /\ (i < at' => i < at \/ (i = at /\ w = what))
  BY <1>3, <1>6 DEF Lines
<1>8. DOMAIN config = {} /\ UNCHANGED <<config, outcome>> /\ outcome = "reading"
      /\ config = <<>>
  BY NoDomain DEF Reads, Reading, Inv, Handed
<1> QED
  BY <1>1, <1>2, <1>3, <1>4, <1>5, <1>7, <1>8

\* What a line has found to be so when it is read.
LEMMA FitsThere ==
  ASSUME NEW l, Fits(l)
  PROVE  /\ l.is = "key" => open = NoArray
         /\ l.is = "key" => l.value.form = "open" \/ Key(section, l.name) \notin DOMAIN doc
         /\ l.is = "item" => open # NoArray
         /\ l.is = "close" => open # NoArray /\ open.key \notin DOMAIN doc
<1>1. CASE l.is = "key"
  BY <1>1 DEF Fits
<1>2. CASE l.is = "item"
  BY <1>2 DEF Fits
<1>3. CASE l.is = "close"
  BY <1>3 DEF Fits
<1> QED
  BY <1>1, <1>2, <1>3

\* The parts no line but one of its own kind can disturb.
LEMMA Undisturbed ==
  ASSUME Inv, NEW what, Reads(what)
  PROVE  /\ UNCHANGED doc => FromLines'
         /\ what # "key" /\ UNCHANGED <<doc, open>> => KeysTaken'
         /\ what # "close" /\ UNCHANGED open => OpenSince'
         /\ what # "item" => ItemsTaken'
         /\ what # "header" /\ UNCHANGED section => Under'
<1>1. UNCHANGED doc => FromLines'
  <2> SUFFICES ASSUME UNCHANGED doc PROVE FromLines'
    OBVIOUS
  <2>1. FromLines /\ Lines("key")' = Lines("key")
    BY ReadsStep, SameFile DEF Inv, Placed
  <2>2. at' = at + 1 /\ at \in Nat /\ \A i \in Lines("key") : i \in Nat
    BY ReadsStep
  <2> QED
    BY <2>1, <2>2 DEF FromLines, Value
<1>2. what # "key" /\ UNCHANGED <<doc, open>> => KeysTaken'
  <2> SUFFICES ASSUME what # "key", UNCHANGED <<doc, open>> PROVE KeysTaken'
    OBVIOUS
  <2>1. KeysTaken /\ Lines("key")' = Lines("key") /\ \A i : KeyOf(i)' = KeyOf(i)
    BY ReadsStep, SameFile DEF Inv, Placed
  <2>2. \A i \in Lines("key") : i < at' => i < at
    BY ReadsStep
  <2> QED
    BY <2>1, <2>2 DEF KeysTaken, NoArray
<1>3. what # "close" /\ UNCHANGED open => OpenSince'
  <2> SUFFICES ASSUME what # "close", UNCHANGED open PROVE OpenSince'
    OBVIOUS
  <2>1. OpenSince /\ Arrays' = Arrays /\ Lines("close")' = Lines("close")
    BY ReadsStep, SameFile DEF Inv, Placed
  <2>2. \A e \in Lines("close") : at <= e => at' <= e
    <3>1. \A e \in Lines("close") : e \in Nat /\ ~ (e < at' /\ ~ (e < at))
      BY ReadsStep
    <3>2. at \in Nat /\ at' = at + 1
      BY ReadsStep
    <3> QED
      BY <3>1, <3>2
  <2>3. open # NoArray => open.line \in Nat
    BY <2>1, ReadsStep DEF OpenSince, Arrays
  <2>4. at' = at + 1 /\ at \in Nat
    BY ReadsStep
  <2>5. open # NoArray => open.line < at' /\ \A e \in Lines("close") : open.line < e => at' <= e
    BY <2>1, <2>2, <2>3, <2>4 DEF OpenSince
  <2>6. UNCHANGED NoArray
    BY DEF NoArray, Key
  <2> QED
    BY <2>1, <2>5, <2>6 DEF OpenSince
<1>4. what # "item" => ItemsTaken'
  <2> SUFFICES ASSUME what # "item" PROVE ItemsTaken'
    OBVIOUS
  <2>1. /\ ItemsTaken /\ Lines("item")' = Lines("item") /\ Arrays' = Arrays
        /\ \A i : Elements(i)' = Elements(i)
    BY ReadsStep, SameFile DEF Inv, Placed
  <2>2. \A i \in Lines("item") : i < at' => i < at
    BY ReadsStep
  <2> QED
    BY <2>1, <2>2 DEF ItemsTaken
<1>5. what # "header" /\ UNCHANGED section => Under'
  BY ReadsStep DEF Under
<1> QED
  BY <1>1, <1>2, <1>3, <1>4, <1>5

\* The passes have not begun while a line is read.
LEMMA NothingHanded == ASSUME Inv, NEW what, Reads(what) PROVE Handed'
<1>1. DOMAIN config' = {} /\ config' = <<>> /\ outcome' = "reading"
  BY ReadsStep, NoDomain
<1> QED
  BY <1>1 DEF Handed

LEMMA BlankInv == ASSUME Inv, BlankLine PROVE Inv'
BY ReadsStep, Undisturbed, NothingHanded DEF BlankLine, Inv, Placed

LEMMA HeaderInv == ASSUME Inv, Header PROVE Inv'
<1>1. Reads("header") /\ section' = file[at].name /\ UNCHANGED <<open, doc>>
  BY DEF Header
<1>2. Under'
  BY <1>1, ReadsStep DEF Under
<1> QED
  BY <1>1, <1>2, ReadsStep, Undisturbed, NothingHanded DEF Inv, Placed

LEMMA SettingInv == ASSUME Inv, Setting PROVE Inv'
<1> DEFINE key == Key(section, file[at].name)
           v == file[at].value
           new == IF v.form = "text" THEN Value("string", at, 0, ReadString(v.text))
                                     ELSE Value(v.form, at, v.n, <<>>)
<1>1. Reads("key") /\ UNCHANGED section
  BY DEF Setting
<1>2. open = NoArray
  BY <1>1, ReadsStep, FitsThere
<1>3. KeyOf(at) = key
  BY DEF KeyOf, Inv, Placed, Under
<1>4. /\ \A k \in DOMAIN doc : doc[k].line \in Lines("key") /\ doc[k].line < at
      /\ \A i \in Lines("key") : i < at => KeyOf(i) \in DOMAIN doc /\ doc[KeyOf(i)].line = i
  BY <1>2 DEF Inv, Placed, FromLines, KeysTaken
<1>5. /\ Lines("key")' = Lines("key") /\ \A i : KeyOf(i)' = KeyOf(i)
      /\ at' = at + 1 /\ at \in Nat /\ at \in Lines("key")
      /\ \A i \in Lines("key") : i \in Nat /\ (i < at' => i < at \/ i = at)
  BY <1>1, ReadsStep, SameFile
<1>6. CASE v.form = "open"
  <2>1. open' = [key |-> key, line |-> at, arr |-> <<>>] /\ UNCHANGED doc
    BY <1>6 DEF Setting
  <2>2. open' # NoArray'
    <3>1. at # 0
      BY <1>1, ReadsStep DEF Inv, Begun
    <3>2. open'.line = at /\ NoArray'.line = 0
      BY <2>1 DEF NoArray
    <3> QED
      BY <3>1, <3>2
  <2>3. at \in Arrays' /\ at < at' /\ Lines("close")' = Lines("close")
    BY <1>1, <1>5, <1>6, ReadsStep, SameFile DEF Arrays
  <2>4. \A e \in Lines("close") : at < e => at' <= e
    <3>1. \A e \in Lines("close") : e \in Nat
      BY <1>1, ReadsStep
    <3> QED
      BY <1>5, <3>1
  <2>5. OpenSince'
    BY <2>1, <2>3, <2>4 DEF OpenSince
  <2>6. KeysTaken'
    <3> SUFFICES ASSUME NEW i \in Lines("key"), i < at'
                 PROVE  \/ KeyOf(i) \in DOMAIN doc /\ doc[KeyOf(i)].line = i
                        \/ open' # NoArray' /\ open'.key = KeyOf(i) /\ open'.line = i
      BY <1>5, <2>1 DEF KeysTaken
    <3> QED
      BY <1>3, <1>4, <1>5, <2>1, <2>2
  <2> QED
    BY <1>1, <2>1, <2>5, <2>6, ReadsStep, Undisturbed, NothingHanded DEF Inv, Placed
<1>7. CASE v.form # "open"
  <2>1. doc' = Set(doc, key, new) /\ UNCHANGED open
    BY <1>7 DEF Setting
  <2>2. key \notin DOMAIN doc
    BY <1>1, <1>7, ReadsStep, FitsThere
  <2>3. /\ DOMAIN doc' = DOMAIN doc \cup {key} /\ doc'[key] = new
        /\ \A k \in DOMAIN doc : doc'[k] = doc[k]
    BY <2>1, <2>2 DEF Set
  <2>4. new = Value(new.kind, new.line, new.n, new.arr) /\ new.line = at
    BY DEF Value
  <2> HIDE DEF new, key, v
  <2>5. FromLines'
    <3> SUFFICES ASSUME NEW k \in DOMAIN doc \cup {key}
                 PROVE  /\ doc'[k] = Value(doc'[k].kind, doc'[k].line, doc'[k].n, doc'[k].arr)
                        /\ doc'[k].line \in Lines("key") /\ doc'[k].line < at'
      BY <1>5, <2>3 DEF FromLines, Value
    <3>1. CASE k = key
      BY <3>1, <1>5, <2>3, <2>4
    <3>2. CASE k \in DOMAIN doc
      <4>1. doc[k] = Value(doc[k].kind, doc[k].line, doc[k].n, doc[k].arr)
        BY <3>2 DEF Inv, Placed, FromLines
      <4>2. doc[k].line \in Lines("key") /\ doc[k].line < at'
        <5>1. doc[k].line \in Lines("key") /\ doc[k].line < at
          BY <3>2, <1>4
        <5>2. doc[k].line \in Nat
          BY <5>1, <1>5
        <5> QED
          BY <5>1, <5>2, <1>5
      <4> QED
        BY <3>2, <4>1, <4>2, <2>3
    <3> QED
      BY <3>1, <3>2
  <2>6. KeysTaken'
    <3> SUFFICES ASSUME NEW i \in Lines("key"), i < at'
                 PROVE  KeyOf(i) \in DOMAIN doc' /\ doc'[KeyOf(i)].line = i
      BY <1>5 DEF KeysTaken
    <3> QED
      BY <1>3, <1>4, <1>5, <2>3, <2>4
  <2> QED
    BY <1>1, <2>1, <2>5, <2>6, ReadsStep, Undisturbed, NothingHanded DEF Inv, Placed
<1> QED
  BY <1>6, <1>7

LEMMA ElementInv == ASSUME Inv, Element PROVE Inv'
<1>1. Reads("item") /\ UNCHANGED <<section, doc>>
  BY DEF Element
<1>2. open # NoArray /\ OpenSince /\ KeysTaken /\ ItemsTaken
  BY <1>1, ReadsStep, FitsThere DEF Inv, Placed
<1>3. /\ open' = [key |-> open.key, line |-> open.line, arr |-> open'.arr]
      /\ open'.key = open.key /\ open'.line = open.line
  BY <1>2 DEF Element, OpenSince
<1>4. open.line \in Nat \ {0}
  BY <1>1, <1>2, ReadsStep DEF OpenSince, Arrays, Lines, Inv, Begun
<1>5. open' # NoArray'
  <2>1. open'.line = open.line /\ NoArray'.line = 0
    BY <1>3 DEF NoArray
  <2> QED
    BY <2>1, <1>4
<1>6. /\ at' = at + 1 /\ at \in Nat
      /\ \A e \in Lines("close") : e \in Nat /\ ~ (e < at' /\ ~ (e < at))
      /\ \A i \in Lines("key") : i < at' => i < at
      /\ \A j \in Lines("item") : j < at' => j < at \/ j = at
      /\ at \in Lines("item")
  BY <1>1, ReadsStep
<1>7. /\ Lines("key")' = Lines("key") /\ \A i : KeyOf(i)' = KeyOf(i)
      /\ Lines("close")' = Lines("close") /\ Lines("item")' = Lines("item")
      /\ Arrays' = Arrays /\ \A i : Elements(i)' = Elements(i)
  BY <1>1, ReadsStep, SameFile
<1>8. \A e \in Lines("close") : open.line < e => at < e
  BY <1>2, <1>6 DEF OpenSince
<1>9. OpenSince'
  <2>1. \A e \in Lines("close") : open.line < e => at' <= e
    BY <1>6, <1>8
  <2>2. open.line \in Arrays /\ open.line < at'
    BY <1>2, <1>4, <1>6 DEF OpenSince
  <2> QED
    BY <1>3, <1>7, <2>1, <2>2 DEF OpenSince
<1>10. KeysTaken'
  BY <1>1, <1>2, <1>3, <1>5, <1>6, <1>7 DEF KeysTaken
<1>11. ItemsTaken'
  <2>1. open.line \in Arrays /\ at \in Elements(open.line)
    BY <1>2, <1>6, <1>8 DEF OpenSince, Elements
  <2> QED
    BY <1>2, <1>6, <1>7, <2>1 DEF ItemsTaken
<1> QED
  BY <1>1, <1>9, <1>10, <1>11, ReadsStep, Undisturbed, NothingHanded DEF Inv, Placed

LEMMA CloseInv == ASSUME Inv, CloseArray PROVE Inv'
<1> DEFINE new == Value("array", open.line, 0, open.arr)
<1>1. Reads("close") /\ UNCHANGED section /\ open' = NoArray
      /\ doc' = Set(doc, open.key, new)
  BY DEF CloseArray
<1>2. open # NoArray /\ open.key \notin DOMAIN doc /\ OpenSince /\ KeysTaken /\ FromLines
  BY <1>1, ReadsStep, FitsThere DEF Inv, Placed
<1>3. /\ DOMAIN doc' = DOMAIN doc \cup {open.key} /\ doc'[open.key] = new
      /\ \A k \in DOMAIN doc : doc'[k] = doc[k]
  BY <1>1, <1>2 DEF Set
<1>4. new = Value(new.kind, new.line, new.n, new.arr) /\ new.line = open.line
  BY DEF Value
<1> HIDE DEF new
<1>5. /\ at' = at + 1 /\ at \in Nat
      /\ \A i \in Lines("key") : i \in Nat /\ (i < at' => i < at)
  BY <1>1, ReadsStep
<1>6. Lines("key")' = Lines("key") /\ \A i : KeyOf(i)' = KeyOf(i)
  BY <1>1, ReadsStep, SameFile
<1>7. FromLines'
  <2> SUFFICES ASSUME NEW k \in DOMAIN doc \cup {open.key}
               PROVE  /\ doc'[k] = Value(doc'[k].kind, doc'[k].line, doc'[k].n, doc'[k].arr)
                      /\ doc'[k].line \in Lines("key") /\ doc'[k].line < at'
    BY <1>3, <1>6 DEF FromLines, Value
  <2>1. CASE k = open.key
    <3>1. open.line \in Lines("key") /\ open.line < at
      BY <1>2 DEF OpenSince, Arrays
    <3> QED
      BY <2>1, <3>1, <1>3, <1>4, <1>5
  <2>2. CASE k \in DOMAIN doc
    BY <2>2, <1>2, <1>3, <1>5 DEF FromLines
  <2> QED
    BY <2>1, <2>2
<1>8. KeysTaken'
  <2> SUFFICES ASSUME NEW i \in Lines("key"), i < at'
               PROVE  KeyOf(i) \in DOMAIN doc' /\ doc'[KeyOf(i)].line = i
    BY <1>6 DEF KeysTaken
  <2>1. \/ KeyOf(i) \in DOMAIN doc /\ doc[KeyOf(i)].line = i
        \/ open.key = KeyOf(i) /\ open.line = i
    BY <1>2, <1>5 DEF KeysTaken
  <2> QED
    BY <1>3, <1>4, <2>1
<1>9. OpenSince'
  BY <1>1 DEF OpenSince, NoArray
<1> QED
  BY <1>1, <1>7, <1>8, <1>9, ReadsStep, Undisturbed, NothingHanded DEF Inv, Placed

-----------------------------------------------------------------------------
(* The end of the file, and the two passes *)

\* What only the lines that are read can disturb.
LEMMA NoLineRead ==
  ASSUME Inv, UNCHANGED <<file, at, section, open, doc>>
  PROVE  Begun' /\ Placed'
<1>1. Begun'
  BY DEF Inv, Begun
<1>2. /\ \A what : Lines(what)' = Lines(what) /\ \A i : KeyOf(i)' = KeyOf(i)
      /\ Arrays' = Arrays /\ \A i : Elements(i)' = Elements(i)
  BY SameFile
<1>3. Under'
  <2>1. Above(at)' = Above(at)
    BY DEF Above, Lines
  <2> QED
    BY <2>1 DEF Inv, Placed, Under, SectionOf
<1>4. FromLines'
  BY <1>2 DEF Inv, Placed, FromLines, Value
<1>5. UNCHANGED NoArray
  BY DEF NoArray, Key
<1>6. KeysTaken' /\ OpenSince' /\ ItemsTaken'
  BY <1>2, <1>5 DEF Inv, Placed, KeysTaken, OpenSince, ItemsTaken
<1> QED
  BY <1>1, <1>3, <1>4, <1>6 DEF Placed

LEMMA RefusalInv == ASSUME Inv, RefuseLine PROVE Inv'
<1>1. UNCHANGED <<file, at, section, open, doc, config>> /\ outcome' = "refused"
  BY DEF RefuseLine
<1>2. Handed'
  BY <1>1 DEF Inv, Handed
<1> QED
  BY <1>1, <1>2, NoLineRead DEF Inv

LEMMA EndInv == ASSUME Inv, EndOfFile PROVE Inv'
<1>1. /\ UNCHANGED <<file, at, section, open, doc, config>>
      /\ outcome = "reading" /\ at > Len(file)
      /\ outcome' = IF open = NoArray THEN "parsed" ELSE "refused"
  BY DEF EndOfFile
<1>2. at = Len(file) + 1
  BY <1>1 DEF Inv, Begun
<1>3. UNCHANGED NoArray
  BY DEF NoArray, Key
<1>4. Handed'
  BY <1>1, <1>2, <1>3 DEF Inv, Handed
<1> QED
  BY <1>1, <1>4, NoLineRead DEF Inv

LEMMA LoadInv == ASSUME Inv, LoadConfig PROVE Inv'
<1>1. UNCHANGED <<file, at, section, open, doc>> /\ outcome = "parsed"
  BY DEF LoadConfig
<1>2. UNCHANGED NoArray
  BY DEF NoArray, Key
<1>3. CASE ~ Complete
  <2>1. Handed'
    BY <1>1, <1>2, <1>3 DEF LoadConfig, Inv, Handed
  <2> QED
    BY <1>1, <2>1, NoLineRead DEF Inv
<1>4. CASE Complete
  <2>0. Known /\ outcome' = "assigned" /\ config' = Assigned
    BY <1>4 DEF LoadConfig, Complete
  <2>1. DOMAIN config' = DOMAIN doc /\ DOMAIN config' \subseteq DOMAIN configKeys
    BY <2>0 DEF Known, Assigned
  <2>2. \A k \in DOMAIN doc : config'[k].line = doc[k].line
    <3>1. \A k \in DOMAIN doc :
            doc[k] = [kind |-> doc[k].kind, line |-> doc[k].line,
                      n |-> doc[k].n, arr |-> doc[k].arr]
      BY DEF Inv, Placed, FromLines, Value
    <3> QED
      BY <2>0, <2>1, <3>1 DEF Assigned
  <2>3. UNCHANGED configKeys
    BY DEF configKeys, Key
  <2>4. Handed'
    BY <1>1, <1>2, <2>0, <2>1, <2>2, <2>3 DEF Inv, Handed
  <2> QED
    BY <1>1, <2>4, NoLineRead DEF Inv
<1> QED
  BY <1>3, <1>4

LEMMA ValidateInv == ASSUME Inv, Validate PROVE Inv'
<1>1. /\ UNCHANGED <<file, at, section, open, doc, config>>
      /\ outcome = "assigned" /\ outcome' \in {"loaded", "refused"}
  BY DEF Validate
<1>2. UNCHANGED NoArray /\ UNCHANGED configKeys
  BY DEF NoArray, Key, configKeys
<1>3. Handed'
  BY <1>1, <1>2 DEF Inv, Handed
<1> QED
  BY <1>1, <1>3, NoLineRead DEF Inv

LEMMA NextInv == Inv /\ [Next]_vars => Inv'
<1> SUFFICES ASSUME Inv, [Next]_vars PROVE Inv'
  OBVIOUS
<1>1. CASE UNCHANGED vars
  <2>1. UNCHANGED <<file, at, section, open, doc, config, outcome>>
    BY <1>1 DEF vars
  <2>2. UNCHANGED NoArray /\ UNCHANGED configKeys
    BY DEF NoArray, Key, configKeys
  <2>3. Handed'
    BY <2>1, <2>2 DEF Inv, Handed
  <2> QED
    BY <2>1, <2>3, NoLineRead DEF Inv
<1>2. CASE Next
  BY <1>2, BlankInv, HeaderInv, SettingInv, ElementInv, CloseInv, RefusalInv, EndInv,
     LoadInv, ValidateInv DEF Next
<1> QED
  BY <1>1, <1>2

-----------------------------------------------------------------------------
(* The lists of a file                                                        *)

\* The elements between the line i of an array and the line p, and their order.
Gathered(i, p) == {j \in Lines("item") : i < j /\ j < p}
Rank(i, p, j) == Cardinality({g \in Gathered(i, p) : g <= j})
Text(j) == file[j].value.text
Readings == {ReadString(Text(j)) : j \in DOMAIN file}

\* That arr is what the elements between i and p say, in their order.
Lists(i, p, arr) ==
  /\ arr \in Seq(Readings) /\ Len(arr) = Cardinality(Gathered(i, p))
  /\ \A j \in Gathered(i, p) :
       /\ Rank(i, p, j) \in 1..Len(arr)
       /\ ~ Unreadable(Text(j)) /\ arr[Rank(i, p, j)] = ReadString(Text(j))
  /\ \A n \in 1..Len(arr) : \E j \in Gathered(i, p) : Rank(i, p, j) = n
  /\ \A j, g \in Gathered(i, p) : Rank(i, p, j) = Rank(i, p, g) => j = g

\* What a line of a file can be.
LEMMA LineTypes ==
  ASSUME Begun
  PROVE  /\ \A i \in Lines("header") : file[i].name # ""
         /\ \A i \in Lines("key") :
              /\ file[i].value.form \in {"open", "junk", "text", "int", "float"}
              /\ file[i].value.form = "text" => Text(i) \in Seq(STRING)
              /\ file[i].value.form \in {"int", "float"} => file[i].value.n \in Int
         /\ \A i \in Lines("item") : file[i].value.form = "text" /\ Text(i) \in Seq(STRING)
         /\ \A what : \A i \in Lines(what) : i \in DOMAIN file /\ i \in Nat /\ file[i].is = what
         /\ \A i \in DOMAIN file : /\ i \in Nat /\ i \in Lines(file[i].is)
                                   /\ file[i].is \in {"blank", "close", "junk", "header", "key", "item"}
<1>1. \A i \in DOMAIN file : IsLine(file[i]) /\ i \in Nat
  <2>1. \A i \in DOMAIN file : IsLine(file[i])
    BY FilesAssumption DEF Begun
  <2> QED BY <2>1 DEF Begun
<1>2. \A what : \A i \in Lines(what) : i \in DOMAIN file /\ i \in Nat /\ file[i].is = what
  BY <1>1 DEF Lines
<1>3. \A i \in DOMAIN file : file[i].is \in {"blank", "close", "junk", "header", "key", "item"}
  BY <1>1 DEF IsLine
<1>4. \A i \in Lines("header") : file[i].name # ""
  BY <1>1, <1>2 DEF IsLine
<1>5. \A i \in Lines("key") : IsValue(file[i].value)
  BY <1>1, <1>2 DEF IsLine
<1>6. \A i \in Lines("item") : file[i].value.form = "text" /\ Text(i) \in Seq(STRING)
  BY <1>1, <1>2 DEF IsLine, Text
<1>7. \A i \in Lines("key") :
        /\ file[i].value.form \in {"open", "junk", "text", "int", "float"}
        /\ file[i].value.form = "text" => Text(i) \in Seq(STRING)
        /\ file[i].value.form \in {"int", "float"} => file[i].value.n \in Int
  BY <1>5 DEF IsValue, Text
<1>8. \A i \in DOMAIN file : i \in Lines(file[i].is)
  BY DEF Lines
<1> QED BY <1>1, <1>2, <1>3, <1>4, <1>6, <1>7, <1>8

LEMMA GatheredType ==
  ASSUME Begun, NEW i \in Nat, NEW p \in Nat
  PROVE  IsFiniteSet(Gathered(i, p)) /\ Gathered(i, p) \in SUBSET (i + 1..p - 1)
<1>1. Gathered(i, p) \in SUBSET (i + 1..p - 1)
  <2>1. \A j \in Lines("item") : j \in Nat
    BY LineTypes
  <2> QED BY <2>1 DEF Gathered
<1>2. IsFiniteSet(i + 1..p - 1)
  BY FS_Interval
<1> QED BY <1>1, <1>2, FS_Subset

\* A list grows by the element on the next line.
LEMMA ListGrows ==
  ASSUME Begun, NEW i \in Nat, NEW p \in Lines("item"), i < p, NEW arr, Lists(i, p, arr),
         ~ Unreadable(Text(p))
  PROVE  Lists(i, p + 1, Append(arr, ReadString(Text(p))))
<1> DEFINE G == Gathered(i, p)
           H == Gathered(i, p + 1)
           r == ReadString(Text(p))
           new == Append(arr, r)
<1>0. p \in Nat /\ p \in DOMAIN file /\ \A j \in Lines("item") : j \in Nat
  BY LineTypes
<1>1. H = G \cup {p} /\ p \notin G /\ \A j \in G : j \in Nat /\ j < p
  <2>1. \A j \in Lines("item") : j < p + 1 <=> j < p \/ j = p
    BY <1>0
  <2>2. ~ (p < p) /\ p < p + 1
    BY <1>0
  <2> QED BY <1>0, <2>1, <2>2 DEF Gathered
<1>2. IsFiniteSet(G)
  BY <1>0, GatheredType
<1> HIDE DEF G, H
<1>3. Cardinality(H) = Cardinality(G) + 1 /\ Cardinality(G) \in Nat
  BY <1>1, <1>2, FS_AddElement, FS_CardinalityType
<1>4. PICK n \in Nat : n = Len(arr) /\ n = Cardinality(G)
  BY <1>3 DEF Lists, G
<1>5. arr \in Seq(Readings) /\ r \in Readings
  BY <1>0 DEF Lists, Readings
<1>6. new \in Seq(Readings) /\ Len(new) = n + 1 /\ new[n + 1] = r
      /\ \A k \in 1..n : new[k] = arr[k]
  <2> HIDE DEF r
  <2> DEFINE S == Readings
  <2>0. arr \in Seq(S) /\ r \in S
    BY <1>5
  <2> HIDE DEF S
  <2>1. new \in Seq(S) /\ Len(new) = Len(arr) + 1
    BY <2>0, AppendProperties
  <2>2. new[Len(arr) + 1] = r
    BY <2>0, AppendProperties
  <2>3. \A k \in 1..Len(arr) : new[k] = arr[k]
    BY <2>0, AppendProperties
  <2>4. new \in Seq(Readings)
    BY <2>1 DEF S
  <2> HIDE DEF new
  <2> QED BY <1>4, <2>1, <2>2, <2>3, <2>4
<1>7. Rank(i, p + 1, p) = n + 1
  <2>1. {g \in H : g <= p} = H
    BY <1>0, <1>1
  <2> QED BY <1>3, <1>4, <2>1 DEF Rank, H
<1>8. \A j \in G : Rank(i, p + 1, j) = Rank(i, p, j)
  <2> SUFFICES ASSUME NEW j \in G PROVE Rank(i, p + 1, j) = Rank(i, p, j)
    OBVIOUS
  <2>1. ~ (p <= j)
    BY <1>0, <1>1
  <2>2. {g \in H : g <= j} = {g \in G : g <= j}
    BY <1>1, <2>1
  <2> QED BY <2>2 DEF Rank, G, H
<1>9. /\ \A j \in G : /\ Rank(i, p, j) \in 1..n
                      /\ ~ Unreadable(Text(j)) /\ arr[Rank(i, p, j)] = ReadString(Text(j))
      /\ \A k \in 1..n : \E j \in G : Rank(i, p, j) = k
      /\ \A j, g \in G : Rank(i, p, j) = Rank(i, p, g) => j = g
  BY <1>4 DEF Lists, G
<1> HIDE DEF new, r
<1>10. \A j \in H : /\ Rank(i, p + 1, j) \in 1..n + 1
                    /\ ~ Unreadable(Text(j)) /\ new[Rank(i, p + 1, j)] = ReadString(Text(j))
  <2> SUFFICES ASSUME NEW j \in H
               PROVE  /\ Rank(i, p + 1, j) \in 1..n + 1
                      /\ ~ Unreadable(Text(j)) /\ new[Rank(i, p + 1, j)] = ReadString(Text(j))
    OBVIOUS
  <2>1. CASE j = p
    <3>1. n + 1 \in 1..n + 1
      OBVIOUS
    <3> QED BY <1>6, <1>7, <2>1, <3>1 DEF r
  <2>2. CASE j \in G
    <3>1. PICK k \in 1..n : k = Rank(i, p, j) /\ k = Rank(i, p + 1, j)
      BY <1>8, <1>9, <2>2
    <3>2. arr[k] = ReadString(Text(j)) /\ ~ Unreadable(Text(j))
      BY <1>9, <2>2, <3>1
    <3>3. k \in 1..n + 1
      OBVIOUS
    <3>4. new[k] = ReadString(Text(j))
      BY <1>6, <3>2
    <3> QED BY <3>1, <3>2, <3>3, <3>4
  <2> QED BY <1>1, <2>1, <2>2
<1>11. \A k \in 1..n + 1 : \E j \in H : Rank(i, p + 1, j) = k
  <2> SUFFICES ASSUME NEW k \in 1..n + 1 PROVE \E j \in H : Rank(i, p + 1, j) = k
    OBVIOUS
  <2>1. CASE k = n + 1
    BY <1>1, <1>7, <2>1
  <2>2. CASE k # n + 1
    <3>1. k \in 1..n
      BY <2>2
    <3>2. PICK j \in G : Rank(i, p, j) = k
      BY <1>9, <3>1
    <3> QED BY <1>1, <1>8, <3>2
  <2> QED BY <2>1, <2>2
<1>12. \A j, g \in H : Rank(i, p + 1, j) = Rank(i, p + 1, g) => j = g
  <2>1. \A j \in G : Rank(i, p + 1, j) # n + 1
    <3>1. \A k \in 1..n : k # n + 1
      OBVIOUS
    <3> QED BY <1>8, <1>9, <3>1
  <2>2. \A j, g \in G : Rank(i, p + 1, j) = Rank(i, p + 1, g) => j = g
    BY <1>8, <1>9
  <2> QED BY <1>1, <1>7, <2>1, <2>2
<1>13. Len(new) = Cardinality(H) /\ 1..Len(new) = 1..n + 1
  BY <1>3, <1>4, <1>6
<1> QED BY <1>6, <1>10, <1>11, <1>12, <1>13 DEF Lists, H, new, r

\* Any other line adds nothing to it.
LEMMA ListStays ==
  ASSUME Begun, NEW i \in Nat, NEW p \in Nat, p \notin Lines("item"), NEW arr, Lists(i, p, arr)
  PROVE  Lists(i, p + 1, arr)
<1>1. Gathered(i, p + 1) = Gathered(i, p)
  <2>1. \A j \in Lines("item") : j \in Nat /\ j # p
    BY LineTypes
  <2> QED BY <2>1 DEF Gathered
<1>2. \A j : Rank(i, p + 1, j) = Rank(i, p, j)
  BY <1>1 DEF Rank
<1> QED BY <1>1, <1>2, Zenon DEF Lists

LEMMA EmptyList ==
  ASSUME Begun, NEW i \in Nat
  PROVE  Lists(i, i + 1, <<>>)
<1>1. Gathered(i, i + 1) = {}
  <2>1. \A j \in Lines("item") : j \in Nat
    BY LineTypes
  <2> QED BY <2>1 DEF Gathered
<1>2. <<>> \in Seq(Readings) /\ Len(<<>>) = 0
  BY EmptySeq
<1>3. 1..0 = {} /\ Cardinality({}) = 0
  BY FS_EmptySet
<1> QED BY <1>1, <1>2, <1>3 DEF Lists

\* Up to the first ] below it a list holds the elements of its array.
LEMMA ListedElements ==
  ASSUME Begun, NEW i \in Lines("key"), NEW e \in Lines("close"), Ends(i, e)
  PROVE  Elements(i) = Gathered(i, e)
<1>1. /\ i \in Nat /\ e \in Nat /\ i < e
      /\ \A j \in i + 1..e - 1 : file[j].is \in {"blank", "item"}
  BY LineTypes DEF Ends
<1>2. \A c \in Lines("close") : c \in Nat /\ file[c].is = "close"
  BY LineTypes
<1>3. \A c \in Lines("close") : i < c => e <= c
  <2> SUFFICES ASSUME NEW c \in Lines("close"), i < c, ~ (e <= c) PROVE FALSE
    OBVIOUS
  <2>1. c \in i + 1..e - 1
    BY <1>1, <1>2
  <2> QED BY <1>1, <1>2, <2>1
<1>4. \A j \in Lines("item") : j \in Nat
  BY LineTypes
<1>5. ASSUME NEW j \in Lines("item"), i < j
      PROVE  (\A c \in Lines("close") : i < c => j < c) <=> j < e
  <2>1. (\A c \in Lines("close") : i < c => j < c) => j < e
    BY <1>1
  <2>2. ASSUME j < e, NEW c \in Lines("close"), i < c PROVE j < c
    <3>1. e <= c /\ c \in Nat /\ j \in Nat
      BY <1>2, <1>3, <1>4, <2>2
    <3> QED BY <1>1, <2>2, <3>1
  <2> QED BY <2>1, <2>2
<1> QED BY <1>5 DEF Elements, Gathered

-----------------------------------------------------------------------------
(* What is read so far                                                        *)

\* That v is the value of the key line i.
Carries(v, i) ==
  /\ file[i].value.form = "text" =>
       v.kind = "string" /\ v.arr = ReadString(Text(i)) /\ ~ Unreadable(Text(i))
  /\ file[i].value.form \in {"int", "float"} =>
       v.kind = file[i].value.form /\ v.n = file[i].value.n
  /\ file[i].value.form = "open" =>
       v.kind = "array" /\ \E e \in Lines("close") : Ends(i, e) /\ Lists(i, e, v.arr)

\* The lines that are read are where they may be.
Shaped ==
  \A j \in DOMAIN file : j < at =>
    /\ file[j].is # "junk"
    /\ j \in Lines("key") => Above(j) # {} /\ file[j].value.form # "junk"
    /\ j \in Lines("close") => \E i \in Arrays : Ends(i, j)

\* That the array on line i, if there is one, is behind.
Over(i) ==
  file[i].value.form = "open" => \E e \in Lines("close") : i < e /\ e < at

\* Every key that is set is set to what its line says.
DocCarries ==
  \A k \in DOMAIN doc :
    /\ KeyOf(doc[k].line) = k
    /\ Carries(doc[k], doc[k].line)
    /\ Over(doc[k].line)

\* The array being read holds what stands in it so far.
OpenLists ==
  open # NoArray =>
    /\ KeyOf(open.line) = open.key /\ Lists(open.line, at, open.arr)
    /\ \A j \in open.line + 1..at - 1 : file[j].is \in {"blank", "item"}

\* What the passes have found, and what a file was refused for.
Found ==
  /\ outcome \in {"assigned", "loaded"} => Complete /\ config = Assigned
  /\ outcome = "loaded" => Valid
  /\ outcome = "refused" =>
       \/ at \in DOMAIN file /\ ~ Fits(file[at])
       \/ /\ at = Len(file) + 1
          /\ \/ open # NoArray
             \/ open = NoArray /\ ~ Complete
             \/ open = NoArray /\ Complete /\ config = Assigned /\ ~ Valid

Values == Shaped /\ DocCarries /\ OpenLists /\ Found

LEMMA SameLists ==
  ASSUME UNCHANGED file
  PROVE  /\ \A i, p, arr : Lists(i, p, arr)' <=> Lists(i, p, arr)
         /\ \A i, e : Ends(i, e)' <=> Ends(i, e)
         /\ \A v, i : Carries(v, i)' <=> Carries(v, i)
         /\ \A i : Above(i)' = Above(i)
<1>1. \A what : Lines(what)' = Lines(what)
  BY SameFile
<1>2. \A i, p : Gathered(i, p)' = Gathered(i, p)
  BY <1>1 DEF Gathered
<1>3. \A i, p, j : Rank(i, p, j)' = Rank(i, p, j)
  BY <1>2 DEF Rank
<1>4. (\A j : Text(j)' = Text(j)) /\ Readings' = Readings
  BY DEF Text, Readings
<1>5. \A i, p, arr : Lists(i, p, arr)' <=> Lists(i, p, arr)
  BY <1>2, <1>3, <1>4 DEF Lists
<1>6. \A i, e : Ends(i, e)' <=> Ends(i, e)
  BY DEF Ends
<1>7. \A v, i : Carries(v, i)' <=> Carries(v, i)
  BY <1>1, <1>4, <1>5, <1>6 DEF Carries
<1>8. \A i : Above(i)' = Above(i)
  BY <1>1 DEF Above
<1> QED BY <1>5, <1>6, <1>7, <1>8

LEMMA StillOver ==
  ASSUME Begun, UNCHANGED file, at' \in {at, at + 1}
  PROVE  \A i : Over(i) => Over(i)'
<1>1. at \in Nat /\ \A e \in Lines("close") : e \in Nat
  <2>1. at \in Nat
    BY DEF Begun
  <2> QED BY <2>1, LineTypes
<1>2. Lines("close")' = Lines("close")
  BY SameFile
<1>3. \A e \in Lines("close") : e < at => e < at'
  BY <1>1
<1> QED BY <1>2, <1>3 DEF Over

LEMMA InitValues == ASSUME Init, Inv PROVE Values
<1>1. at = 1 /\ doc = <<>> /\ open = NoArray /\ outcome = "reading" /\ DOMAIN doc = {}
  BY NoDomain DEF Init
<1>2. \A j \in DOMAIN file : ~ (j < at)
  BY <1>1 DEF Inv, Begun
<1> QED BY <1>1, <1>2 DEF Values, Shaped, DocCarries, OpenLists, Found

-----------------------------------------------------------------------------
(* One line                                                                   *)

\* What every line that is read leaves.
LEMMA ReadsValues ==
  ASSUME Inv, Values, NEW what, Reads(what)
  PROVE  /\ Found'
         /\ UNCHANGED doc => DocCarries'
         /\ /\ what \notin {"junk", "close"}
            /\ what = "key" => Above(at) # {} /\ file[at].value.form # "junk"
            => Shaped'
         /\ /\ what = "blank"
            /\ UNCHANGED open
            => OpenLists'
         /\ open = NoArray /\ UNCHANGED open => OpenLists'
<1>1. /\ at \in DOMAIN file /\ at \in Nat /\ at' = at + 1 /\ file[at].is = what
      /\ UNCHANGED file /\ outcome' = "reading" /\ at \in Lines(what)
  BY ReadsStep
<1>2. Found'
  BY <1>1 DEF Found
<1>3. UNCHANGED doc => DocCarries'
  <2> SUFFICES ASSUME UNCHANGED doc, NEW k \in DOMAIN doc
               PROVE  (KeyOf(doc[k].line) = k /\ Carries(doc[k], doc[k].line) /\ Over(doc[k].line))'
    BY DEF DocCarries
  <2>1. PICK w, l : w = doc[k] /\ l = w.line
    OBVIOUS
  <2>2. KeyOf(l) = k /\ Carries(w, l) /\ Over(l)
    BY <2>1 DEF Values, DocCarries
  <2>3. KeyOf(l)' = k /\ Carries(w, l)' /\ Over(l)'
    BY <1>1, <2>2, SameFile, SameLists, StillOver DEF Inv
  <2> QED BY <2>1, <2>3
<1>4. ASSUME what \notin {"junk", "close"},
             what = "key" => Above(at) # {} /\ file[at].value.form # "junk"
      PROVE  Shaped'
  <2> SUFFICES ASSUME NEW j \in DOMAIN file, j < at'
               PROVE  /\ file[j].is # "junk"
                      /\ j \in Lines("key") => Above(j) # {} /\ file[j].value.form # "junk"
                      /\ j \in Lines("close") => \E i \in Arrays : Ends(i, j)
    BY <1>1, SameFile, SameLists DEF Shaped
  <2>1. CASE j = at
    BY <1>1, <1>4, <2>1 DEF Lines
  <2>2. CASE j # at
    <3>1. j < at
      BY <1>1, <2>2 DEF Inv, Begun
    <3> QED BY <3>1 DEF Values, Shaped
  <2> QED BY <2>1, <2>2
<1>5. ASSUME what = "blank", UNCHANGED open PROVE OpenLists'
  <2>1. UNCHANGED NoArray
    BY DEF NoArray, Key
  <2>2. CASE open = NoArray
    BY <1>5, <2>1, <2>2 DEF OpenLists
  <2>3. CASE open # NoArray
    <3>0. PICK i \in Nat : i = open.line
      BY <1>1, <2>3, ReadsStep DEF Inv, Placed, OpenSince, Arrays
    <3>1. PICK arr : arr = open.arr
      OBVIOUS
    <3>2. /\ KeyOf(i) = open.key /\ Lists(i, at, arr)
          /\ \A j \in i + 1..at - 1 : file[j].is \in {"blank", "item"}
      BY <2>3, <3>0, <3>1 DEF Values, OpenLists
    <3>3. at \notin Lines("item") /\ Begun
      BY <1>1, <1>5 DEF Lines, Inv
    <3>4. PICK p \in Nat : p = at + 1 /\ Lists(i, p, arr)
      BY <1>1, <3>2, <3>3, ListStays
    <3>5. \A j \in i + 1..at : file[j].is \in {"blank", "item"}
      <4>1. \A j \in i + 1..at : j \in i + 1..at - 1 \/ j = at
        BY <1>1
      <4> QED BY <1>1, <1>5, <3>2, <4>1
    <3>6. at' - 1 = at
      BY <1>1
    <3>7. \A j : KeyOf(j)' = KeyOf(j)
      BY <1>1, SameFile
    <3>8. at' = p /\ Lists(i, p, arr)'
      BY <1>1, <3>4, SameLists
    <3>9. open' = open /\ open'.line = i /\ open'.arr = arr /\ open'.key = KeyOf(i)' /\ file' = file
      BY <1>1, <1>5, <3>0, <3>1, <3>2, <3>7
    <3>10. Lists(open.line, at, open.arr)'
      BY <1>1, <3>8, <3>9
    <3>11. KeyOf(open.line)' = open'.key
      BY <3>9
    <3> QED BY <3>5, <3>6, <3>9, <3>10, <3>11 DEF OpenLists
  <2> QED BY <2>2, <2>3
<1>6. open = NoArray /\ UNCHANGED open => OpenLists'
  <2>1. UNCHANGED NoArray
    BY DEF NoArray, Key
  <2> QED BY <2>1 DEF OpenLists
<1> QED BY <1>2, <1>3, <1>4, <1>5, <1>6

\* What a line has found to be so besides.
LEMMA FitsReads ==
  ASSUME Inv, NEW l, Fits(l)
  PROVE  /\ l.is = "key" => section # "" /\ (l.value.form = "open" \/ Readable(l.value))
         /\ l.is = "item" => Readable(l.value)
         /\ l.is \in {"header", "key"} => open = NoArray
         /\ l.is # "junk"
<1>1. CASE l.is = "key"
  BY <1>1 DEF Fits
<1>2. CASE l.is = "item"
  BY <1>2 DEF Fits
<1>3. CASE l.is = "header"
  BY <1>3 DEF Fits
<1>4. CASE l.is = "junk"
  BY <1>4 DEF Fits
<1> QED BY <1>1, <1>2, <1>3, <1>4

LEMMA BlankValues == ASSUME Inv, Values, BlankLine PROVE Values'
<1>1. Reads("blank") /\ UNCHANGED <<open, doc>>
  BY DEF BlankLine
<1> QED BY <1>1, ReadsValues DEF Values

LEMMA HeaderValues == ASSUME Inv, Values, Header PROVE Values'
<1>1. Reads("header") /\ UNCHANGED <<open, doc>>
  BY DEF Header
<1>2. open = NoArray
  BY <1>1, ReadsStep, FitsReads
<1> QED BY <1>1, <1>2, ReadsValues DEF Values

LEMMA SettingValues == ASSUME Inv, Values, Setting PROVE Values'
<1> DEFINE key == Key(section, file[at].name)
           v == file[at].value
           new == IF v.form = "text" THEN Value("string", at, 0, ReadString(v.text))
                                     ELSE Value(v.form, at, v.n, <<>>)
<1>1. Reads("key") /\ UNCHANGED section
  BY DEF Setting
<1>2. open = NoArray /\ section # "" /\ (v.form = "open" \/ Readable(v))
  BY <1>1, ReadsStep, FitsThere, FitsReads
<1>3. KeyOf(at) = key /\ SectionOf(at) # ""
  BY <1>2 DEF KeyOf, Inv, Placed, Under
<1>4. Above(at) # {}
  BY <1>3 DEF SectionOf
<1>5. /\ at' = at + 1 /\ at \in Nat /\ at \in Lines("key") /\ UNCHANGED file
      /\ \A i : KeyOf(i)' = KeyOf(i)
  BY <1>1, ReadsStep, SameFile
<1>6. v.form # "junk"
  BY <1>2 DEF Readable
<1>7. Found' /\ Shaped'
  BY <1>1, <1>4, <1>6, ReadsValues
<1>8. CASE v.form = "open"
  <2>1. open' = [key |-> key, line |-> at, arr |-> <<>>] /\ UNCHANGED doc
    BY <1>8 DEF Setting
  <2>2. PICK i \in Nat, p \in Nat : i = at /\ p = i + 1 /\ p = at' /\ p - 1 = i
    BY <1>5
  <2>3. Lists(i, p, <<>>)
    BY <2>2, EmptyList DEF Inv
  <2>4. Lists(i, p, <<>>)'
    BY <1>5, <2>3, SameLists
  <2>5. open'.line = i /\ open'.arr = <<>> /\ open'.key = KeyOf(i)' /\ at' = p
    BY <1>3, <1>5, <2>1, <2>2
  <2>6. Lists(open.line, at, open.arr)' /\ KeyOf(open.line)' = open'.key
    BY <2>4, <2>5
  <2>7. \A j \in i + 1..p - 1 : FALSE
    BY <2>2
  <2>8. OpenLists'
    BY <2>5, <2>6, <2>7 DEF OpenLists
  <2> QED BY <1>1, <1>7, <2>1, <2>8, ReadsValues DEF Values
<1>9. CASE v.form # "open"
  <2>1. doc' = Set(doc, key, new) /\ UNCHANGED open
    BY <1>9 DEF Setting
  <2>2. key \notin DOMAIN doc
    BY <1>1, <1>9, ReadsStep, FitsThere
  <2>3. /\ DOMAIN doc' = DOMAIN doc \cup {key} /\ doc'[key] = new
        /\ \A k \in DOMAIN doc : doc'[k] = doc[k]
    BY <2>1, <2>2 DEF Set
  <2>4. new.line = at /\ Carries(new, at)
    <3>1. v.form = "text" => ~ Unreadable(v.text)
      BY <1>2, <1>9 DEF Readable
    <3>2. new.line = at
      BY DEF Value
    <3>3. v.form = "text" => new.kind = "string" /\ new.arr = ReadString(v.text)
      BY DEF Value
    <3>4. v.form \in {"int", "float"} => new.kind = v.form /\ new.n = v.n
      BY DEF Value
    <3> QED BY <1>9, <3>1, <3>2, <3>3, <3>4 DEF Carries, Text
  <2> HIDE DEF new, key, v
  <2>5. DocCarries'
    <3> SUFFICES ASSUME NEW k \in DOMAIN doc'
                 PROVE  (KeyOf(doc[k].line) = k /\ Carries(doc[k], doc[k].line) /\ Over(doc[k].line))'
      BY DEF DocCarries
    <3>1. PICK w : w = doc'[k]
      OBVIOUS
    <3>2. PICK i : i = w.line
      OBVIOUS
    <3>3. KeyOf(i) = k /\ Carries(w, i) /\ Over(i)
      <4>1. CASE k = key
        <5>1. Over(at)
          BY <1>9 DEF Over, v
        <5> QED BY <1>3, <2>3, <2>4, <3>1, <3>2, <4>1, <5>1
      <4>2. CASE k \in DOMAIN doc
        BY <2>3, <3>1, <3>2, <4>2 DEF Values, DocCarries
      <4> QED BY <2>3, <4>1, <4>2
    <3>4. KeyOf(i)' = k /\ Carries(w, i)' /\ Over(i)'
      BY <1>5, <3>3, SameLists, StillOver DEF Inv
    <3> QED BY <3>1, <3>2, <3>4
  <2>6. OpenLists'
    BY <1>1, <1>2, <2>1, ReadsValues
  <2> QED BY <1>7, <2>5, <2>6 DEF Values
<1> QED BY <1>8, <1>9

LEMMA ElementValues == ASSUME Inv, Values, Element PROVE Values'
<1>1. Reads("item") /\ UNCHANGED doc /\ open # NoArray
  BY ReadsStep, FitsThere DEF Element
<1>2. /\ at' = at + 1 /\ at \in Nat /\ at \in Lines("item") /\ UNCHANGED file
      /\ file[at].is = "item" /\ Readable(file[at].value)
      /\ \A i : KeyOf(i)' = KeyOf(i)
  BY <1>1, ReadsStep, SameFile, FitsReads
<1>3. ~ Unreadable(Text(at))
  <2>1. file[at].value.form = "text"
    BY <1>2, LineTypes DEF Inv
  <2> QED BY <1>2, <2>1 DEF Readable, Text
<1>4. PICK i, arr, r : /\ i \in Nat /\ i = open.line /\ i < at
                        /\ arr = open.arr /\ r = ReadString(Text(at))
  BY <1>1, ReadsStep DEF Inv, Placed, OpenSince, Arrays
<1>5. PICK p \in Nat : p = at + 1 /\ p = at' /\ p - 1 = at
  BY <1>2
<1>6. /\ KeyOf(i) = open.key /\ Lists(i, at, arr)
      /\ \A j \in i + 1..at - 1 : file[j].is \in {"blank", "item"}
  BY <1>1, <1>4 DEF Values, OpenLists
<1>7. PICK new : new = Append(arr, r) /\ Lists(i, p, new)
  BY <1>2, <1>3, <1>4, <1>5, <1>6, ListGrows DEF Inv
<1>8. open'.key = open.key /\ open'.line = i /\ open'.arr = new
  <2>1. open = [key |-> open.key, line |-> open.line, arr |-> open.arr]
    BY DEF Inv, Placed, OpenSince
  <2>2. open' = [open EXCEPT !.arr = Append(open.arr, ReadString(Text(at)))]
    BY DEF Element, Text
  <2> QED BY <1>4, <1>7, <2>1, <2>2
<1>9. Lists(i, p, new)'
  BY <1>2, <1>7, SameLists
<1>10. \A j \in i + 1..p - 1 : file'[j].is \in {"blank", "item"}
  <2>1. \A j \in i + 1..p - 1 : j \in i + 1..at - 1 \/ j = at
    BY <1>2, <1>5
  <2> QED BY <1>2, <1>6, <2>1
<1>11. OpenLists'
  <2>1. Lists(open.line, at, open.arr)' /\ KeyOf(open.line)' = open'.key
    BY <1>2, <1>5, <1>6, <1>8, <1>9
  <2> QED BY <1>5, <1>8, <1>10, <2>1 DEF OpenLists
<1> QED BY <1>1, <1>11, ReadsValues DEF Values

LEMMA CloseValues == ASSUME Inv, Values, CloseArray PROVE Values'
<1> DEFINE new == Value("array", open.line, 0, open.arr)
<1>1. Reads("close") /\ open' = NoArray /\ doc' = Set(doc, open.key, new)
  BY DEF CloseArray
<1>2. open # NoArray /\ open.key \notin DOMAIN doc
  BY <1>1, ReadsStep, FitsThere
<1>3. /\ at' = at + 1 /\ at \in Nat /\ at \in Lines("close") /\ UNCHANGED file
      /\ at \in DOMAIN file /\ file[at].is = "close"
      /\ \A i : KeyOf(i)' = KeyOf(i)
  BY <1>1, ReadsStep, SameFile
<1>4. PICK i \in Arrays : i = open.line /\ i < at
  BY <1>1, <1>2, ReadsStep DEF Inv, Placed, OpenSince
<1>4a. PICK arr, key : arr = open.arr /\ key = open.key
  OBVIOUS
<1>5. /\ KeyOf(i) = key /\ Lists(i, at, arr) /\ Ends(i, at)
  BY <1>2, <1>4, <1>4a DEF Values, OpenLists, Ends
<1>6. new.kind = "array" /\ new.line = i /\ new.arr = arr
  BY <1>4, <1>4a DEF Value
<1>7. /\ DOMAIN doc' = DOMAIN doc \cup {key} /\ doc'[key] = new
      /\ \A k \in DOMAIN doc : doc'[k] = doc[k]
  BY <1>1, <1>2, <1>4a DEF Set
<1> HIDE DEF new
<1>8. Carries(new, i)
  <2>1. file[i].value.form = "open"
    BY DEF Arrays
  <2> QED BY <1>3, <1>5, <1>6, <2>1 DEF Carries
<1>9. DocCarries'
  <2> SUFFICES ASSUME NEW k \in DOMAIN doc'
               PROVE  (KeyOf(doc[k].line) = k /\ Carries(doc[k], doc[k].line) /\ Over(doc[k].line))'
    BY DEF DocCarries
  <2>1. PICK w : w = doc'[k]
    OBVIOUS
  <2>2. PICK l : l = w.line
    OBVIOUS
  <2>3. KeyOf(l) = k /\ Carries(w, l) /\ Over(l)'
    <3>1. CASE k = key
      <4>1. l = i /\ w = new
        BY <1>6, <1>7, <2>1, <2>2, <3>1
      <4>2. Over(i)'
        <5>1. at \in Lines("close")' /\ i < at /\ at < at'
          BY <1>3, <1>4, SameFile
        <5> QED BY <5>1 DEF Over
      <4> QED BY <1>5, <1>8, <3>1, <4>1, <4>2
    <3>2. CASE k \in DOMAIN doc
      BY <1>3, <1>7, <2>1, <2>2, <3>2, StillOver DEF Values, DocCarries, Inv
    <3> QED BY <1>7, <3>1, <3>2
  <2>4. KeyOf(l)' = k /\ Carries(w, l)' /\ Over(l)'
    BY <1>3, <2>3, SameLists
  <2> QED BY <2>1, <2>2, <2>4
<1>10. Shaped'
  <2> SUFFICES ASSUME NEW j \in DOMAIN file, j < at'
               PROVE  /\ file[j].is # "junk"
                      /\ j \in Lines("key") => Above(j) # {} /\ file[j].value.form # "junk"
                      /\ j \in Lines("close") => \E h \in Arrays : Ends(h, j)
    BY <1>3, SameFile, SameLists DEF Shaped
  <2>1. CASE j = at
    BY <1>3, <1>5, <2>1 DEF Lines
  <2>2. CASE j # at
    <3>1. j < at
      BY <1>3, <2>2 DEF Inv, Begun
    <3> QED BY <3>1 DEF Values, Shaped
  <2> QED BY <2>1, <2>2
<1>11. OpenLists'
  BY <1>1 DEF OpenLists, NoArray
<1> QED BY <1>1, <1>9, <1>10, <1>11, ReadsValues DEF Values

-----------------------------------------------------------------------------
(* The end of the file, and the two passes                                    *)

\* What only the lines that are read can disturb.
LEMMA NoLineValues ==
  ASSUME Inv, Values, UNCHANGED <<file, at, section, open, doc>>
  PROVE  /\ Shaped' /\ DocCarries' /\ OpenLists'
         /\ UNCHANGED NoArray /\ UNCHANGED Complete /\ UNCHANGED Assigned
         /\ (Fits(file[at]))' <=> Fits(file[at])
         /\ UNCHANGED config => UNCHANGED Valid
<1>1. UNCHANGED NoArray /\ UNCHANGED configKeys /\ UNCHANGED Optional
  BY DEF NoArray, Key, configKeys, Optional
<1>2. /\ \A what : Lines(what)' = Lines(what) /\ \A i : KeyOf(i)' = KeyOf(i)
      /\ Arrays' = Arrays
  BY SameFile
<1>3. Shaped'
  BY <1>2, SameLists DEF Values, Shaped
<1>4. DocCarries'
  BY <1>2, SameLists DEF Values, DocCarries, Over
<1>5. OpenLists'
  <2>1. (Lists(open.line, at, open.arr))' <=> Lists(open.line, at, open.arr)
    <3>1. PICK i, p, arr : i = open.line /\ p = at /\ arr = open.arr
      OBVIOUS
    <3>2. Lists(i, p, arr)' <=> Lists(i, p, arr)
      BY SameLists
    <3> QED BY <3>1, <3>2
  <2>2. (KeyOf(open.line))' = KeyOf(open.line)
    <3>1. PICK i : i = open.line
      OBVIOUS
    <3>2. KeyOf(i)' = KeyOf(i)
      BY <1>2
    <3> QED BY <3>1, <3>2
  <2> QED BY <1>1, <2>1, <2>2 DEF Values, OpenLists
<1>6. UNCHANGED Complete
  BY <1>1 DEF Complete, Known, RightKind
<1>7. UNCHANGED Assigned
  BY <1>1 DEF Assigned, Key
<1>8. (Fits(file[at]))' <=> Fits(file[at])
  BY <1>1 DEF Fits, Key
<1>9. UNCHANGED config => UNCHANGED Valid
  BY DEF Valid, Key
<1> QED BY <1>1, <1>3, <1>4, <1>5, <1>6, <1>7, <1>8, <1>9

LEMMA RestValues ==
  ASSUME Inv, Values, RefuseLine \/ EndOfFile \/ LoadConfig \/ Validate \/ UNCHANGED vars
  PROVE  Values'
<1>1. UNCHANGED <<file, at, section, open, doc>>
  BY DEF RefuseLine, EndOfFile, LoadConfig, Validate, vars
<1>2. Shaped' /\ DocCarries' /\ OpenLists'
  BY <1>1, NoLineValues
<1>3. UNCHANGED NoArray /\ UNCHANGED Complete /\ UNCHANGED Assigned
      /\ ((Fits(file[at]))' <=> Fits(file[at])) /\ (UNCHANGED config => UNCHANGED Valid)
  BY <1>1, NoLineValues
<1>4. /\ outcome \in {"reading", "parsed", "assigned", "loaded", "refused"}
      /\ outcome \in {"parsed", "assigned", "loaded"} => at = Len(file) + 1 /\ open = NoArray
      /\ DOMAIN file = 1..Len(file) /\ Len(file) \in Nat /\ at \in 1..Len(file) + 1
  BY DEF Inv, Handed, Begun
<1>5. ASSUME RefuseLine PROVE Found'
  <2>1. at \in DOMAIN file /\ ~ Fits(file[at]) /\ outcome' = "refused"
    BY <1>4, <1>5 DEF RefuseLine, Reading
  <2>2. (at \in DOMAIN file /\ ~ Fits(file[at]))'
    BY <1>1, <1>3, <2>1
  <2> QED BY <2>1, <2>2 DEF Found
<1>6. ASSUME EndOfFile PROVE Found'
  <2>1. at = Len(file) + 1 /\ outcome' = IF open = NoArray THEN "parsed" ELSE "refused"
    BY <1>4, <1>6 DEF EndOfFile
  <2>2. CASE open = NoArray
    BY <2>1, <2>2 DEF Found
  <2>3. CASE open # NoArray
    BY <1>1, <1>3, <2>1, <2>3 DEF Found
  <2> QED BY <2>2, <2>3
<1>7. ASSUME LoadConfig PROVE Found'
  <2>1. /\ at = Len(file) + 1 /\ open = NoArray
        /\ outcome' = IF Complete THEN "assigned" ELSE "refused"
        /\ config' = IF Complete THEN Assigned ELSE config
    BY <1>4, <1>7 DEF LoadConfig
  <2>2. CASE Complete
    BY <1>3, <2>1, <2>2 DEF Found
  <2>3. CASE ~ Complete
    BY <1>1, <1>3, <2>1, <2>3 DEF Found
  <2> QED BY <2>2, <2>3
<1>8. ASSUME Validate PROVE Found'
  <2>1. /\ at = Len(file) + 1 /\ open = NoArray /\ Complete /\ config = Assigned
        /\ outcome' = IF Valid THEN "loaded" ELSE "refused"
        /\ UNCHANGED config
    BY <1>4, <1>8 DEF Validate, Values, Found
  <2>2. UNCHANGED Valid
    BY <1>3, <2>1
  <2>3. CASE Valid
    BY <1>3, <2>1, <2>2, <2>3 DEF Found
  <2>4. CASE ~ Valid
    BY <1>1, <1>3, <2>1, <2>2, <2>4 DEF Found
  <2> QED BY <2>3, <2>4
<1>9. ASSUME UNCHANGED vars PROVE Found'
  <2>1. UNCHANGED config /\ UNCHANGED outcome
    BY <1>9 DEF vars
  <2>2. UNCHANGED Valid
    BY <1>3, <2>1
  <2> QED BY <1>1, <1>3, <2>1, <2>2 DEF Values, Found
<1> QED BY <1>2, <1>5, <1>6, <1>7, <1>8, <1>9 DEF Values

LEMMA NextValues == Inv /\ Values /\ [Next]_vars => Values'
<1> SUFFICES ASSUME Inv, Values, [Next]_vars PROVE Values'
  OBVIOUS
<1>1. CASE UNCHANGED vars \/ RefuseLine \/ EndOfFile \/ LoadConfig \/ Validate
  BY <1>1, RestValues
<1>2. CASE BlankLine \/ Header \/ Setting \/ Element \/ CloseArray
  BY <1>2, BlankValues, HeaderValues, SettingValues, ElementValues, CloseValues
<1> QED BY <1>1, <1>2 DEF Next

-----------------------------------------------------------------------------
(* A file that is read to its end                                             *)

Parsed == Inv /\ Values /\ at = Len(file) + 1 /\ open = NoArray

\* Every key line has set its key, once, to what it says.
LEMMA ParsedKeys ==
  ASSUME Parsed
  PROVE  /\ \A i \in Lines("key") :
              /\ KeyOf(i) \in DOMAIN doc /\ doc[KeyOf(i)].line = i
              /\ Carries(doc[KeyOf(i)], i)
              /\ file[i].value.form \in {"open", "text", "int", "float"}
         /\ \A k \in DOMAIN doc : \E i \in Lines("key") : KeyOf(i) = k
         /\ \A i, j \in Lines("key") : KeyOf(i) = KeyOf(j) => i = j
         /\ \A i \in Lines("key") : LineOf(KeyOf(i)) = i
<1>1. \A i \in DOMAIN file : i < at
  BY DEF Parsed, Inv, Begun
<1>2. \A what : \A i \in Lines(what) : i \in DOMAIN file /\ i < at
  BY <1>1 DEF Lines
<1>3. \A i \in Lines("key") : KeyOf(i) \in DOMAIN doc /\ doc[KeyOf(i)].line = i
  BY <1>2 DEF Parsed, Inv, Placed, KeysTaken
<1>4. \A i \in Lines("key") : Carries(doc[KeyOf(i)], i)
  BY <1>3 DEF Parsed, Values, DocCarries
<1>5. \A i \in Lines("key") : file[i].value.form \in {"open", "text", "int", "float"}
  <2>1. \A i \in Lines("key") : file[i].value.form # "junk"
    BY <1>2 DEF Parsed, Values, Shaped
  <2>2. \A i \in Lines("key") : file[i].value.form \in {"open", "junk", "text", "int", "float"}
    BY LineTypes DEF Parsed, Inv
  <2> QED BY <2>1, <2>2
<1>6. \A k \in DOMAIN doc : \E i \in Lines("key") : KeyOf(i) = k
  BY DEF Parsed, Inv, Placed, FromLines, Values, DocCarries
<1>7. \A i, j \in Lines("key") : KeyOf(i) = KeyOf(j) => i = j
  BY <1>3
<1>8. \A i \in Lines("key") : LineOf(KeyOf(i)) = i
  <2> SUFFICES ASSUME NEW i \in Lines("key") PROVE LineOf(KeyOf(i)) = i
    OBVIOUS
  <2>1. PICK k : k = KeyOf(i)
    OBVIOUS
  <2>2. LineOf(k) \in Lines("key") /\ KeyOf(LineOf(k)) = k
    BY <2>1 DEF LineOf
  <2> QED BY <1>7, <2>1, <2>2
<1> QED BY <1>3, <1>4, <1>5, <1>6, <1>7, <1>8

\* The array of a key line holds what its elements say.
Order(i, j) == Cardinality({g \in Elements(i) : g <= j})

LEMMA ParsedArrays ==
  ASSUME Parsed, NEW i \in Arrays, NEW arr, arr = doc[KeyOf(i)].arr
  PROVE  /\ Len(arr) = Cardinality(Elements(i)) /\ IsFiniteSet(Elements(i))
         /\ DOMAIN arr = 1..Len(arr)
         /\ \A j \in Elements(i) :
              /\ Order(i, j) \in 1..Len(arr)
              /\ ~ Unreadable(Text(j)) /\ arr[Order(i, j)] = ReadString(Text(j))
         /\ \A n \in 1..Len(arr) : \E j \in Elements(i) : Order(i, j) = n
         /\ \A j, g \in Elements(i) : Order(i, j) = Order(i, g) => j = g
         /\ \E e \in Lines("close") : Ends(i, e)
<1>1. i \in Lines("key") /\ file[i].value.form = "open"
  BY DEF Arrays
<1>3. PICK e \in Lines("close") : Ends(i, e) /\ Lists(i, e, arr)
  BY <1>1, ParsedKeys DEF Carries
<1>4. Elements(i) = Gathered(i, e) /\ Begun
  BY <1>1, <1>3, ListedElements DEF Parsed, Inv
<1>5. \A j : Rank(i, e, j) = Order(i, j)
  BY <1>4 DEF Rank, Order
<1>6. IsFiniteSet(Elements(i))
  <2>1. i \in Nat /\ e \in Nat
    BY <1>1, <1>4, LineTypes
  <2> QED BY <1>4, <2>1, GatheredType
<1>7. DOMAIN arr = 1..Len(arr)
  BY <1>3 DEF Lists
<1> QED BY <1>3, <1>4, <1>5, <1>6, <1>7 DEF Lists

\* What is read to its end is laid out as the grammar asks, and its strings are the
\* grammar's or the ones that reopen.
LEMMA ParsedIsLaidOut == ASSUME Parsed PROVE LaidOut
<1>1. \A i \in DOMAIN file : i < at
  BY DEF Parsed, Inv, Begun
<1>2. \A what : \A i \in Lines(what) : i \in DOMAIN file /\ i < at /\ file[i].is = what
  BY <1>1 DEF Lines
<1>3. Shaped
  BY DEF Parsed, Values
<1>4. Lines("junk") = {}
  BY <1>2, <1>3 DEF Shaped
<1>5. \A i \in Lines("key") : Above(i) # {} /\ file[i].value.form # "junk"
  BY <1>2, <1>3 DEF Shaped
<1>6. \A e \in Lines("close") : \E i \in Arrays : Ends(i, e)
  BY <1>2, <1>3 DEF Shaped
<1>7. \A j \in Lines("item") : \E i \in Arrays : j \in Elements(i)
  BY <1>2 DEF Parsed, Inv, Placed, ItemsTaken
<1>8. \A i \in Arrays : \E e \in Lines("close") : Ends(i, e)
  BY ParsedArrays
<1> QED BY <1>4, <1>5, <1>6, <1>7, <1>8, ParsedKeys DEF LaidOut

LEMMA ParsedIsSpelled == ASSUME Parsed PROVE Spelled(TRUE)
<1> SUFFICES ASSUME NEW i \in Lines("key") \cup Lines("item"), file[i].value.form = "text"
             PROVE  WrittenAt(i) # {} \/ Reopened(file[i].value.text)
  BY DEF Spelled
<1>1. ~ Unreadable(Text(i)) /\ Text(i) \in Seq(STRING)
  <2>1. CASE i \in Lines("key")
    <3>1. Text(i) \in Seq(STRING)
      BY <2>1, LineTypes DEF Parsed, Inv
    <3>2. Carries(doc[KeyOf(i)], i)
      BY <2>1, ParsedKeys
    <3> QED BY <3>1, <3>2 DEF Carries
  <2>2. CASE i \in Lines("item")
    <3>1. PICK a \in Arrays : i \in Elements(a)
      BY <2>2, ParsedIsLaidOut DEF LaidOut
    <3>2. ~ Unreadable(Text(i))
      BY <3>1, ParsedArrays
    <3> QED BY <2>2, <3>2, LineTypes DEF Parsed, Inv
  <2> QED BY <2>1, <2>2
<1>2. PICK t \in Seq(STRING) : t = file[i].value.text /\ ~ Unreadable(t)
  BY <1>1 DEF Text
<1>3. Meanings(t) # {} \/ Reopened(t)
  BY <1>2, ReadHasMeaning DEF Reopened
<1> QED BY <1>2, <1>3 DEF WrittenAt

\* The table's view of the keys is the file's.
LEMMA CompleteIsKeyed == ASSUME Parsed PROVE Complete <=> Keyed
<1> DEFINE kind(i) == CASE file[i].value.form = "text" -> "string"
                        [] file[i].value.form = "open" -> "array"
                        [] OTHER -> file[i].value.form
           fits(i) == \/ kind(i) = configKeys[KeyOf(i)]
                      \/ kind(i) = "int" /\ configKeys[KeyOf(i)] = "float"
<1>1. \A i \in Lines("key") : KeyOf(i) \in DOMAIN doc /\ doc[KeyOf(i)].kind = kind(i)
  <2> SUFFICES ASSUME NEW i \in Lines("key")
               PROVE  KeyOf(i) \in DOMAIN doc /\ doc[KeyOf(i)].kind = kind(i)
    OBVIOUS
  <2>1. KeyOf(i) \in DOMAIN doc /\ Carries(doc[KeyOf(i)], i)
        /\ file[i].value.form \in {"open", "text", "int", "float"}
    BY ParsedKeys
  <2> QED BY <2>1 DEF Carries
<1>2. \A i \in Lines("key") : RightKind(KeyOf(i)) <=> fits(i)
  <2> HIDE DEF kind
  <2> QED BY <1>1 DEF RightKind
<1> HIDE DEF kind
<1>3. DOMAIN doc = {KeyOf(i) : i \in Lines("key")}
  <2>1. \A i \in Lines("key") : KeyOf(i) \in DOMAIN doc
    BY <1>1
  <2>2. \A k \in DOMAIN doc : \E i \in Lines("key") : KeyOf(i) = k
    BY ParsedKeys
  <2> QED BY <2>1, <2>2
<1>4. Keyed <=> /\ {KeyOf(i) : i \in Lines("key")} \subseteq DOMAIN configKeys
                /\ DOMAIN configKeys \ Optional \subseteq {KeyOf(i) : i \in Lines("key")}
                /\ \A i \in Lines("key") : fits(i)
  BY DEF Keyed, kind
<1> HIDE DEF fits
<1>5. Complete <=> /\ DOMAIN doc \subseteq DOMAIN configKeys
                   /\ DOMAIN configKeys \ Optional \subseteq DOMAIN doc
                   /\ \A k \in DOMAIN doc \cap DOMAIN configKeys : RightKind(k)
  BY DEF Complete, Known
<1>6. DOMAIN doc \subseteq DOMAIN configKeys =>
        ((\A k \in DOMAIN doc \cap DOMAIN configKeys : RightKind(k))
           <=> \A i \in Lines("key") : fits(i))
  BY <1>2, <1>3
<1> QED BY <1>3, <1>4, <1>5, <1>6

-----------------------------------------------------------------------------
(* The configuration                                                          *)

timeout == Key("agent", "timeout_seconds")

\* A number of seconds becomes its duration, or does not fit.
LEMMA DurationIs ==
  ASSUME NEW n \in Int
  PROVE  /\ Duration(n) = n * Second \/ TooLong(n)
         /\ Timeout(Duration(n)) => n \in Hour \/ TooLong(n)
         /\ n \in Hour => Timeout(Duration(n))
<1>1. PICK H \in Nat \ {0}, S \in Nat \ {0} : H = Half /\ S = Second /\ 3600 * S < H
  <2>1. Half \in Nat /\ Second \in Nat \ {0} /\ 3600 * Second < Half
    BY DurationAssumption
  <2>2. 3600 * Second >= 0
    BY <2>1
  <2> QED BY <2>1, <2>2
<1>2. PICK x \in Int : x = n * S
  OBVIOUS
<1>3. x \in -H..H - 1 => (IF x % (2 * H) >= H THEN (x % (2 * H)) - 2 * H ELSE x % (2 * H)) = x
  <2>1. CASE x >= 0 /\ x < H
    <3>1. x % (2 * H) = x
      BY <2>1
    <3> QED BY <2>1, <3>1
  <2>2. CASE x < 0 /\ x >= -H
    <3>1. x % (2 * H) = x + 2 * H
      BY <2>2
    <3> QED BY <2>2, <3>1
  <2> QED BY <2>1, <2>2
<1>4. Duration(n) = IF x % (2 * H) >= H THEN (x % (2 * H)) - 2 * H ELSE x % (2 * H)
  BY <1>1, <1>2 DEF Duration
<1>5. TooLong(n) <=> x \notin -H..H - 1
  BY <1>1, <1>2 DEF TooLong
<1>6. x >= S /\ x <= 3600 * S <=> n \in Hour
  <2>1. x >= S /\ x <= 3600 * S => n >= 1 /\ n <= 3600
    BY <1>2
  <2>2. n >= 1 /\ n <= 3600 => x >= S /\ x <= 3600 * S
    BY <1>2
  <2>3. n \in Hour <=> n >= 1 /\ n <= 3600
    BY DEF Hour
  <2> QED BY <2>1, <2>2, <2>3
<1>7. n \in Hour => x \in -H..H - 1
  BY <1>1, <1>6
<1>8. Duration(n) = x \/ TooLong(n)
  BY <1>3, <1>4, <1>5
<1>9. n \in Hour => Duration(n) = x
  BY <1>3, <1>4, <1>7
<1>10. Timeout(x) <=> n \in Hour
  BY <1>1, <1>6 DEF Timeout
<1> QED BY <1>1, <1>2, <1>8, <1>9, <1>10

LEMMA AssignedIs ==
  ASSUME Parsed, Complete
  PROVE  /\ DOMAIN Assigned = DOMAIN doc
         /\ \A k \in DOMAIN doc :
              /\ Assigned[k].arr = doc[k].arr
              /\ Assigned[k].n = IF k = timeout THEN Duration(doc[k].n) ELSE doc[k].n
<1>1. DOMAIN Assigned = DOMAIN doc
  BY DEF Complete, Known, Assigned
<1>2. ASSUME NEW k \in DOMAIN doc
      PROVE  /\ Assigned[k].arr = doc[k].arr
             /\ Assigned[k].n = IF k = timeout THEN Duration(doc[k].n) ELSE doc[k].n
  <2>1. PICK v : v = doc[k] /\ v = Value(v.kind, v.line, v.n, v.arr)
    BY <1>2 DEF Parsed, Inv, Placed, FromLines
  <2>2. Assigned[k] = IF k = timeout THEN [v EXCEPT !.n = Duration(v.n)] ELSE v
    BY <1>1, <1>2, <2>1 DEF Assigned, timeout
  <2>3. [v EXCEPT !.n = Duration(v.n)].arr = v.arr /\ [v EXCEPT !.n = Duration(v.n)].n = Duration(v.n)
    BY <2>1 DEF Value
  <2> QED BY <2>1, <2>2, <2>3
<1> QED BY <1>1, <1>2

LEMMA LoadedIs ==
  ASSUME Inv, Values, outcome = "loaded"
  PROVE  Parsed /\ Complete /\ config = Assigned /\ Valid
BY DEF Inv, Values, Handed, Found, Parsed

LEMMA WrittenIsRead ==
  ASSUME Parsed, NEW i, i \in Lines("key") \cup Lines("item"), NEW t \in WrittenAt(i)
  PROVE  /\ file[i].value.form = "text" /\ ReadString(Text(i)) = t /\ ~ Unreadable(Text(i))
         /\ t \in Seq(Characters)
<1>1. file[i].value.form = "text" /\ t \in Meanings(Text(i))
  BY DEF WrittenAt, Text
<1>2. PICK x \in Seq(STRING) : x = Text(i)
  BY <1>1, LineTypes DEF Parsed, Inv
<1>3. t \in Meanings(x)
  BY <1>1, <1>2
<1> QED BY <1>1, <1>2, <1>3, MeaningIsRead, MeaningType

\* What a line says is what its key is assigned.
LEMMA AssignedSays ==
  ASSUME Parsed, Complete, NEW i \in Lines("key")
  PROVE  Says(i, Assigned[KeyOf(i)])
<1> DEFINE k == KeyOf(i)
<1>1. /\ k \in DOMAIN doc /\ Carries(doc[k], i)
      /\ file[i].value.form \in {"open", "text", "int", "float"}
  BY ParsedKeys
<1>2. PICK v, n, arr : /\ v = Assigned[k] /\ v.arr = arr /\ arr = doc[k].arr /\ n = doc[k].n
                       /\ v.n = IF k = timeout THEN Duration(n) ELSE n
  BY <1>1, AssignedIs
<1>3. WrittenAt(i) \subseteq {v.arr}
  <2> SUFFICES ASSUME NEW t \in WrittenAt(i) PROVE t = arr
    BY <1>2
  <2>1. file[i].value.form = "text" /\ ReadString(Text(i)) = t
    BY WrittenIsRead
  <2> QED BY <1>1, <1>2, <2>1 DEF Carries
<1>4. \/ file[i].value.form \notin {"int", "float"}
      \/ KeyOf(i) # Key("agent", "timeout_seconds") /\ v.n = file[i].value.n
      \/ v.n = file[i].value.n * Second \/ TooLong(file[i].value.n)
  <2> SUFFICES ASSUME file[i].value.form \in {"int", "float"}
               PROVE  \/ k # timeout /\ v.n = n
                      \/ v.n = n * Second \/ TooLong(n)
    BY <1>1, <1>2 DEF Carries, timeout
  <2>1. n \in Int
    BY <1>1, <1>2, LineTypes DEF Carries, Parsed, Inv
  <2> QED BY <1>2, <2>1, DurationIs
<1>5. i \in Arrays =>
        /\ Len(v.arr) = Cardinality(Elements(i))
        /\ \A j \in Elements(i) :
             WrittenAt(j) \subseteq {v.arr[Cardinality({g \in Elements(i) : g <= j})]}
  <2> SUFFICES ASSUME i \in Arrays
               PROVE  /\ Len(arr) = Cardinality(Elements(i))
                      /\ \A j \in Elements(i) : \A t \in WrittenAt(j) :
                           arr[Cardinality({g \in Elements(i) : g <= j})] = t
    BY <1>2
  <2>1. \A j \in Elements(i) : \A t \in WrittenAt(j) : ReadString(Text(j)) = t
    BY WrittenIsRead DEF Elements
  <2> QED BY <1>2, <2>1, ParsedArrays DEF Order
<1> QED BY <1>2, <1>3, <1>4, <1>5 DEF Says

LEMMA AsManyKeys ==
  ASSUME Parsed
  PROVE  Cardinality(DOMAIN doc) = Cardinality(Lines("key"))
<1> DEFINE f == [i \in Lines("key") |-> KeyOf(i)]
<1>1. IsFiniteSet(Lines("key"))
  <2>1. Lines("key") \in SUBSET (1..Len(file)) /\ Len(file) \in Nat
    BY DEF Parsed, Inv, Begun, Lines
  <2>2. IsFiniteSet(1..Len(file))
    BY <2>1, FS_Interval
  <2> QED BY <2>1, <2>2, FS_Subset
<1>2. \A i \in Lines("key") : KeyOf(i) \in DOMAIN doc
  BY ParsedKeys
<1>3. \A k \in DOMAIN doc : \E i \in Lines("key") : KeyOf(i) = k
  BY ParsedKeys
<1>4. \A i, j \in Lines("key") : KeyOf(i) = KeyOf(j) => i = j
  BY ParsedKeys
<1>5. f \in Bijection(Lines("key"), DOMAIN doc)
  BY <1>2, <1>3, <1>4 DEF Bijection, Injection, Surjection, IsInjective
<1> QED BY <1>1, <1>5, FS_Bijection DEF ExistsBijection

LEMMA LoadedAsWritten == ASSUME Inv, Values PROVE AsWritten
<1> SUFFICES ASSUME outcome = "loaded"
             PROVE  /\ \A i \in Lines("key") : Says(i, config[KeyOf(i)])
                    /\ Cardinality(DOMAIN config) = Cardinality(Lines("key"))
  BY DEF AsWritten
<1>1. Parsed /\ Complete /\ config = Assigned
  BY LoadedIs
<1>2. DOMAIN config = DOMAIN doc
  BY <1>1, AssignedIs
<1> QED BY <1>1, <1>2, AssignedSays, AsManyKeys

-----------------------------------------------------------------------------
(* The bounds                                                                 *)

Table(k, kind) == k \in DOMAIN configKeys /\ k \notin Optional /\ configKeys[k] = kind

LEMMA TheTable ==
  /\ Table(timeout, "int")
  /\ Table(Key("agent", "daily_job_cap"), "int")
  /\ Table(Key("agent", "max_budget_usd_per_job"), "float")
  /\ Table(Key("agent", "counter_file"), "string")
  /\ Table(Key("review", "worktrees"), "string")
  /\ Table(Key("review", "default_branch"), "string")
  /\ Table(Key("criterion", "command"), "string")
  /\ Table(Key("probes", "allowed"), "array")
BY DEF Table, timeout, configKeys, Optional, Key

\* A key of the table that must be there is on a line of its kind.
LEMMA TableKey ==
  ASSUME Parsed, Complete, NEW k, NEW kind, Table(k, kind)
  PROVE  /\ LineOf(k) \in Lines("key") /\ KeyOf(LineOf(k)) = k /\ k \in DOMAIN doc
         /\ Assigned[k].arr = doc[k].arr
         /\ Assigned[k].n = IF k = timeout THEN Duration(doc[k].n) ELSE doc[k].n
         /\ kind = "string" => /\ file[LineOf(k)].value.form = "text"
                               /\ doc[k].arr = ReadString(Text(LineOf(k)))
         /\ kind \in {"int", "float"} =>
              doc[k].n = file[LineOf(k)].value.n /\ doc[k].n \in Int
         /\ kind = "array" => LineOf(k) \in Arrays
<1>1. k \in DOMAIN doc /\ RightKind(k)
  BY DEF Table, Complete
<1>2. PICK i \in Lines("key") : KeyOf(i) = k
  BY <1>1, ParsedKeys
<1>3. i = LineOf(k) /\ Carries(doc[k], i) /\ file[i].value.form \in {"open", "text", "int", "float"}
  BY <1>2, ParsedKeys
<1>4. /\ kind = "string" => doc[k].kind = "string"
      /\ kind \in {"int", "float"} => doc[k].kind \in {"int", "float"}
      /\ kind = "array" => doc[k].kind = "array"
  BY <1>1 DEF Table, RightKind
<1>5. file[i].value.form \in {"int", "float"} => file[i].value.n \in Int
  BY <1>2, LineTypes DEF Parsed, Inv
<1>6. kind = "string" => file[i].value.form = "text" /\ doc[k].arr = ReadString(Text(i))
  BY <1>3, <1>4 DEF Carries
<1>7. kind \in {"int", "float"} => doc[k].n = file[i].value.n /\ doc[k].n \in Int
  BY <1>3, <1>4, <1>5 DEF Carries
<1>8. kind = "array" => i \in Arrays
  BY <1>2, <1>3, <1>4 DEF Carries, Arrays
<1> QED BY <1>1, <1>2, <1>3, <1>6, <1>7, <1>8, AssignedIs

\* The text of a key is what is written for it, when the grammar has it.
LEMMA TextKey ==
  ASSUME Parsed, Complete, NEW k, Table(k, "string")
  PROVE  /\ \A t \in WrittenAt(LineOf(k)) : t = Assigned[k].arr /\ t \in Seq(Characters)
         /\ Spelled(FALSE) => Assigned[k].arr \in WrittenAt(LineOf(k))
<1>1. PICK i \in Lines("key") : /\ i = LineOf(k) /\ file[i].value.form = "text"
                                /\ Assigned[k].arr = ReadString(Text(i))
  BY TableKey
<1>2. \A t \in WrittenAt(i) : ReadString(Text(i)) = t /\ t \in Seq(Characters)
  BY WrittenIsRead
<1>3. Spelled(FALSE) => WrittenAt(i) # {}
  BY <1>1 DEF Spelled
<1> QED BY <1>1, <1>2, <1>3

LEMMA TimeoutKey ==
  ASSUME Parsed, Complete, NEW n \in Int, n = file[LineOf(timeout)].value.n
  PROVE  /\ Timeout(Assigned[timeout].n) => n \in Hour \/ TooLong(n)
         /\ n \in Hour => Timeout(Assigned[timeout].n)
<1>1. Table(timeout, "int")
  BY TheTable
<1>2. Assigned[timeout].n = Duration(n)
  BY <1>1, TableKey
<1>3. /\ Timeout(Duration(n)) => n \in Hour \/ TooLong(n)
      /\ n \in Hour => Timeout(Duration(n))
  BY DurationIs
<1> QED BY <1>2, <1>3

\* The probes of the array are the elements of the file.
SoundProbes ==
  LET probes == Elements(LineOf(Key("probes", "allowed")))
  IN /\ probes # {}
     /\ \A j \in probes : \A t \in WrittenAt(j) :
          /\ t # <<>> /\ ~ HasWord(Padded \cup Shell, t)
          /\ \A g \in probes \ {j} : t \notin WrittenAt(g)

LEMMA ProbesKey ==
  ASSUME Parsed, Complete, NEW arr, arr = Assigned[Key("probes", "allowed")].arr
  PROVE  /\ Probes(arr) => SoundProbes
         /\ Spelled(FALSE) /\ SoundProbes => Probes(arr)
<1>1. Table(Key("probes", "allowed"), "array")
  BY TheTable
<1>2. PICK i \in Arrays : /\ i = LineOf(Key("probes", "allowed"))
                          /\ arr = doc[KeyOf(i)].arr
  BY <1>1, TableKey
<1> DEFINE E == Elements(i)
<1>3. /\ Len(arr) = Cardinality(E) /\ IsFiniteSet(E) /\ DOMAIN arr = 1..Len(arr)
      /\ \A j \in E : /\ Order(i, j) \in 1..Len(arr)
                      /\ ~ Unreadable(Text(j)) /\ arr[Order(i, j)] = ReadString(Text(j))
      /\ \A n \in 1..Len(arr) : \E j \in E : Order(i, j) = n
      /\ \A j, g \in E : Order(i, j) = Order(i, g) => j = g
  <2>1. arr = doc[KeyOf(i)].arr /\ i \in Arrays
    BY <1>2
  <2>2. /\ Len(arr) = Cardinality(Elements(i)) /\ IsFiniteSet(Elements(i))
        /\ DOMAIN arr = 1..Len(arr)
    BY ONLY Parsed, <2>1, ParsedArrays
  <2>3. \A j \in Elements(i) :
          /\ Order(i, j) \in 1..Len(arr)
          /\ ~ Unreadable(Text(j)) /\ arr[Order(i, j)] = ReadString(Text(j))
    BY ONLY Parsed, <2>1, ParsedArrays
  <2>4. /\ \A n \in 1..Len(arr) : \E j \in Elements(i) : Order(i, j) = n
        /\ \A j, g \in Elements(i) : Order(i, j) = Order(i, g) => j = g
    BY ONLY Parsed, <2>1, ParsedArrays
  <2> QED BY <2>2, <2>3, <2>4
<1>4. \A j \in E : /\ \A t \in WrittenAt(j) : ReadString(Text(j)) = t
                   /\ Spelled(FALSE) => WrittenAt(j) # {}
  <2>1. \A j \in E : j \in Lines("item") /\ file[j].value.form = "text"
    BY LineTypes DEF Elements, Parsed, Inv
  <2> HIDE DEF E
  <2> QED BY <2>1, WrittenIsRead DEF Spelled
<1>5. SoundProbes <=> /\ E # {}
                      /\ \A j \in E : \A t \in WrittenAt(j) :
                           /\ t # <<>> /\ ~ HasWord(Padded \cup Shell, t)
                           /\ \A g \in E \ {j} : t \notin WrittenAt(g)
  BY <1>2 DEF SoundProbes
<1>6. arr # <<>> <=> E # {}
  <2>1. E # {} => arr # <<>>
    <3>1. DOMAIN <<>> = {}
      BY NoDomain
    <3> HIDE DEF E
    <3> QED BY <1>3, <3>1
  <2>2. arr # <<>> => E # {}
    <3>1. E = {} => Len(arr) = 0
      BY <1>3, FS_EmptySet
    <3>2. PICK e \in Lines("close") : Lists(i, e, arr)
      BY <1>2, ParsedKeys DEF Carries, Arrays
    <3>3. arr \in Seq(Readings)
      BY <3>2 DEF Lists
    <3> QED BY <3>1, <3>3, EmptySeq
  <2> QED BY <2>1, <2>2
<1> HIDE DEF E
<1>7. ASSUME Probes(arr) PROVE SoundProbes
  <2>1. /\ arr # <<>>
        /\ \A n \in DOMAIN arr : arr[n] # <<>> /\ ~ HasWord(Padded \cup Shell, arr[n])
        /\ \A n, m \in DOMAIN arr : arr[n] = arr[m] => n = m
    BY <1>7 DEF Probes
  <2>2. ASSUME NEW j \in E, NEW t \in WrittenAt(j)
        PROVE  /\ t # <<>> /\ ~ HasWord(Padded \cup Shell, t)
               /\ \A g \in E \ {j} : t \notin WrittenAt(g)
    <3>1. t = arr[Order(i, j)] /\ Order(i, j) \in DOMAIN arr
      BY <1>3, <1>4, <2>2
    <3>2. ASSUME NEW g \in E \ {j}, t \in WrittenAt(g) PROVE FALSE
      <4>1. t = arr[Order(i, g)] /\ Order(i, g) \in DOMAIN arr
        BY <1>3, <1>4, <3>2
      <4> QED BY <1>3, <2>1, <2>2, <3>1, <3>2, <4>1
    <3> QED BY <2>1, <3>1, <3>2
  <2> QED BY <1>5, <1>6, <2>1, <2>2
<1>8. ASSUME Spelled(FALSE), SoundProbes PROVE Probes(arr)
  <2>1. \A n \in DOMAIN arr : \E j \in E : Order(i, j) = n /\ arr[n] \in WrittenAt(j)
    <3> SUFFICES ASSUME NEW n \in DOMAIN arr
                 PROVE  \E j \in E : Order(i, j) = n /\ arr[n] \in WrittenAt(j)
      OBVIOUS
    <3>1. PICK j \in E : Order(i, j) = n
      BY <1>3
    <3>2. PICK t \in WrittenAt(j) : t = ReadString(Text(j))
      BY <1>4, <1>8
    <3>3. arr[n] = t
      BY <1>3, <3>1, <3>2
    <3> QED BY <3>1, <3>2, <3>3
  <2>2. \A n \in DOMAIN arr : arr[n] # <<>> /\ ~ HasWord(Padded \cup Shell, arr[n])
    BY <1>5, <1>8, <2>1
  <2>3. ASSUME NEW n \in DOMAIN arr, NEW m \in DOMAIN arr, arr[n] = arr[m] PROVE n = m
    <3>1. PICK j \in E : Order(i, j) = n /\ arr[n] \in WrittenAt(j)
      BY <2>1
    <3>2. PICK g \in E : Order(i, g) = m /\ arr[m] \in WrittenAt(g)
      BY <2>1
    <3>3. g \in E \ {j} => arr[n] \notin WrittenAt(g)
      BY <1>5, <1>8, <3>1
    <3> QED BY <2>3, <3>1, <3>2, <3>3
  <2> QED BY <1>5, <1>6, <1>8, <2>2, <2>3 DEF Probes
<1> QED BY <1>7, <1>8

\* The checks of the texts and of the two other numbers, on the text or the number.
counter == Key("agent", "counter_file")
worktrees == Key("review", "worktrees")
branch == Key("review", "default_branch")
criterion == Key("criterion", "command")
budget == Key("agent", "max_budget_usd_per_job")
cap == Key("agent", "daily_job_cap")

IsBranch(t) == t # <<>> /\ ~ HasWord(NotInBranch \cup {Escape, Char("t")}, t)
IsCriterion(t) == (\E n \in DOMAIN t : t[n] \notin Space) /\ ~ HasWord(RunsDoctor, t)

LEMMA ValidIs ==
  Valid <=> /\ Timeout(config[timeout].n)
            /\ config[budget].n > 0 /\ config[cap].n >= 1
            /\ insideRepo(config[counter].arr) /\ insideRepo(config[worktrees].arr)
            /\ IsBranch(config[branch].arr) /\ IsCriterion(config[criterion].arr)
            /\ Probes(config[Key("probes", "allowed")].arr)
BY Zenon DEF Valid, timeout, budget, cap, counter, worktrees, branch, criterion, IsBranch, IsCriterion

LEMMA BoundedOddly ==
  Bounded(TRUE) <=>
           /\ \/ file[LineOf(timeout)].value.n \in Hour
              \/ TooLong(file[LineOf(timeout)].value.n)
           /\ file[LineOf(budget)].value.n > 0 /\ file[LineOf(cap)].value.n > 0
           /\ \A t \in WrittenAt(LineOf(counter)) \cup WrittenAt(LineOf(worktrees)) :
                StaysInside(t) \/ TheParent(t)
           /\ \A t \in WrittenAt(LineOf(branch)) : IsBranch(t)
           /\ \A t \in WrittenAt(LineOf(criterion)) : IsCriterion(t)
           /\ SoundProbes
<1>1. \A t : IsCriterion(t) <=> ~ (\A n \in DOMAIN t : t[n] \in Space) /\ ~ HasWord(RunsDoctor, t)
  BY DEF IsCriterion
<1> QED
  BY <1>1 DEF Bounded, timeout, budget, cap, counter, worktrees, branch, criterion,
     IsBranch, SoundProbes

LEMMA BoundedAsTold ==
  Bounded(FALSE) <=>
           /\ file[LineOf(timeout)].value.n \in Hour
           /\ file[LineOf(budget)].value.n > 0 /\ file[LineOf(cap)].value.n > 0
           /\ \A t \in WrittenAt(LineOf(counter)) \cup WrittenAt(LineOf(worktrees)) :
                StaysInside(t)
           /\ \A t \in WrittenAt(LineOf(branch)) : IsBranch(t)
           /\ \A t \in WrittenAt(LineOf(criterion)) : IsCriterion(t)
           /\ SoundProbes
<1>1. \A t : IsCriterion(t) <=> ~ (\A n \in DOMAIN t : t[n] \in Space) /\ ~ HasWord(RunsDoctor, t)
  BY DEF IsCriterion
<1> QED
  BY <1>1 DEF Bounded, timeout, budget, cap, counter, worktrees, branch, criterion,
     IsBranch, SoundProbes

\* Each check of the configuration is the bound on what the file says.
LEMMA Checks ==
  ASSUME Parsed, Complete
  PROVE  /\ Timeout(Assigned[timeout].n) =>
              file[LineOf(timeout)].value.n \in Hour \/ TooLong(file[LineOf(timeout)].value.n)
         /\ file[LineOf(timeout)].value.n \in Hour => Timeout(Assigned[timeout].n)
         /\ Assigned[budget].n = file[LineOf(budget)].value.n
         /\ Assigned[cap].n >= 1 <=> file[LineOf(cap)].value.n > 0
<1>1. /\ Table(timeout, "int") /\ Table(budget, "float") /\ Table(cap, "int")
      /\ budget # timeout /\ cap # timeout
  <2>1. budget # timeout /\ cap # timeout
    BY DEF budget, timeout, cap, Key
  <2> QED BY <2>1, TheTable DEF budget, cap
<1>2. file[LineOf(timeout)].value.n \in Int
  BY <1>1, TableKey
<1>3. Assigned[cap].n = file[LineOf(cap)].value.n /\ Assigned[cap].n \in Int
  BY <1>1, TableKey
<1>4. Assigned[budget].n = file[LineOf(budget)].value.n
  BY <1>1, TableKey
<1> QED BY <1>2, <1>3, <1>4, TimeoutKey

\* The texts are checked as they are written.
LEMMA Texts ==
  ASSUME Parsed, Complete, NEW k \in {counter, worktrees, branch, criterion}
  PROVE  /\ \A t \in WrittenAt(LineOf(k)) : t = Assigned[k].arr /\ t \in Seq(Characters)
         /\ Spelled(FALSE) => Assigned[k].arr \in WrittenAt(LineOf(k))
<1>1. Table(k, "string")
  BY TheTable DEF counter, worktrees, branch, criterion
<1> QED BY <1>1, TextKey

LEMMA ValidIsBounded ==
  ASSUME Parsed, Complete, config = Assigned, Valid
  PROVE  Bounded(TRUE)
<1>1. /\ Timeout(Assigned[timeout].n)
      /\ Assigned[budget].n > 0 /\ Assigned[cap].n >= 1
      /\ insideRepo(Assigned[counter].arr) /\ insideRepo(Assigned[worktrees].arr)
      /\ IsBranch(Assigned[branch].arr) /\ IsCriterion(Assigned[criterion].arr)
      /\ Probes(Assigned[Key("probes", "allowed")].arr)
  BY ValidIs
<1>2. \A t \in WrittenAt(LineOf(counter)) \cup WrittenAt(LineOf(worktrees)) :
        StaysInside(t) \/ TheParent(t)
  <2> SUFFICES ASSUME NEW k \in {counter, worktrees}, NEW t \in WrittenAt(LineOf(k))
               PROVE  StaysInside(t) \/ TheParent(t)
    OBVIOUS
  <2>1. t = Assigned[k].arr /\ t \in Seq(Characters)
    BY Texts
  <2>2. insideRepo(t)
    BY <1>1, <2>1
  <2> QED BY <2>1, <2>2, InsideStays
<1>3. \A t \in WrittenAt(LineOf(branch)) : IsBranch(t)
  BY <1>1, Texts
<1>4. \A t \in WrittenAt(LineOf(criterion)) : IsCriterion(t)
  BY <1>1, Texts
<1>5. SoundProbes
  BY <1>1, ProbesKey
<1> QED BY <1>1, <1>2, <1>3, <1>4, <1>5, Checks, BoundedOddly

LEMMA BoundedIsValid ==
  ASSUME Parsed, Complete, config = Assigned, Spelled(FALSE), Bounded(FALSE)
  PROVE  Valid
<1>1. /\ file[LineOf(timeout)].value.n \in Hour
      /\ file[LineOf(budget)].value.n > 0 /\ file[LineOf(cap)].value.n > 0
      /\ \A t \in WrittenAt(LineOf(counter)) \cup WrittenAt(LineOf(worktrees)) : StaysInside(t)
      /\ \A t \in WrittenAt(LineOf(branch)) : IsBranch(t)
      /\ \A t \in WrittenAt(LineOf(criterion)) : IsCriterion(t)
      /\ SoundProbes
  BY BoundedAsTold
<1>2. ASSUME NEW k \in {counter, worktrees} PROVE insideRepo(Assigned[k].arr)
  <2>1. PICK t \in WrittenAt(LineOf(k)) : t = Assigned[k].arr /\ t \in Seq(Characters)
    BY Texts
  <2>2. StaysInside(t)
    BY <1>1
  <2> QED BY <2>1, <2>2, InsideStays
<1>3. IsBranch(Assigned[branch].arr)
  BY <1>1, Texts
<1>4. IsCriterion(Assigned[criterion].arr)
  BY <1>1, Texts
<1>5. Probes(Assigned[Key("probes", "allowed")].arr)
  BY <1>1, ProbesKey
<1> QED BY <1>1, <1>2, <1>3, <1>4, <1>5, Checks, ValidIs

LEMMA LoadedIsSound == ASSUME Inv, Values PROVE OnlySoundIsLoaded
<1> SUFFICES ASSUME outcome = "loaded" PROVE Sound(TRUE)
  BY DEF OnlySoundIsLoaded
<1>1. Parsed /\ Complete /\ config = Assigned /\ Valid
  BY LoadedIs
<1> QED
  BY <1>1, ParsedIsLaidOut, ParsedIsSpelled, CompleteIsKeyed, ValidIsBounded DEF Sound

-----------------------------------------------------------------------------
(* A refusal                                                                  *)

\* Inside an array that is closed somewhere there are its elements and its ].
LEMMA InArray ==
  ASSUME Inv, Values, LaidOut, open # NoArray
  PROVE  at \in DOMAIN file /\ file[at].is \in {"blank", "item", "close"}
<1>1. PICK i \in Arrays : i = open.line /\ i < at /\ \A e \in Lines("close") : i < e => at <= e
  BY DEF Inv, Placed, OpenSince
<1>2. PICK e \in Lines("close") : Ends(i, e)
  BY DEF LaidOut
<1>3. i \in Nat /\ e \in Nat /\ e \in DOMAIN file /\ file[e].is = "close"
  BY LineTypes DEF Inv, Arrays
<1>4. i < e /\ at <= e /\ \A j \in i + 1..e - 1 : file[j].is \in {"blank", "item"}
  BY <1>1, <1>2 DEF Ends
<1>5. at \in DOMAIN file /\ at \in Nat
  BY <1>3, <1>4 DEF Inv, Begun
<1>6. CASE at = e
  BY <1>3, <1>5, <1>6
<1>7. CASE at # e
  <2>1. at \in i + 1..e - 1
    BY <1>1, <1>3, <1>4, <1>5, <1>7
  <2> QED BY <1>4, <1>5, <2>1
<1> QED BY <1>6, <1>7

\* And outside of any array there are none.
LEMMA OutsideArrays ==
  ASSUME Inv, Values, LaidOut, open = NoArray, at \in DOMAIN file
  PROVE  file[at].is \notin {"item", "close"}
<1>1. ASSUME NEW i \in Arrays, i < at
      PROVE  \E e \in Lines("close") : i < e /\ e < at /\ e \in i + 1..at - 1
  <2>1. i \in Lines("key") /\ file[i].value.form = "open"
    BY DEF Arrays
  <2>2. KeyOf(i) \in DOMAIN doc /\ doc[KeyOf(i)].line = i
    BY <1>1, <2>1 DEF Inv, Placed, KeysTaken
  <2>3. Over(i)
    BY <2>2 DEF Values, DocCarries
  <2>4. PICK e \in Lines("close") : i < e /\ e < at
    BY <2>1, <2>3 DEF Over
  <2>5. i \in Nat /\ e \in Nat
    BY <2>1, LineTypes DEF Inv
  <2>6. at \in Nat
    BY DEF Inv, Begun
  <2>7. e \in i + 1..at - 1
    BY <2>4, <2>5, <2>6
  <2> QED BY <2>4, <2>7
<1>2. CASE at \in Lines("item")
  <2>1. PICK i \in Arrays : at \in Elements(i)
    BY <1>2 DEF LaidOut
  <2>2. i < at /\ \A e \in Lines("close") : i < e => at < e
    BY <2>1 DEF Elements
  <2>3. PICK e \in Lines("close") : i < e /\ e < at
    BY <1>1, <2>2
  <2>4. e \in Nat /\ at \in Nat
    BY LineTypes DEF Inv, Begun
  <2> QED BY <2>2, <2>3, <2>4
<1>3. CASE at \in Lines("close")
  <2>1. PICK i \in Arrays : i < at /\ \A j \in i + 1..at - 1 : file[j].is \in {"blank", "item"}
    BY <1>3 DEF LaidOut, Ends
  <2>2. PICK e \in Lines("close") : e \in i + 1..at - 1
    BY <1>1, <2>1
  <2>3. file[e].is = "close"
    BY DEF Lines
  <2> QED BY <2>1, <2>2, <2>3
<1>4. CASE at \notin Lines("item") /\ at \notin Lines("close")
  BY <1>4 DEF Lines
<1> QED BY <1>2, <1>3, <1>4

\* A line below a header has a section.
LEMMA SectionThere ==
  ASSUME Begun, NEW i \in DOMAIN file, Above(i) # {}
  PROVE  SectionOf(i) # ""
<1>1. \A h \in Above(i) : h \in Nat /\ h \in Lines("header") /\ h <= Len(file)
  <2>1. \A h \in Above(i) : h \in Lines("header")
    BY DEF Above
  <2>2. \A h \in Lines("header") : h \in DOMAIN file /\ h \in Nat
    BY LineTypes
  <2>3. \A h \in DOMAIN file : h <= Len(file)
    BY DEF Begun
  <2> QED BY <2>1, <2>2, <2>3
<1>2. PICK h \in Above(i) : \A g \in Above(i) : h >= g
  <2> DEFINE D == {Len(file) - g : g \in Above(i)}
  <2>1. D \subseteq Nat /\ D # {}
    BY <1>1 DEF Begun
  <2> HIDE DEF D
  <2>2. PICK d \in D : \A x \in D : d <= x
    BY <2>1, LeastExists
  <2>3. PICK h \in Above(i) : d = Len(file) - h
    BY DEF D
  <2>4. \A g \in Above(i) : Len(file) - g \in D
    BY DEF D
  <2>5. \A g \in Above(i) : h >= g
    BY <1>1, <2>2, <2>3, <2>4 DEF Begun
  <2> QED BY <2>5
<1>3. Max(Above(i)) \in Above(i)
  BY <1>2 DEF Max
<1>4. SectionOf(i) = file[Max(Above(i))].name
  BY DEF SectionOf
<1> QED BY <1>1, <1>3, <1>4, LineTypes

\* A key line of a file that is sound may stand where it does.
LEMMA KeyFits ==
  ASSUME Inv, Values, LaidOut, Spelled(FALSE), open = NoArray, at \in Lines("key")
  PROVE  Fits(file[at])
<1>1. at \in DOMAIN file /\ file[at].is = "key" /\ Begun
  BY DEF Lines, Inv
<1>2. section = SectionOf(at) /\ Key(section, file[at].name) = KeyOf(at)
  BY DEF Inv, Placed, Under, KeyOf
<1>3. section # ""
  BY <1>1, <1>2, SectionThere DEF LaidOut
<1>4. KeyOf(at) \notin DOMAIN doc
  <2> SUFFICES ASSUME KeyOf(at) \in DOMAIN doc PROVE FALSE
    OBVIOUS
  <2>1. PICK i \in Lines("key") : i < at /\ KeyOf(i) = KeyOf(at)
    BY DEF Inv, Placed, FromLines, Values, DocCarries
  <2>2. i = at
    BY <2>1 DEF LaidOut
  <2>3. at \in Nat
    BY DEF Inv, Begun
  <2> QED BY <2>1, <2>2, <2>3
<1>5. file[at].value.form = "open" \/ Readable(file[at].value)
  <2>1. file[at].value.form \in {"open", "text", "int", "float"}
    BY <1>1, LineTypes DEF LaidOut
  <2>2. CASE file[at].value.form = "text"
    <3>1. WrittenAt(at) # {}
      BY <2>2 DEF Spelled
    <3>2. PICK t \in Meanings(file[at].value.text) : TRUE
      BY <2>2, <3>1 DEF WrittenAt
    <3>3. Text(at) \in Seq(STRING)
      BY <1>1, <2>2, LineTypes
    <3>4. ~ Unreadable(Text(at))
      BY <3>2, <3>3, MeaningIsRead DEF Text
    <3> QED BY <2>2, <3>4 DEF Readable, Text
  <2>3. CASE file[at].value.form \in {"int", "float"}
    BY <2>3 DEF Readable
  <2> QED BY <2>1, <2>2, <2>3
<1> QED BY <1>1, <1>2, <1>3, <1>4, <1>5 DEF Fits

\* And so may any line of it.
LEMMA SoundFits ==
  ASSUME Inv, Values, LaidOut, Spelled(FALSE), at \in DOMAIN file
  PROVE  Fits(file[at])
<1>1. file[at].is \in {"blank", "close", "junk", "header", "key", "item"} /\ at \in Lines(file[at].is)
  BY LineTypes DEF Inv
<1>2. file[at].is # "junk"
  BY <1>1 DEF LaidOut
<1>3. CASE file[at].is = "blank"
  BY <1>3 DEF Fits
<1>4. CASE file[at].is = "header"
  BY <1>4, InArray DEF Fits
<1>5. CASE file[at].is = "key"
  BY <1>1, <1>5, InArray, KeyFits
<1>6. CASE file[at].is = "item"
  <2>1. open # NoArray
    BY <1>6, OutsideArrays
  <2>2. file[at].value.form = "text" /\ Text(at) \in Seq(STRING)
    BY <1>1, <1>6, LineTypes DEF Inv
  <2>3. WrittenAt(at) # {}
    BY <1>1, <1>6, <2>2 DEF Spelled
  <2>4. PICK t \in Meanings(Text(at)) : TRUE
    BY <2>2, <2>3 DEF WrittenAt, Text
  <2>5. ~ Unreadable(Text(at))
    BY <2>2, <2>4, MeaningIsRead
  <2>6. Readable(file[at].value)
    BY <2>2, <2>5 DEF Readable, Text
  <2> QED BY <1>6, <2>1, <2>6 DEF Fits
<1>7. CASE file[at].is = "close"
  <2>1. open # NoArray
    BY <1>7, OutsideArrays
  <2>2. PICK i \in Arrays : /\ i = open.line /\ i < at /\ KeyOf(i) = open.key
                            /\ \A e \in Lines("close") : i < e => at <= e
    BY <2>1 DEF Inv, Placed, OpenSince, Values, OpenLists
  <2>3. open.key \notin DOMAIN doc
    <3> SUFFICES ASSUME open.key \in DOMAIN doc PROVE FALSE
      OBVIOUS
    <3>1. PICK h \in Lines("key") : KeyOf(h) = open.key /\ Over(h)
      BY DEF Inv, Placed, FromLines, Values, DocCarries
    <3>2. h = i /\ file[i].value.form = "open"
      BY <2>2, <3>1 DEF LaidOut, Arrays
    <3>3. PICK e \in Lines("close") : i < e /\ e < at
      BY <3>1, <3>2 DEF Over
    <3>4. e \in Nat
      BY LineTypes DEF Inv
    <3>5. at \in Nat
      BY DEF Inv, Begun
    <3> QED BY <2>2, <3>3, <3>4, <3>5
  <2> QED BY <1>7, <2>1, <2>3 DEF Fits
<1> QED BY <1>1, <1>2, <1>3, <1>4, <1>5, <1>6, <1>7

LEMMA RefusedIsDue == ASSUME Inv, Values PROVE RefusalsAreDue
<1> SUFFICES ASSUME outcome = "refused", LaidOut, Spelled(FALSE), Keyed, Bounded(FALSE) PROVE FALSE
  BY DEF RefusalsAreDue, Sound
<1>1. CASE at \in DOMAIN file /\ ~ Fits(file[at])
  BY <1>1, SoundFits
<1>2. CASE at = Len(file) + 1
  <2>1. open = NoArray
    <3>1. at \notin DOMAIN file
      BY <1>2 DEF Inv, Begun
    <3> QED BY <3>1, InArray
  <2>2. Parsed /\ Complete
    BY <1>2, <2>1, CompleteIsKeyed DEF Parsed
  <2>3. config = Assigned => Valid
    BY <2>2, BoundedIsValid
  <2>4. at \notin DOMAIN file
    BY <1>2 DEF Inv, Begun
  <2> QED BY <2>1, <2>2, <2>3, <2>4 DEF Values, Found
<1> QED BY <1>1, <1>2 DEF Values, Found

-----------------------------------------------------------------------------
(* The theorems                                                               *)

\* What is read of a file has its place in it (agent/toml.go parseTOML), and the
\* configuration has no key the file or the table does not have (agent/config.go
\* loadConfig).
THEOREM TypeCorrect == Spec => []TypeOK
<1>1. Inv => TypeOK
  BY DEF Inv, Begun, Placed, FromLines, Handed, TypeOK
<1> QED
  BY <1>1, InitInv, NextInv, PTL DEF Spec

\* No line of a file that loads is passed over, whatever the file: the parser and the
\* two passes leave no key and no element behind (agent/toml.go parseTOML,
\* agent/config.go loadConfig).
THEOREM EveryLine == Spec => []EveryLineCounts
<1>1. ASSUME Inv PROVE EveryLineCounts
  <2> SUFFICES ASSUME outcome = "loaded" PROVE
        /\ \A i \in Lines("key") : KeyOf(i) \in DOMAIN config /\ config[KeyOf(i)].line = i
        /\ \A j \in Lines("item") : \E i \in Arrays : j \in Elements(i)
    BY DEF EveryLineCounts
  <2>1. at = Len(file) + 1 /\ open = NoArray /\ DOMAIN config = DOMAIN doc
        /\ \A k \in DOMAIN config : config[k].line = doc[k].line
    BY <1>1 DEF Inv, Handed
  <2>2. \A i \in DOMAIN file : i < at
    BY <1>1, <2>1 DEF Inv, Begun
  <2>3. \A what : \A i \in Lines(what) : i < at
    BY <2>2 DEF Lines
  <2> QED
    BY <1>1, <2>1, <2>3 DEF Inv, Placed, KeysTaken, ItemsTaken
<1> QED
  BY <1>1, InitInv, NextInv, PTL DEF Spec

\* What is read stays what the lines say, from the first line to the last pass.
LEMMA SpecValues == Spec => [](Inv /\ Values)
<1>1. Init => Inv /\ Values
  BY InitInv, InitValues
<1>2. Inv /\ Values /\ [Next]_vars => (Inv /\ Values)'
  BY NextInv, NextValues
<1> QED BY <1>1, <1>2, PTL DEF Spec

\* What loads says what was written: each text its one meaning in the grammar, each
\* array its elements in order, each number itself, and no key besides (agent/toml.go
\* parseTOML, readString and array; agent/config.go loadConfig).
THEOREM SaysWhatIsWritten == Spec => []AsWritten
BY SpecValues, LoadedAsWritten, PTL

\* What loads is laid out, spelled, keyed and bounded as an owner is told, but for the
\* three readings the code lets through (agent/toml.go parseTOML, agent/config.go
\* loadConfig and validate).
THEOREM OnlySound == Spec => []OnlySoundIsLoaded
BY SpecValues, LoadedIsSound, PTL

\* No file that is sound is refused: not at one of its lines, nor by the table, nor by a
\* bound (agent/toml.go parseTOML, agent/config.go loadConfig and validate).
THEOREM RefusalsDue == Spec => []RefusalsAreDue
BY SpecValues, RefusedIsDue, PTL
===============================================================================
