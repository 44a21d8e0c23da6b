------------------------ MODULE PropertyMetricsProofs ------------------------
(***************************************************************************)
(* Proofs about PropertyMetrics: that the loop of MetricFromDuration takes *)
(* a text apart without losing or counting anything twice, and that a list *)
(* of metrics sends what its texts mean, for all lists, texts and clocks.  *)
(***************************************************************************)
EXTENDS PropertyMetrics, SequenceTheorems, FiniteSetTheorems, WellFoundedInduction, TLAPS

Less == {p \in Nat \X Nat : p[1] < p[2]}

\* The order on the naturals is well founded,
LEMMA LessWellFounded == IsWellFoundedOn(Less, Nat)
BY NatLessThanWellFounded, Zenon DEF OpToRel, Less

\* so each set of positions has a least one, and First finds it.
LEMMA FirstIs ==
    ASSUME NEW S, S \subseteq Nat \ {0}
    PROVE  /\ First(S) \in Nat
           /\ S = {} <=> First(S) = 0
           /\ S # {} => First(S) \in S /\ \A j \in S : First(S) <= j
<1>1. CASE S = {}
  BY <1>1 DEF First
<1>2. CASE S # {}
  <2>1. PICK x \in S : \A y \in S : <<y, x>> \notin Less
    BY <1>2, LessWellFounded, WFMin, Zenon
  <2>2. ASSUME NEW y \in S PROVE x <= y
    <3>1. x \in Nat /\ y \in Nat /\ <<y, x>> \notin Less
      BY <2>1
    <3> QED
      BY <3>1 DEF Less
  <2>3. First(S) = CHOOSE i \in S : \A j \in S : i <= j
    BY <1>2 DEF First
  <2> QED
    BY <1>2, <2>1, <2>2, <2>3
<1> QED
  BY <1>1, <1>2

\* It is the only one.
LEMMA FirstOnly ==
    ASSUME NEW S, S \subseteq Nat \ {0}, NEW i \in S, \A j \in S : i <= j
    PROVE  First(S) = i
<1>1. First(S) \in S /\ First(S) <= i
  BY FirstIs
<1>2. i <= First(S) /\ First(S) \in Nat /\ i \in Nat
  BY <1>1
<1> QED
  BY <1>1, <1>2

----------------------------------------------------------------------------
\* Parts of texts.
AnyText == Seq(Run)

\* A text is runs at the positions from 1.
LEMMA Runs ==
    ASSUME NEW t \in AnyText
    PROVE  /\ Len(t) \in Nat /\ DOMAIN t = 1..Len(t)
           /\ \A i \in 1..Len(t) : t[i] \in Run
           /\ t = <<>> <=> Len(t) = 0
           /\ \A kind : Places(t, kind) \subseteq Nat \ {0}
<1>1. Len(t) \in Nat /\ DOMAIN t = 1..Len(t) /\ (t = <<>> <=> Len(t) = 0)
  BY LenProperties, EmptySeq DEF AnyText
<1>2. \A i \in 1..Len(t) : t[i] \in Run
  BY <1>1, ElementOfSeq DEF AnyText
<1>3. \A kind : Places(t, kind) \subseteq Nat \ {0}
  BY <1>1 DEF Places
<1> QED
  BY <1>1, <1>2, <1>3

\* A piece of a text.
LEMMA Piece ==
    ASSUME NEW t \in AnyText, NEW m \in Nat \ {0}, NEW n \in Nat, n <= Len(t), m <= n + 1
    PROVE  /\ SubSeq(t, m, n) \in AnyText /\ Len(SubSeq(t, m, n)) = n + 1 - m
           /\ \A i \in 1..(n + 1 - m) : SubSeq(t, m, n)[i] = t[m + i - 1]
<1>1. \A i \in m..n : t[i] \in Run
  BY Runs
<1>2. /\ SubSeq(t, m, n) \in Seq(Run)
      /\ Len(SubSeq(t, m, n)) = IF m <= n THEN n - m + 1 ELSE 0
      /\ \A i \in 1..(n - m + 1) : SubSeq(t, m, n)[i] = t[m + i - 1]
  BY <1>1, SubSeqProperties
<1> QED
  BY <1>2 DEF AnyText

\* All of it is the whole text.
LEMMA Whole ==
    ASSUME NEW t \in AnyText
    PROVE  SubSeq(t, 1, Len(t)) = t
<1>1. /\ SubSeq(t, 1, Len(t)) \in AnyText /\ Len(SubSeq(t, 1, Len(t))) = Len(t) + 1 - 1
      /\ \A i \in 1..(Len(t) + 1 - 1) : SubSeq(t, 1, Len(t))[i] = t[1 + i - 1]
  BY Runs, Piece
<1> DEFINE u == SubSeq(t, 1, Len(t))
<1>2. Len(t) \in Nat /\ Len(u) = Len(t) /\ \A i \in 1..Len(u) : u[i] = t[i]
  BY <1>1, Runs
<1>3. u = t
  BY <1>1, <1>2, SeqEqual DEF AnyText
<1> QED
  BY <1>3

\* What is left of what is left.
LEMMA FromFrom ==
    ASSUME NEW t \in AnyText, NEW i \in 0..Len(t), NEW p \in Nat, i + p <= Len(t)
    PROVE  /\ From(t, i + 1) \in AnyText /\ Len(From(t, i + 1)) = Len(t) - i
           /\ \A j \in 1..(Len(t) - i) : From(t, i + 1)[j] = t[i + j]
           /\ From(From(t, i + 1), p + 1) = From(t, i + p + 1)
<1> DEFINE u == From(t, i + 1)
<1>1. Len(t) \in Nat
  BY Runs
<1>2. /\ u \in AnyText /\ Len(u) = Len(t) + 1 - (i + 1)
      /\ \A j \in 1..(Len(t) + 1 - (i + 1)) : u[j] = t[(i + 1) + j - 1]
  BY <1>1, Piece DEF From
<1>3. /\ u \in AnyText /\ Len(u) = Len(t) - i
      /\ \A j \in 1..(Len(t) - i) : u[j] = t[i + j]
  BY <1>1, <1>2
<1> HIDE DEF u
<1> DEFINE v == From(u, p + 1)
           w == From(t, i + p + 1)
<1>4. /\ v \in AnyText /\ Len(v) = Len(u) + 1 - (p + 1)
      /\ \A j \in 1..(Len(u) + 1 - (p + 1)) : v[j] = u[(p + 1) + j - 1]
  <2>1. p + 1 \in Nat \ {0} /\ Len(u) \in Nat /\ Len(u) <= Len(u) /\ p + 1 <= Len(u) + 1
    BY <1>1, <1>3
  <2> QED
    BY <1>3, <2>1, Piece DEF From
<1>5. /\ w \in AnyText /\ Len(w) = Len(t) + 1 - (i + p + 1)
      /\ \A j \in 1..(Len(t) + 1 - (i + p + 1)) : w[j] = t[(i + p + 1) + j - 1]
  BY <1>1, Piece DEF From
<1>6. Len(v) = Len(w)
  BY <1>1, <1>3, <1>4, <1>5
<1>7. ASSUME NEW j \in 1..Len(v) PROVE v[j] = w[j]
  <2>1. /\ j \in 1..(Len(u) + 1 - (p + 1)) /\ (p + 1) + j - 1 \in 1..(Len(t) - i)
        /\ j \in 1..(Len(t) + 1 - (i + p + 1))
        /\ i + ((p + 1) + j - 1) = (i + p + 1) + j - 1
    BY <1>1, <1>3, <1>4
  <2>2. v[j] = u[(p + 1) + j - 1] /\ w[j] = t[(i + p + 1) + j - 1]
    BY <1>4, <1>5, <2>1
  <2> DEFINE h == (p + 1) + j - 1
  <2>3. u[h] = t[i + h]
    BY <1>3, <2>1
  <2> QED
    BY <2>1, <2>2, <2>3
<1>8. v = w
  BY <1>4, <1>5, <1>6, <1>7, SeqEqual DEF AnyText
<1> QED
  BY <1>3, <1>8 DEF u

----------------------------------------------------------------------------
\* What getDurationParts can read: a word, whatever it is, a value and its unit, or the same
\* after a sign.
SignOf(t) == t[1] \in {Mark("-"), Mark("+")}
Word(t) == t[1].kind = "letters"
Value(t) == t[1].kind = "digits" /\ HasUnit(t, 1)
Signed(t) == 1 < Len(t) /\ SignOf(t) /\ t[2].kind = "digits" /\ HasUnit(t, 2)

\* What it takes off, and what that stands for.
Part(t, p) ==
    LET r == getDurationParts(t) IN
    /\ r.ok /\ p \in 1..Len(t) /\ r.rest = From(t, p + 1)
    /\ p < Len(t) => t[p + 1].kind = "digits"
    /\ \/ Word(t) /\ r.d = <<0, 0>> /\ \A i \in 1..p : t[i].kind # "digits"
       \/ Value(t) /\ p = 2 /\ r.d = Times(t[1].n, Units[t[2].c])
       \/ Signed(t) /\ p = 3 /\ r.d = Times(IF t[1] = Mark("-") THEN -t[2].n ELSE t[2].n,
                                           Units[t[3].c])

\* Signs are marks.
LEMMA Signs ==
    ASSUME NEW t, SignOf(t)
    PROVE  t[1].kind = "mark"
BY DEF SignOf, Mark

\* The first letters and the next digits of a text.
LEMMA Positions ==
    ASSUME NEW t \in AnyText, NEW i \in Nat
    PROVE  /\ First(Places(t, "letters")) \in 0..Len(t)
           /\ First(Places(t, "letters")) # 0 => t[First(Places(t, "letters"))].kind = "letters"
           /\ \A j \in 1..Len(t) : t[j].kind = "letters" =>
                  First(Places(t, "letters")) # 0 /\ First(Places(t, "letters")) <= j
           /\ NextValue(t, i) \in 0..Len(t)
           /\ NextValue(t, i) # 0 => NextValue(t, i) > i /\ t[NextValue(t, i)].kind = "digits"
           /\ \A j \in 1..Len(t) : t[j].kind = "digits" /\ j > i =>
                  NextValue(t, i) # 0 /\ NextValue(t, i) <= j
<1> DEFINE L == Places(t, "letters")
           D == {j \in Places(t, "digits") : j > i}
<1>1. Len(t) \in Nat /\ DOMAIN t = 1..Len(t) /\ L \subseteq Nat \ {0} /\ D \subseteq Nat \ {0}
  BY Runs
<1>2. /\ First(L) \in Nat /\ (L = {} <=> First(L) = 0)
      /\ L # {} => First(L) \in L /\ \A j \in L : First(L) <= j
  BY <1>1, FirstIs
<1>3. /\ First(D) \in Nat /\ (D = {} <=> First(D) = 0)
      /\ D # {} => First(D) \in D /\ \A j \in D : First(D) <= j
  BY <1>1, FirstIs
<1>4. \A j : j \in L <=> j \in 1..Len(t) /\ t[j].kind = "letters"
  BY <1>1 DEF Places
<1>5. \A j : j \in D <=> j \in 1..Len(t) /\ t[j].kind = "digits" /\ j > i
  BY <1>1 DEF Places
<1>6. NextValue(t, i) = First(D)
  BY DEF NextValue
<1> HIDE DEF L, D
<1>7. /\ First(L) \in 0..Len(t) /\ (First(L) # 0 => t[First(L)].kind = "letters")
      /\ \A j \in 1..Len(t) : t[j].kind = "letters" => First(L) # 0 /\ First(L) <= j
  BY <1>1, <1>2, <1>4
<1>8. /\ First(D) \in 0..Len(t) /\ (First(D) # 0 => First(D) > i /\ t[First(D)].kind = "digits")
      /\ \A j \in 1..Len(t) : t[j].kind = "digits" /\ j > i => First(D) # 0 /\ First(D) <= j
  BY <1>1, <1>3, <1>5
<1> QED
  BY <1>6, <1>7, <1>8 DEF L


\* A number is digits, with a sign or without.
LEMMA AtoiIs ==
    ASSUME NEW v
    PROVE  /\ Atoi(v).ok <=> \/ Len(v) = 1 /\ v[1].kind = "digits"
                             \/ Len(v) = 2 /\ v[2].kind = "digits" /\ SignOf(v)
           /\ Len(v) = 1 /\ v[1].kind = "digits" => Atoi(v).v = v[1].n
           /\ Len(v) = 2 /\ v[2].kind = "digits" /\ SignOf(v) =>
                  Atoi(v).v = IF v[1] = Mark("-") THEN -v[2].n ELSE v[2].n
<1>1. CASE Len(v) = 1 /\ v[1].kind = "digits"
  BY <1>1 DEF Atoi, Ok
<1>2. Mark("-") # Mark("+")
  <2>1. Mark("-").c = "-" /\ Mark("+").c = "+" /\ "-" # "+"
    BY DEF Mark
  <2> QED
    BY <2>1
<1>3. CASE Len(v) = 2 /\ v[2].kind = "digits" /\ v[1] = Mark("-")
  BY <1>2, <1>3 DEF Atoi, Ok, SignOf
<1>4. CASE Len(v) = 2 /\ v[2].kind = "digits" /\ v[1] = Mark("+")
  BY <1>2, <1>4 DEF Atoi, Ok, SignOf
<1>5. CASE /\ ~(Len(v) = 1 /\ v[1].kind = "digits")
           /\ ~(Len(v) = 2 /\ v[2].kind = "digits" /\ SignOf(v))
  BY <1>5 DEF Atoi, SignOf
<1> QED
  BY <1>1, <1>3, <1>4, <1>5 DEF SignOf

\* The unit ends before the next digits or with the text.
UnitOf(t, i) ==
    IF NextValue(t, i) = 0 THEN From(t, i) ELSE SubSeq(t, i, NextValue(t, i) - 1)
\* The cases of getDurationParts: no letters or a value or unit it cannot read, a word without
\* a value, which counts nothing, or a value with its unit.
LEMMA Parts ==
    ASSUME NEW t, NEW i, i = First(Places(t, "letters")), NEW r, r = getDurationParts(t)
    PROVE  /\ r.ok <=> /\ i # 0
                       /\ \/ Before(t, i) = <<>>
                          \/ Atoi(Before(t, i)).ok /\ IsUnit(UnitOf(t, i))
           /\ r.ok => r.rest = RestAfter(t, i)
           /\ r.ok /\ Before(t, i) = <<>> => r.d = <<0, 0>>
           /\ r.ok /\ Before(t, i) # <<>> =>
                  r.d = Times(Atoi(Before(t, i)).v, Units[UnitOf(t, i)[1].c])
<1> DEFINE failed0 == [ok |-> FALSE, d |-> <<0, 0>>, rest |-> <<>>]
           word == [ok |-> TRUE, d |-> <<0, 0>>, rest |-> RestAfter(t, i)]
           value == [ok |-> TRUE, d |-> Times(Atoi(Before(t, i)).v, Units[UnitOf(t, i)[1].c]),
                     rest |-> RestAfter(t, i)]
<1>1. ~failed0.ok /\ word.ok /\ word.d = <<0, 0>> /\ word.rest = RestAfter(t, i) /\ value.ok
      /\ value.d = Times(Atoi(Before(t, i)).v, Units[UnitOf(t, i)[1].c])
      /\ value.rest = RestAfter(t, i)
  OBVIOUS
<1>2. r = CASE i = 0 -> failed0
            [] i # 0 /\ Before(t, i) = <<>> -> word
            [] i # 0 /\ Before(t, i) # <<>> ->
                   IF Atoi(Before(t, i)).ok /\ IsUnit(UnitOf(t, i)) THEN value ELSE failed0
  BY DEF getDurationParts, UnitOf
<1> HIDE DEF failed0, word, value
<1>3. CASE i = 0
  BY <1>1, <1>2, <1>3
<1>4. CASE i # 0 /\ Before(t, i) = <<>>
  BY <1>1, <1>2, <1>4
<1>5. CASE i # 0 /\ Before(t, i) # <<>>
  BY <1>1, <1>2, <1>5
<1> QED
  BY <1>3, <1>4, <1>5

\* One run that is a unit.
LEMMA OneUnit ==
    ASSUME NEW t \in AnyText, NEW i \in 1..Len(t)
    PROVE  /\ Len(<<t[i]>>) = 1 /\ (<<t[i]>>)[1] = t[i]
           /\ IsUnit(<<t[i]>>) => t[i].kind = "letters"
BY DEF IsUnit

\* What it reads of a text that is not empty.
LEMMA PartsRead ==
    ASSUME NEW t \in AnyText, t # <<>>, getDurationParts(t).ok
    PROVE  \E p \in Nat : Part(t, p)
<1> DEFINE i == First(Places(t, "letters"))
           next == NextValue(t, i)
           r == getDurationParts(t)
           value == Before(t, i)
           unit == UnitOf(t, i)
<1>1. /\ Len(t) \in Nat /\ Len(t) > 0 /\ DOMAIN t = 1..Len(t)
      /\ i \in 0..Len(t) /\ next \in 0..Len(t)
      /\ i # 0 => t[i].kind = "letters"
      /\ \A j \in 1..Len(t) : t[j].kind = "letters" => i # 0 /\ i <= j
      /\ next # 0 => next > i /\ t[next].kind = "digits"
      /\ \A j \in 1..Len(t) : t[j].kind = "digits" /\ j > i => next # 0 /\ next <= j
  <2>1. Len(t) \in Nat /\ Len(t) > 0 /\ DOMAIN t = 1..Len(t)
    BY Runs
  <2>2. i \in 0..Len(t) /\ i \in Nat
    BY <2>1, Positions
  <2> QED
    BY <2>1, <2>2, Positions
<1>2. /\ i # 0 /\ (value = <<>> \/ (Atoi(value).ok /\ IsUnit(unit)))
      /\ r.rest = RestAfter(t, i)
      /\ value = <<>> => r.d = <<0, 0>>
      /\ value # <<>> => r.d = Times(Atoi(value).v, Units[unit[1].c])
  BY Parts
<1> DEFINE p == IF next = 0 THEN Len(t) ELSE next - 1
<1>3. /\ p \in 1..Len(t) /\ i <= p
      /\ r.rest = From(t, p + 1)
      /\ p < Len(t) => t[p + 1].kind = "digits"
      /\ unit = SubSeq(t, i, p)
      /\ \A j \in i..p : t[j].kind # "digits"
  <2>1. CASE next = 0
    <3>1. From(t, Len(t) + 1) = <<>> /\ p = Len(t)
      BY <1>1, <2>1, SubSeqEmpty DEF From
    <3>2. r.rest = From(t, p + 1) /\ unit = SubSeq(t, i, p)
      <4>1. r.rest = <<>> /\ unit = From(t, i)
        BY <1>2, <2>1 DEF RestAfter, UnitOf
      <4> HIDE DEF next, i, r, unit, p
      <4> QED
        BY <3>1, <4>1 DEF From
    <3>3. \A j \in i..p : t[j].kind # "digits"
      BY <1>1, <1>2, <2>1
    <3> QED
      BY <1>1, <1>2, <2>1, <3>2, <3>3
  <2>2. CASE next # 0
    <3>1. r.rest = From(t, p + 1) /\ unit = SubSeq(t, i, p)
      <4>1. r.rest = From(t, next) /\ unit = SubSeq(t, i, next - 1) /\ p = next - 1 /\ p + 1 = next
        BY <1>1, <1>2, <2>2 DEF RestAfter, UnitOf
      <4> HIDE DEF next, i, r, unit, p
      <4> QED
        BY <4>1
    <3>2. \A j \in i..p : t[j].kind # "digits"
      BY <1>1, <1>2, <2>2
    <3> QED
      BY <1>1, <1>2, <2>2, <3>1, <3>2
  <2> QED
    BY <2>1, <2>2
<1>4. /\ Len(value) = i - 1 /\ \A j \in 1..(i - 1) : value[j] = t[j]
      /\ value = <<>> <=> i = 1
  <2>1. /\ value \in AnyText /\ Len(value) = i - 1 + 1 - 1
        /\ \A j \in 1..(i - 1 + 1 - 1) : value[j] = t[1 + j - 1]
    BY <1>1, <1>2, Piece DEF Before
  <2>2. Len(value) = i - 1 /\ \A j \in 1..(i - 1) : value[j] = t[j]
    BY <1>1, <1>2, <2>1
  <2>3. value = <<>> <=> Len(value) = 0
    BY <2>1, Runs
  <2> QED
    BY <1>1, <2>2, <2>3
<1>5. Len(unit) = p + 1 - i /\ unit[1] = t[i]
  <2>1. /\ Len(unit) = p + 1 - i
        /\ \A j \in 1..(p + 1 - i) : unit[j] = t[i + j - 1]
    <3> HIDE DEF i, next, r, value, unit, p
    <3>1. i \in Nat \ {0} /\ p \in Nat /\ p <= Len(t) /\ i <= p + 1
      BY <1>1, <1>2, <1>3
    <3> QED
      BY <1>3, <3>1, Piece
  <2> HIDE DEF i, next, r, value, unit, p
  <2>2. 1 \in 1..(p + 1 - i) /\ i + 1 - 1 = i
    BY <1>1, <1>2, <1>3
  <2> QED
    BY <2>1, <2>2
<1> HIDE DEF i, next, r, value, unit, p
<1>6. CASE i = 1
  <2>1. Word(t) /\ r.d = <<0, 0>> /\ \A j \in 1..p : t[j].kind # "digits"
    BY <1>1, <1>2, <1>3, <1>4, <1>6 DEF Word
  <2>2. Part(t, p)
    BY <1>2, <1>3, <2>1 DEF Part, r
  <2> QED
    BY <1>3, <2>2
<1>7. CASE i # 1
  <2>1. Atoi(value).ok /\ IsUnit(unit) /\ r.d = Times(Atoi(value).v, Units[unit[1].c]) /\ i > 1
    BY <1>1, <1>2, <1>4, <1>7
  <2>2. p = i /\ r.d = Times(Atoi(value).v, Units[t[i].c])
    BY <1>1, <1>3, <1>5, <2>1 DEF IsUnit
  <2>3. IsUnit(<<t[i]>>)
    <3>1. t[i].c \in DOMAIN Units /\ t[i].kind = "letters"
      BY <1>5, <2>1 DEF IsUnit
    <3> QED
      BY <3>1 DEF IsUnit
  <2>4. i + 1 \in DOMAIN t => t[i + 1].kind = "digits"
    BY <1>1, <1>3, <2>2
  <2>5. CASE Len(value) = 1 /\ value[1].kind = "digits"
    <3>1. i = 2 /\ t[1] = value[1] /\ Atoi(value).v = t[1].n
      <4>1. i = 2
        <5>1. i \in Nat /\ Len(value) = i - 1
          BY <1>1, <1>4
        <5>2. i - 1 = 1
          BY <2>5, <5>1
        <5> QED
          BY <5>1, <5>2
      <4>2. value[1] = t[1]
        BY <1>4, <4>1
      <4> QED
        BY <2>5, <4>1, <4>2, AtoiIs
    <3>2. Value(t)
      BY <1>1, <2>3, <2>4, <2>5, <3>1 DEF Value, HasUnit
    <3>3. Part(t, p)
      BY <1>2, <1>3, <2>1, <2>2, <3>1, <3>2 DEF Part, r
    <3> QED
      BY <1>3, <3>3
  <2>6. CASE Len(value) = 2 /\ value[2].kind = "digits" /\ SignOf(value)
    <3>1. /\ i = 3 /\ t[1] = value[1] /\ t[2] = value[2]
          /\ Atoi(value).v = IF t[1] = Mark("-") THEN -t[2].n ELSE t[2].n
      <4>1. i = 3
        <5>1. i \in Nat /\ Len(value) = i - 1
          BY <1>1, <1>4
        <5>2. i - 1 = 2
          BY <2>6, <5>1
        <5> QED
          BY <5>1, <5>2
      <4>2. value[1] = t[1] /\ value[2] = t[2]
        BY <1>4, <4>1
      <4> QED
        BY <2>6, <4>1, <4>2, AtoiIs
    <3>2. Signed(t)
      BY <1>1, <2>3, <2>4, <2>6, <3>1 DEF Signed, HasUnit, SignOf
    <3>3. Part(t, p)
      BY <1>2, <1>3, <2>1, <2>2, <3>1, <3>2 DEF Part, r
    <3> QED
      BY <1>3, <3>3
  <2> QED
    BY <2>1, <2>5, <2>6, AtoiIs
<1> QED
  BY <1>6, <1>7

\* It can read what begins with one of the three.
LEMMA PartsReadable ==
    ASSUME NEW t \in AnyText, t # <<>>, Word(t) \/ Value(t) \/ Signed(t)
    PROVE  getDurationParts(t).ok
<1> DEFINE i == First(Places(t, "letters"))
           next == NextValue(t, i)
           value == Before(t, i)
           unit == UnitOf(t, i)
<1>1. /\ Len(t) \in Nat /\ Len(t) > 0 /\ DOMAIN t = 1..Len(t)
      /\ i \in 0..Len(t) /\ next \in 0..Len(t)
      /\ i # 0 => t[i].kind = "letters"
      /\ \A j \in 1..Len(t) : t[j].kind = "letters" => i # 0 /\ i <= j
      /\ next # 0 => next > i /\ t[next].kind = "digits"
      /\ \A j \in 1..Len(t) : t[j].kind = "digits" /\ j > i => next # 0 /\ next <= j
  <2>1. Len(t) \in Nat /\ Len(t) > 0 /\ DOMAIN t = 1..Len(t)
    BY Runs
  <2>2. i \in 0..Len(t) /\ i \in Nat
    BY <2>1, Positions
  <2> QED
    BY <2>1, <2>2, Positions
<1>2. i # 0 /\ (value = <<>> \/ (Atoi(value).ok /\ IsUnit(unit))) => getDurationParts(t).ok
  BY Parts
<1>3. ASSUME i # 0
      PROVE  /\ Len(value) = i - 1 /\ \A j \in 1..(i - 1) : value[j] = t[j]
             /\ value = <<>> <=> i = 1
  <2>1. /\ value \in AnyText /\ Len(value) = i - 1 + 1 - 1
        /\ \A j \in 1..(i - 1 + 1 - 1) : value[j] = t[1 + j - 1]
    BY <1>1, <1>3, Piece DEF Before
  <2>2. Len(value) = i - 1 /\ \A j \in 1..(i - 1) : value[j] = t[j]
    BY <1>1, <1>3, <2>1
  <2>3. value = <<>> <=> Len(value) = 0
    BY <2>1, Runs
  <2> QED
    BY <1>1, <2>2, <2>3
\* After a unit come digits or the end.
<1>4. ASSUME i # 0, HasUnit(t, i - 1) PROVE IsUnit(unit)
  <2>1. IsUnit(<<t[i]>>) /\ (i + 1 \in 1..Len(t) => t[i + 1].kind = "digits")
    <3>1. i - 1 + 1 = i /\ i - 1 + 2 = i + 1
      BY <1>1, <1>4
    <3> HIDE DEF i
    <3> QED
      BY <1>1, <1>4, <3>1 DEF HasUnit
  <2> DEFINE p == IF next = 0 THEN Len(t) ELSE next - 1
  <2>2. p = i
    <3>1. CASE i = Len(t)
      BY <1>1, <3>1
    <3>2. CASE i # Len(t)
      <4>1. i + 1 \in 1..Len(t) /\ i + 1 > i
        BY <1>1, <1>4, <3>2
      <4>2. next # 0 /\ next <= i + 1
        BY <1>1, <2>1, <4>1
      <4> QED
        BY <1>1, <4>2
    <3> QED
      BY <3>1, <3>2
  <2>3. unit = SubSeq(t, i, i)
    <3>1. CASE next = 0
      BY <2>2, <3>1 DEF UnitOf, From
    <3>2. CASE next # 0
      BY <2>2, <3>2 DEF UnitOf
    <3> QED
      BY <3>1, <3>2
  <2>4. Len(unit) = 1 /\ unit[1] = t[i]
    <3> HIDE DEF i, next, value, unit
    <3>1. i \in Nat \ {0} /\ i \in Nat /\ i <= Len(t) /\ i <= i + 1 /\ i + 1 - i = 1 /\ i + 1 - 1 = i
      BY <1>1, <1>4
    <3>2. /\ Len(SubSeq(t, i, i)) = i + 1 - i
          /\ \A j \in 1..(i + 1 - i) : SubSeq(t, i, i)[j] = t[i + j - 1]
      BY <3>1, Piece
    <3>3. 1 \in 1..(i + 1 - i)
      BY <3>1
    <3> QED
      BY <2>3, <3>1, <3>2, <3>3
  <2>5. t[i].kind = "letters" /\ t[i].c \in DOMAIN Units
    BY <2>1 DEF IsUnit
  <2> QED
    BY <2>4, <2>5 DEF IsUnit
<1> HIDE DEF i, next, value, unit
<1>5. CASE Word(t)
  <2>1. i = 1
    BY <1>1, <1>5 DEF Word
  <2> QED
    BY <1>2, <1>3, <2>1
<1>6. CASE Value(t)
  <2>1. 2 \in 1..Len(t) /\ t[1].kind = "digits" /\ t[2].kind = "letters" /\ HasUnit(t, 1)
    BY <1>1, <1>6 DEF Value, HasUnit, IsUnit
  <2>2. i = 2
    BY <1>1, <2>1
  <2>3. HasUnit(t, i - 1) /\ Len(value) = 1 /\ value[1] = t[1]
    BY <1>3, <2>1, <2>2
  <2> QED
    BY <1>2, <1>4, <2>1, <2>2, <2>3, AtoiIs
<1>7. CASE Signed(t)
  <2>1. /\ 3 \in 1..Len(t) /\ t[1].kind = "mark" /\ t[2].kind = "digits" /\ t[3].kind = "letters"
        /\ HasUnit(t, 2) /\ SignOf(t)
    BY <1>1, <1>7, Signs DEF Signed, HasUnit, IsUnit
  <2>2. i = 3
    BY <1>1, <2>1
  <2>3. HasUnit(t, i - 1) /\ Len(value) = 2 /\ value[1] = t[1] /\ value[2] = t[2]
    BY <1>3, <2>1, <2>2
  <2>4. SignOf(value)
    BY <2>1, <2>3 DEF SignOf
  <2> QED
    BY <1>2, <1>4, <2>1, <2>2, <2>3, <2>4, AtoiIs
<1> QED
  BY <1>5, <1>6, <1>7

----------------------------------------------------------------------------
\* What a text means, run by run.
Term(t, f, i) ==
    CASE i = 0 -> <<0, 0>>
      [] i > 0 /\ t[i].kind = "digits" -> Plus(f[i - 1], Counted(t, i))
      [] i > 0 /\ t[i].kind # "digits" -> f[i - 1]
Sums(t, f, m) == f = [i \in 0..m |-> Term(t, f, i)]

\* The sum over its runs exists: were there a least number of runs without one, the sum over
\* one run less could be continued.
LEMMA SumExists ==
    ASSUME NEW t \in AnyText
    PROVE  \E f : Sums(t, f, Len(t))
<1> DEFINE S == {m \in 0..Len(t) : ~\E f : Sums(t, f, m)}
<1>1. Len(t) \in Nat
  BY Runs
<1>2. 0 \notin S
  <2> DEFINE f == [i \in 0..0 |-> <<0, 0>>]
  <2>1. \A i \in 0..0 : Term(t, f, i) = <<0, 0>>
    BY DEF Term
  <2>2. [i \in 0..0 |-> Term(t, f, i)] = f
    BY <2>1
  <2>3. Sums(t, f, 0)
    BY <2>2 DEF Sums
  <2> QED
    BY <2>3
<1>3. SUFFICES ASSUME S # {} PROVE FALSE
  BY <1>1
<1> DEFINE m == First(S)
<1>4. S \subseteq Nat \ {0}
  BY <1>1, <1>2
<1>5. m \in S /\ (\A j \in S : m <= j) /\ m \in Nat /\ m # 0
  BY <1>3, <1>4, FirstIs
<1>6. m \in 1..Len(t) /\ m - 1 \in 0..Len(t) /\ ~(m <= m - 1)
  BY <1>1, <1>5
<1> HIDE DEF m
<1>7. m - 1 \notin S
  BY <1>5, <1>6
<1>8. PICK f : Sums(t, f, m - 1)
  BY <1>6, <1>7
<1> DEFINE g == [i \in 0..m |-> IF i = m THEN Term(t, f, m) ELSE f[i]]
<1>9. ASSUME NEW i \in 0..m PROVE Term(t, g, i) = g[i]
  <2>1. i > 0 => i - 1 \in 0..m /\ i - 1 # m
    BY <1>6
  <2>2. i > 0 => g[i - 1] = f[i - 1]
    BY <2>1
  <2>3. Term(t, g, i) = Term(t, f, i)
    <3> HIDE DEF g
    <3>1. CASE i = 0
      BY <3>1 DEF Term
    <3>2. CASE i > 0
      BY <2>2, <3>2 DEF Term
    <3> QED
      BY <3>1, <3>2
  <2>4. i # m => f[i] = Term(t, f, i)
    <3>1. i # m => i \in 0..(m - 1)
      BY <1>6
    <3> QED
      BY <1>8, <3>1 DEF Sums
  <2> QED
    BY <2>3, <2>4
<1>10. g = [i \in 0..m |-> Term(t, g, i)]
  <2>1. g = [i \in 0..m |-> g[i]]
    OBVIOUS
  <2> HIDE DEF g
  <2> QED
    BY <1>9, <2>1
<1>11. Sums(t, g, m)
  BY <1>10 DEF Sums
<1> HIDE DEF g
<1> QED
  BY <1>5, <1>11

\* Meaning is that sum: it satisfies its recursive equations.
LEMMA MeaningIs ==
    ASSUME NEW t \in AnyText
    PROVE  /\ Meaning(t, 0) = <<0, 0>>
           /\ \A i \in 1..Len(t) :
                  /\ t[i].kind = "digits" => Meaning(t, i) = Plus(Meaning(t, i - 1), Counted(t, i))
                  /\ t[i].kind # "digits" => Meaning(t, i) = Meaning(t, i - 1)
<1> DEFINE f == CHOOSE f : Sums(t, f, Len(t))
<1>1. Sums(t, f, Len(t)) /\ Len(t) \in Nat
  BY SumExists, Runs
<1>2. \A n : Meaning(t, n) = f[n]
  BY DEF Meaning, Sums, Term
<1> HIDE DEF f
<1>3. \A i \in 0..Len(t) : f[i] = Term(t, f, i)
  BY <1>1 DEF Sums
<1>4. f[0] = <<0, 0>>
  BY <1>1, <1>3 DEF Term
<1>5. ASSUME NEW i \in 1..Len(t)
      PROVE  /\ t[i].kind = "digits" => f[i] = Plus(f[i - 1], Counted(t, i))
             /\ t[i].kind # "digits" => f[i] = f[i - 1]
  <2>1. i \in 0..Len(t) /\ i > 0 /\ i # 0
    BY <1>1
  <2> QED
    BY <1>3, <2>1 DEF Term
<1> QED
  BY <1>2, <1>4, <1>5

\* The same at one place, with the place before it named.
LEMMA MeaningAt ==
    ASSUME NEW t \in AnyText, NEW i \in 1..Len(t), NEW j, j = i - 1
    PROVE  /\ t[i].kind = "digits" => Meaning(t, i) = Plus(Meaning(t, j), Counted(t, i))
           /\ t[i].kind # "digits" => Meaning(t, i) = Meaning(t, j)
BY MeaningIs

\* The unit of the value at i.
LEMMA UnitAt ==
    ASSUME NEW t \in AnyText, NEW i \in Int, NEW j, NEW l, j = i + 1, l = i + 2
    PROVE  HasUnit(t, i) <=> /\ j \in 1..Len(t) /\ IsUnit(<<t[j]>>)
                             /\ l \in 1..Len(t) => t[l].kind = "digits"
BY Runs DEF HasUnit

\* Runs without digits mean nothing.
LEMMA MeaningOfWords ==
    ASSUME NEW t \in AnyText, NEW p \in 0..Len(t), \A j \in 1..p : t[j].kind # "digits"
    PROVE  Meaning(t, p) = <<0, 0>>
<1> DEFINE S == {q \in 0..p : Meaning(t, q) # <<0, 0>>}
<1>1. Len(t) \in Nat /\ p \in Nat
  BY Runs
<1>2. S \subseteq Nat \ {0}
  BY <1>1, MeaningIs
<1>3. SUFFICES ASSUME S # {} PROVE FALSE
  BY <1>1
<1> DEFINE m == First(S)
<1>4. m \in S /\ (\A j \in S : m <= j) /\ m \in Nat /\ m # 0
  BY <1>2, <1>3, FirstIs
<1>5. m \in 1..p /\ m \in 1..Len(t) /\ m - 1 \in 0..p /\ ~(m <= m - 1)
  BY <1>1, <1>4
<1>6. m - 1 \notin S
  BY <1>4, <1>5
<1>7. Meaning(t, m) = Meaning(t, m - 1)
  BY <1>5, MeaningIs
<1> QED
  BY <1>4, <1>5, <1>6, <1>7

----------------------------------------------------------------------------
\* The loop of MetricFromDuration on a text "all": the rest begins at digits, each value
\* before has a unit, the total d is what they mean, and a text that has been begun begins
\* as one that can be read.
Loop(all, rest, d) ==
    LET taken == Len(all) - Len(rest) IN
    /\ taken \in 0..Len(all) /\ rest = From(all, taken + 1)
    /\ \A i \in Places(all, "digits") : i <= taken => HasUnit(all, i)
    /\ d = Meaning(all, taken)
    /\ taken > 0 /\ rest # <<>> => rest[1].kind = "digits"
    /\ taken > 0 => Begins(all)
    /\ taken = 1 => all[1].kind # "mark"

\* It begins with the whole text.
LEMMA LoopStart ==
    ASSUME NEW all \in AnyText
    PROVE  Loop(all, all, <<0, 0>>)
<1>1. Len(all) \in Nat /\ \A i \in Places(all, "digits") : i \in 1..Len(all)
  BY Runs DEF Places
<1>2. From(all, 1) = all
  BY Whole DEF From
<1>3. Meaning(all, 0) = <<0, 0>>
  BY MeaningIs
<1>4. Len(all) - Len(all) = 0
  BY <1>1
<1> QED
  BY <1>1, <1>2, <1>3, <1>4 DEF Loop

\* A turn of it takes a part off.
LEMMA LoopTurn ==
    ASSUME NEW all \in AnyText, NEW rest, NEW d, Loop(all, rest, d), rest # <<>>,
           getDurationParts(rest).ok
    PROVE  Loop(all, getDurationParts(rest).rest, Plus(d, getDurationParts(rest).d))
<1> DEFINE taken == Len(all) - Len(rest)
           r == getDurationParts(rest)
<1>1. /\ taken \in 0..Len(all) /\ rest = From(all, taken + 1)
      /\ \A i \in Places(all, "digits") : i <= taken => HasUnit(all, i)
      /\ d = Meaning(all, taken)
      /\ taken > 0 => rest[1].kind = "digits" /\ Begins(all)
      /\ taken = 1 => all[1].kind # "mark"
  BY DEF Loop
<1> HIDE DEF taken, r
<1>2. /\ Len(all) \in Nat /\ taken \in Nat /\ rest \in AnyText /\ Len(rest) = Len(all) - taken
      /\ DOMAIN all = 1..Len(all) /\ DOMAIN rest = 1..Len(rest)
      /\ \A j \in 1..(Len(all) - taken) : rest[j] = all[taken + j]
      /\ Len(rest) \in Nat /\ Len(rest) > 0
  <2>1. Len(all) \in Nat /\ taken \in Nat /\ taken + 0 <= Len(all)
    BY <1>1, Runs
  <2>2. /\ rest \in AnyText /\ Len(rest) = Len(all) - taken
        /\ \A j \in 1..(Len(all) - taken) : rest[j] = all[taken + j]
    BY <1>1, <2>1, FromFrom
  <2> QED
    BY <2>1, <2>2, Runs
<1>3. PICK p \in Nat : Part(rest, p)
  BY <1>2, PartsRead
<1> DEFINE new == taken + p
<1>4. /\ p \in 1..Len(rest) /\ r.rest = From(rest, p + 1)
      /\ p < Len(rest) => rest[p + 1].kind = "digits"
      /\ \/ Word(rest) /\ r.d = <<0, 0>> /\ \A i \in 1..p : rest[i].kind # "digits"
         \/ Value(rest) /\ p = 2 /\ r.d = Times(rest[1].n, Units[rest[2].c])
         \/ Signed(rest) /\ p = 3 /\ r.d = Times(IF rest[1] = Mark("-") THEN -rest[2].n ELSE rest[2].n,
                                                 Units[rest[3].c])
  BY <1>3 DEF Part, r
<1>5. new \in 1..Len(all) /\ new > taken /\ new \in Nat
  BY <1>1, <1>2, <1>4
<1>6. /\ r.rest = From(all, new + 1) /\ r.rest \in AnyText /\ Len(r.rest) = Len(all) - new
      /\ \A j \in 1..(Len(all) - new) : r.rest[j] = all[new + j]
  <2>1. r.rest = From(all, taken + p + 1)
    <3>1. taken + p <= Len(all)
      BY <1>5
    <3> QED
      BY <1>1, <1>4, <3>1, FromFrom
  <2>2. new + 0 <= Len(all) /\ new \in 0..Len(all)
    BY <1>5
  <2>3. From(all, taken + p + 1) = From(all, new + 1)
    OBVIOUS
  <2> HIDE DEF new
  <2>4. /\ From(all, new + 1) \in AnyText /\ Len(From(all, new + 1)) = Len(all) - new
        /\ \A j \in 1..(Len(all) - new) : From(all, new + 1)[j] = all[new + j]
    BY <2>2, FromFrom
  <2> QED
    BY <2>1, <2>3, <2>4
<1>7. Len(all) - Len(r.rest) = new
  <2>1. Len(r.rest) = Len(all) - new /\ Len(all) \in Nat /\ new \in Nat
    BY <1>2, <1>5, <1>6
  <2> HIDE DEF new
  <2> QED
    BY <2>1
<1>8. r.rest # <<>> => r.rest[1].kind = "digits"
  <2>1. SUFFICES ASSUME r.rest # <<>> PROVE r.rest[1].kind = "digits"
    OBVIOUS
  <2>2. Len(r.rest) \in Nat /\ Len(r.rest) # 0
    BY <1>6, <2>1, Runs
  <2>3. 1 \in 1..(Len(all) - new) /\ p < Len(rest) /\ p + 1 \in 1..(Len(all) - taken)
    BY <1>2, <1>4, <1>5, <1>6, <2>2
  <2>4. r.rest[1] = all[new + 1] /\ rest[p + 1] = all[taken + (p + 1)]
    BY <1>2, <1>6, <2>3
  <2>5. taken + (p + 1) = new + 1
    BY <1>2
  <2> QED
    BY <1>4, <2>3, <2>4, <2>5
\* It remains to see what the part counts for, in each of the three cases.
<1> DEFINE Rest == /\ \A i \in Places(all, "digits") : i > taken /\ i <= new => HasUnit(all, i)
                   /\ Plus(d, r.d) = Meaning(all, new)
                   /\ Begins(all)
                   /\ new = 1 => all[1].kind # "mark"
<1>9. ASSUME Word(rest), r.d = <<0, 0>>, \A i \in 1..p : rest[i].kind # "digits"
       PROVE  Rest
  <2>1. taken = 0
    BY <1>1, <1>2, <1>9 DEF Word
  <2>2. new = p /\ d = <<0, 0>> /\ \A i \in 1..p : all[i] = rest[i]
    <3>1. \A i \in 1..p : i \in 1..(Len(all) - taken) /\ taken + i = i
      BY <1>2, <1>4, <2>1
    <3> QED
      BY <1>1, <1>2, <2>1, <3>1, MeaningIs
  <2>3. \A j \in 1..p : all[j].kind # "digits"
    BY <1>9, <2>2
  <2>4. Meaning(all, new) = <<0, 0>>
    BY <1>5, <2>2, <2>3, MeaningOfWords
  <2>5. Plus(d, r.d) = <<0, 0>>
    BY <1>9, <2>2 DEF Plus
  <2>6. \A i \in Places(all, "digits") : ~(i > taken /\ i <= new)
    BY <1>2, <2>1, <2>2, <2>3 DEF Places
  <2>7. all[1].kind = "letters"
    BY <1>4, <1>9, <2>2 DEF Word
  <2>8. Rest
    BY <2>4, <2>5, <2>6, <2>7 DEF Begins
  <2> QED
    BY <2>8
<1>10. ASSUME Value(rest) /\ p = 2 /\ r.d = Times(rest[1].n, Units[rest[2].c])
        PROVE  Rest
  <2>1. /\ rest[1] = all[taken + 1] /\ rest[2] = all[taken + 2]
        /\ taken + 1 \in 1..Len(all) /\ taken + 2 \in 1..Len(all) /\ new = taken + 2
        /\ taken + 2 - 1 = taken + 1 /\ taken + 1 - 1 = taken /\ taken + 1 + 1 = taken + 2
        /\ taken + 1 + 2 = taken + 3
    BY <1>2, <1>4, <1>5, <1>10
  <2>2. /\ all[taken + 1].kind = "digits" /\ IsUnit(<<all[taken + 2]>>)
        /\ 3 \in 1..Len(rest) => rest[3].kind = "digits"
    <3>1. rest[1].kind = "digits" /\ HasUnit(rest, 1)
      BY <1>10 DEF Value
    <3>2. IsUnit(<<rest[2]>>) /\ (3 \in 1..Len(rest) => rest[3].kind = "digits")
      BY <1>2, <3>1, UnitAt
    <3> QED
      BY <2>1, <3>1, <3>2
  <2>3. all[taken + 2].kind = "letters"
    BY <2>2 DEF IsUnit
  <2>4. HasUnit(all, taken + 1)
    <3>1. taken + 3 \in 1..Len(all) => 3 \in 1..Len(rest) /\ rest[3] = all[taken + 3]
      BY <1>2
    <3>2. taken + 1 \in Int /\ taken + 2 = taken + 1 + 1 /\ taken + 3 = taken + 1 + 2
      BY <1>2
    <3> QED
      BY <2>1, <2>2, <3>1, <3>2, UnitAt
  <2>5. Counted(all, taken + 1) = Times(rest[1].n, Units[rest[2].c])
    <3>1. ~(taken + 1 = 2 /\ all[1] = Mark("-"))
      BY <1>1, <1>2 DEF Mark
    <3> QED
      BY <2>1, <3>1 DEF Counted
  <2>6. Meaning(all, new) = Plus(d, r.d)
    <3>1. taken = taken + 1 - 1 /\ taken + 1 = taken + 2 - 1
      BY <1>2
    <3>2. Meaning(all, taken + 1) = Plus(Meaning(all, taken), Counted(all, taken + 1))
      <4> DEFINE a == taken + 1
      <4>1. a \in 1..Len(all) /\ taken = a - 1 /\ all[a].kind = "digits"
        <5>1. taken = a - 1
          BY <1>2
        <5> QED
          BY <2>1, <2>2, <5>1
      <4> HIDE DEF a
      <4>2. Meaning(all, a) = Plus(Meaning(all, taken), Counted(all, a))
        BY <4>1, MeaningAt
      <4> QED
        BY <4>2 DEF a
    <3>3. Meaning(all, taken + 2) = Meaning(all, taken + 1)
      BY <2>1, <2>3, <3>1, MeaningAt
    <3> QED
      BY <1>1, <1>10, <2>1, <2>5, <3>2, <3>3
  <2>7. ASSUME NEW i \in Places(all, "digits"), i > taken, i <= new PROVE HasUnit(all, i)
    <3>1. i \in 1..Len(all) /\ all[i].kind = "digits"
      BY <1>2 DEF Places
    <3>2. i = taken + 1 \/ i = taken + 2
      BY <1>2, <2>1, <2>7, <3>1
    <3> QED
      BY <2>3, <2>4, <3>1, <3>2
  <2>8. Begins(all)
    <3>1. CASE taken = 0
      BY <2>2, <3>1 DEF Begins
    <3>2. CASE taken # 0
      BY <1>1, <1>2, <3>2
    <3> QED
      BY <3>1, <3>2
  <2>9. new # 1
    BY <1>2, <2>1
  <2>10. Rest
    BY <2>6, <2>7, <2>8, <2>9
  <2> QED
    BY <2>10
<1>11. ASSUME Signed(rest), p = 3,
              r.d = Times(IF rest[1] = Mark("-") THEN -rest[2].n ELSE rest[2].n, Units[rest[3].c])
       PROVE  Rest
  <2>1. rest[1].kind = "mark"
    BY <1>11, Signs DEF Signed
  <2>2. taken = 0 /\ d = <<0, 0>>
    BY <1>1, <1>2, <2>1, MeaningIs
  <2>3. /\ rest[1] = all[1] /\ rest[2] = all[2] /\ rest[3] = all[3] /\ new = 3
        /\ 1 \in 1..Len(all) /\ 2 \in 1..Len(all) /\ 3 \in 1..Len(all) /\ Len(rest) = Len(all)
    BY <1>2, <1>4, <1>5, <1>11, <2>2
  <2>4. /\ all[2].kind = "digits" /\ IsUnit(<<all[3]>>) /\ SignOf(rest)
        /\ 4 \in 1..Len(rest) => rest[4].kind = "digits"
    BY <1>2, <1>11, <2>3 DEF Signed, HasUnit
  <2>5. all[3].kind = "letters" /\ all[1].kind = "mark"
    BY <2>1, <2>3, <2>4 DEF IsUnit
  <2>6. HasUnit(all, 2)
    <3>1. 4 \in 1..Len(all) => 4 \in 1..Len(rest) /\ rest[4] = all[4]
      BY <1>2, <2>2, <2>3
    <3> QED
      BY <1>2, <2>3, <2>4, <3>1 DEF HasUnit
  <2>7. Counted(all, 2) = r.d
    BY <1>11, <2>3 DEF Counted
  <2>8. Meaning(all, new) = Plus(d, r.d)
    <3>1. Meaning(all, 1) = Meaning(all, 0) /\ Meaning(all, 0) = <<0, 0>>
      BY <2>3, <2>5, MeaningIs
    <3>2. Meaning(all, 2) = Plus(Meaning(all, 1), Counted(all, 2))
      BY <2>3, <2>4, MeaningIs
    <3>3. Meaning(all, 3) = Meaning(all, 2)
      BY <2>3, <2>5, MeaningIs
    <3> QED
      BY <2>2, <2>3, <2>7, <3>1, <3>2, <3>3
  <2>9. ASSUME NEW i \in Places(all, "digits"), i > taken, i <= new PROVE HasUnit(all, i)
    <3>1. i \in 1..Len(all) /\ all[i].kind = "digits"
      BY <1>2 DEF Places
    <3>2. i = 1 \/ i = 2 \/ i = 3
      BY <1>2, <2>2, <2>3, <2>9, <3>1
    <3> QED
      BY <2>5, <2>6, <3>1, <3>2
  <2>10. Begins(all)
    BY <1>2, <2>3, <2>4 DEF Begins, SignOf
  <2>11. Rest
    BY <2>3, <2>8, <2>9, <2>10
  <2> QED
    BY <2>11
<1>12. Rest
  BY <1>4, <1>9, <1>10, <1>11
<1>13. \A i \in Places(all, "digits") : i <= new => HasUnit(all, i)
  <2>1. ASSUME NEW i \in Places(all, "digits"), i <= new PROVE HasUnit(all, i)
    <3>1. i \in Nat
      BY <1>2 DEF Places
    <3> QED
      BY <1>1, <1>2, <1>12, <2>1, <3>1
  <2> QED
    BY <2>1
<1>14. new > 0 /\ new \in 0..Len(all)
  BY <1>2, <1>5
<1> HIDE DEF new
<1>15. Loop(all, r.rest, Plus(d, r.d))
  BY <1>6, <1>7, <1>8, <1>12, <1>13, <1>14 DEF Loop
<1> QED
  BY <1>15 DEF r

\* What the loop cannot read cannot be read at all,
LEMMA LoopFails ==
    ASSUME NEW all \in AnyText, NEW rest, NEW d, Loop(all, rest, d), rest # <<>>,
           ~getDurationParts(rest).ok
    PROVE  ~Readable(all)
<1> DEFINE taken == Len(all) - Len(rest)
<1>1. /\ taken \in 0..Len(all) /\ rest = From(all, taken + 1)
      /\ taken > 0 => rest[1].kind = "digits"
  BY DEF Loop
<1> HIDE DEF taken
<1>2. /\ Len(all) \in Nat /\ taken \in Nat /\ rest \in AnyText /\ Len(rest) = Len(all) - taken
      /\ DOMAIN all = 1..Len(all) /\ DOMAIN rest = 1..Len(rest)
      /\ \A j \in 1..(Len(all) - taken) : rest[j] = all[taken + j]
      /\ Len(rest) \in Nat /\ Len(rest) > 0 /\ (all = <<>> <=> Len(all) = 0)
  <2>1. Len(all) \in Nat /\ taken \in Nat /\ taken + 0 <= Len(all)
    BY <1>1, Runs
  <2>2. /\ rest \in AnyText /\ Len(rest) = Len(all) - taken
        /\ \A j \in 1..(Len(all) - taken) : rest[j] = all[taken + j]
    BY <1>1, <2>1, FromFrom
  <2> QED
    BY <2>1, <2>2, Runs
<1>3. ~Word(rest) /\ ~Value(rest) /\ ~Signed(rest)
  BY <1>2, PartsReadable
<1>4. SUFFICES ASSUME Readable(all) PROVE FALSE
  OBVIOUS
<1>5. Begins(all) /\ \A i \in Places(all, "digits") : HasUnit(all, i)
  <2>1. all # <<>>
    BY <1>2
  <2> QED
    BY <1>4, <2>1 DEF Readable
<1>6. ASSUME NEW i \in 1..Len(rest), rest[i].kind = "digits" PROVE HasUnit(rest, i)
  <2> DEFINE a == taken + i
  <2>1. a \in 1..Len(all) /\ all[a].kind = "digits" /\ a \in Int /\ i \in Int
    BY <1>2, <1>6
  <2>2. a + 1 \in 1..Len(all) => i + 1 \in 1..Len(rest) /\ rest[i + 1] = all[a + 1]
    <3>1. a + 1 \in 1..Len(all) => i + 1 \in 1..(Len(all) - taken) /\ taken + (i + 1) = a + 1
      BY <1>2
    <3> HIDE DEF a
    <3> QED
      BY <1>2, <3>1
  <2>3. i + 2 \in 1..Len(rest) => a + 2 \in 1..Len(all) /\ rest[i + 2] = all[a + 2]
    <3>1. i + 2 \in 1..Len(rest) => i + 2 \in 1..(Len(all) - taken) /\ taken + (i + 2) = a + 2
      BY <1>2
    <3>2. i + 2 \in 1..Len(rest) => a + 2 \in 1..Len(all)
      BY <1>2
    <3> HIDE DEF a
    <3> QED
      BY <1>2, <3>1, <3>2
  <2> HIDE DEF a
  <2>4. HasUnit(all, a)
    BY <1>2, <1>5, <2>1 DEF Places
  <2>5. a + 1 \in 1..Len(all) /\ IsUnit(<<all[a + 1]>>) /\ (a + 2 \in 1..Len(all) => all[a + 2].kind = "digits")
    BY <2>1, <2>4, UnitAt
  <2>6. /\ i + 1 \in 1..Len(rest) /\ IsUnit(<<rest[i + 1]>>)
        /\ i + 2 \in 1..Len(rest) => rest[i + 2].kind = "digits"
    BY <2>2, <2>3, <2>5
  <2> QED
    BY <1>2, <2>1, <2>6, UnitAt
<1>7. 1 \in 1..Len(rest)
  BY <1>2
<1>8. rest[1].kind # "digits"
  BY <1>3, <1>6, <1>7 DEF Value
<1>9. taken = 0 /\ Len(rest) = Len(all) /\ \A j \in 1..Len(all) : rest[j] = all[j]
  <2>1. taken = 0
    BY <1>1, <1>2, <1>8
  <2>2. \A j \in 1..Len(all) : j \in 1..(Len(all) - taken) /\ taken + j = j
    BY <1>2, <2>1
  <2> QED
    BY <1>2, <2>1, <2>2
<1>10. all[1] = rest[1] /\ all[1].kind # "letters"
  BY <1>3, <1>7, <1>9 DEF Word
<1>11. Len(all) > 1 /\ SignOf(all) /\ all[2].kind = "digits"
  BY <1>5, <1>8, <1>10 DEF Begins, SignOf
<1>12. 2 \in 1..Len(rest) /\ rest[2].kind = "digits" /\ SignOf(rest)
  BY <1>2, <1>9, <1>10, <1>11 DEF SignOf
<1>13. Signed(rest)
  BY <1>2, <1>6, <1>12 DEF Signed
<1> QED
  BY <1>3, <1>13

\* and what it reads to the end can, and was counted in full.
LEMMA LoopEnds ==
    ASSUME NEW all \in AnyText, NEW d, Loop(all, <<>>, d)
    PROVE  Readable(all) /\ d = Meaning(all, Len(all))
<1>1. Len(<<>>) = 0 /\ Len(all) \in Nat /\ DOMAIN all = 1..Len(all) /\ (all = <<>> <=> Len(all) = 0)
  BY Runs, EmptySeq
<1>2. /\ \A i \in Places(all, "digits") : i <= Len(all) => HasUnit(all, i)
      /\ d = Meaning(all, Len(all))
      /\ Len(all) > 0 => Begins(all)
  <2>1. Len(all) - Len(<<>>) = Len(all)
    BY <1>1
  <2> QED
    BY <2>1 DEF Loop
<1>3. \A i \in Places(all, "digits") : i <= Len(all)
  BY <1>1 DEF Places
<1> QED
  BY <1>1, <1>2, <1>3 DEF Readable

----------------------------------------------------------------------------
\* Counting the first n positions.
LEMMA CountTo ==
    ASSUME NEW n \in Nat
    PROVE  Cardinality(1..n) = n
<1>1. Cardinality(1..n) = IF 1 > n THEN 0 ELSE n - 1 + 1
  BY FS_Interval
<1> QED
  BY <1>1

\* The text before a mark, as the code finds it and as it is defined.
LEMMA Cutting ==
    ASSUME NEW t \in AnyText, NEW c, NEW i, i = First({j \in DOMAIN t : t[j] = c})
    PROVE  /\ UpTo(t, c) = IF i # 0 THEN Before(t, i) ELSE t
           /\ UpTo(t, c) \in AnyText
<1> DEFINE S == {j \in DOMAIN t : t[j] = c}
           B == {n \in DOMAIN t : \A j \in 1..n : t[j] # c}
<1>1. Len(t) \in Nat /\ DOMAIN t = 1..Len(t) /\ S \subseteq Nat \ {0}
  BY Runs
<1>2. i \in Nat /\ (S = {} <=> i = 0) /\ (S # {} => i \in S /\ \A j \in S : i <= j)
  BY <1>1, FirstIs
<1>3. UpTo(t, c) = SubSeq(t, 1, Cardinality(B))
  BY DEF UpTo
<1>4. CASE i = 0
  <2>1. B = 1..Len(t)
    BY <1>1, <1>2, <1>4
  <2>2. Cardinality(B) = Len(t)
    BY <1>1, <2>1, CountTo
  <2> QED
    BY <1>3, <1>4, <2>2, Whole
<1>5. CASE i # 0
  <2>1. i \in 1..Len(t) /\ t[i] = c
    BY <1>1, <1>2, <1>5
  <2>2. B = 1..(i - 1)
    <3>1. ASSUME NEW n \in 1..(i - 1) PROVE n \in B
      <4>1. \A j \in 1..n : j \in DOMAIN t /\ ~(i <= j)
        BY <1>1, <2>1
      <4> QED
        BY <1>1, <1>2, <1>5, <2>1, <4>1
    <3>2. ASSUME NEW n \in B PROVE n \in 1..(i - 1)
      <4>1. ~(i \in 1..n)
        BY <2>1
      <4> QED
        BY <1>1, <2>1, <4>1
    <3> QED
      BY <3>1, <3>2
  <2>3. Cardinality(B) = i - 1
    <3>1. i - 1 \in Nat
      BY <2>1
    <3> QED
      BY <2>2, <3>1, CountTo
  <2>4. SubSeq(t, 1, i - 1) \in AnyText
    BY <1>1, <2>1, Piece
  <2> QED
    BY <1>3, <1>5, <2>3, <2>4 DEF Before
<1> QED
  BY <1>4, <1>5

\* A list has a length,
LEMMA ListIs ==
    ASSUME list \in Lists
    PROVE  Len(list) \in Nat /\ DOMAIN list = 1..Len(list)
<1>1. list \in Seq({list[j] : j \in DOMAIN list})
  BY ListsAssumption
<1> QED
  BY <1>1, LenProperties

\* its metrics are of the kinds there are, and what they convert is a text.
LEMMA Metrics ==
    ASSUME list \in Lists, sent \in Texts, NEW i \in 1..Len(list), NEW m, m = list[i]
    PROVE  /\ Len(list) \in Nat /\ DOMAIN list = 1..Len(list)
           /\ m.type \in {"simple", "ret", "rxtx", "status", "const"}
           /\ m.conv \in Durations => m.type \in {"simple", "ret"}
           /\ TextOf(m) \in AnyText
           /\ TextOf(m) = TextMeant(m)
<1>1. list \in Seq({list[j] : j \in DOMAIN list})
  BY ListsAssumption
<1>2. Len(list) \in Nat /\ DOMAIN list = 1..Len(list)
  BY <1>1, LenProperties
<1>3. /\ m.type \in {"simple", "ret", "rxtx", "status", "const"}
      /\ m.conv \in Durations => m.type \in {"simple", "ret"}
      /\ m.default \in AnyText
  BY <1>2, ListsAssumption DEF AnyText
<1>4. Found(m) \in AnyText
  BY <1>3, TextsAssumption DEF Found, AnyText
<1> DEFINE t == Found(m)
           j == First({n \in DOMAIN t : t[n] = Mark("@")})
<1>5. UpTo(t, Mark("@")) = (IF j # 0 THEN Before(t, j) ELSE t) /\ UpTo(t, Mark("@")) \in AnyText
  BY <1>4, Cutting
<1>6. TextOf(m) = IF m.type \in {"simple", "ret"} /\ j # 0 THEN Before(t, j) ELSE t
  BY DEF TextOf
<1> HIDE DEF t, j
<1>7. TextOf(m) = IF m.type \in {"simple", "ret"} THEN UpTo(t, Mark("@")) ELSE t
  BY <1>5, <1>6
<1>8. TextOf(m) \in AnyText
  BY <1>4, <1>5, <1>7 DEF t
<1> QED
  BY <1>2, <1>3, <1>7, <1>8 DEF t, TextMeant

----------------------------------------------------------------------------
\* A pair of numbers.  The two texts of a pair, as SplitStringToFloats finds them.
Separators(t, sep) == {i \in DOMAIN t : t[i] = sep}
SecondText(t, sep) ==
    LET rest == From(t, First(Separators(t, sep)) + 1)
        j == First(Separators(rest, sep))
    IN IF j = 0 THEN rest ELSE Before(rest, j)

\* There is one way to split a text with a separator.
LEMMA OneSplit ==
    ASSUME NEW t \in AnyText, NEW sep
    PROVE  /\ Separators(t, sep) = {} => Splits(t, sep) = {}
           /\ Separators(t, sep) # {} =>
                  Splits(t, sep) = {<<Before(t, First(Separators(t, sep))), SecondText(t, sep)>>}
<1> DEFINE S == Separators(t, sep)
           i == First(S)
           rest == From(t, i + 1)
           R == Separators(rest, sep)
           j == First(R)
           e == IF j = 0 THEN Len(t) + 1 ELSE i + j
           Two == {p \in S \X (S \cup {Len(t) + 1}) : {x \in S : x < p[2]} = {p[1]}}
<1>1. Len(t) \in Nat /\ DOMAIN t = 1..Len(t) /\ S \subseteq 1..Len(t)
  BY Runs DEF Separators
<1>2. Splits(t, sep) = {<<Before(t, q[1]), SubSeq(t, q[1] + 1, q[2] - 1)>> : q \in Two}
  BY DEF Splits, Separators
<1>3. CASE S = {}
  <2>1. Two = {}
    BY <1>3
  <2> QED
    BY <1>2, <1>3, <2>1
<1>4. CASE S # {}
  <2>1. i \in S /\ (\A x \in S : i <= x) /\ i \in 1..Len(t)
    BY <1>1, <1>4, FirstIs
  <2>2. /\ rest \in AnyText /\ Len(rest) = Len(t) - i
        /\ \A x \in 1..(Len(t) - i) : rest[x] = t[i + x]
    <3> HIDE DEF i
    <3>1. i \in 0..Len(t) /\ i + 0 <= Len(t)
      BY <1>1, <2>1
    <3> QED
      BY <3>1, FromFrom
  <2>3. DOMAIN rest = 1..(Len(t) - i) /\ R \subseteq Nat \ {0}
    BY <2>2, Runs DEF Separators
  <2>4. j \in Nat /\ (R = {} <=> j = 0) /\ (R # {} => j \in R /\ \A x \in R : j <= x)
    BY <2>3, FirstIs
  <2>5. ASSUME NEW x PROVE x \in R <=> x \in 1..(Len(t) - i) /\ i + x \in S
    <3> HIDE DEF i
    <3>1. x \in R <=> x \in 1..(Len(t) - i) /\ rest[x] = sep
      BY <2>3 DEF Separators
    <3>2. x \in 1..(Len(t) - i) => i + x \in 1..Len(t)
      BY <1>1, <2>1
    <3>3. x \in 1..(Len(t) - i) => (i + x \in S <=> t[i + x] = sep)
      BY <1>1, <3>2 DEF Separators
    <3> QED
      BY <2>2, <3>1, <3>3
  <2> HIDE DEF S, i, R, j
  <2>6. e \in S \cup {Len(t) + 1} /\ e > i /\ e \in Nat
    <3>1. CASE j = 0
      BY <1>1, <2>1, <3>1
    <3>2. CASE j # 0
      <4>1. j \in 1..(Len(t) - i) /\ i + j \in S
        BY <2>4, <2>5, <3>2
      <4> QED
        BY <1>1, <2>1, <3>2, <4>1
    <3> QED
      BY <3>1, <3>2
  <2>7. ASSUME NEW x \in S, x > i PROVE x >= e
    <3>1. x - i \in 1..(Len(t) - i) /\ i + (x - i) = x
      BY <1>1, <2>1, <2>7
    <3>2. x - i \in R
      BY <2>5, <3>1
    <3>3. j # 0 /\ j <= x - i
      BY <2>4, <3>2
    <3> QED
      BY <1>1, <2>1, <2>4, <3>1, <3>3
  <2> HIDE DEF e
  <2>8. {x \in S : x < e} = {i}
    <3>1. ASSUME NEW x \in S, x < e PROVE x = i
      <4>1. x \in Nat /\ i \in Nat /\ i <= x /\ e \in Nat
        BY <1>1, <2>1, <2>6
      <4>2. x > i => x >= e
        BY <2>7
      <4> QED
        BY <3>1, <4>1, <4>2
    <3>2. i \in S /\ i < e
      BY <1>1, <2>1, <2>6
    <3> QED
      BY <3>1, <3>2
  <2>9. Two = {<<i, e>>}
    <3>1. <<i, e>> \in Two
      BY <2>1, <2>6, <2>8
    <3>2. ASSUME NEW p \in Two PROVE p = <<i, e>>
      <4>1. p \in S \X (S \cup {Len(t) + 1}) /\ {x \in S : x < p[2]} = {p[1]}
        OBVIOUS
      <4>2. p = <<p[1], p[2]>> /\ p[1] \in S /\ p[1] < p[2] /\ p[2] \in S \cup {Len(t) + 1}
        BY <4>1
      <4>3. p[1] \in Nat /\ p[2] \in Nat /\ p[2] <= Len(t) + 1
        <5>1. \A x \in S : x \in Nat /\ x <= Len(t)
          BY <1>1
        <5>2. p[2] \in S \/ p[2] = Len(t) + 1
          BY <4>2
        <5> HIDE DEF Two
        <5> QED
          BY <1>1, <4>2, <5>1, <5>2
      <4>4. i < p[2]
        BY <1>1, <2>1, <4>2, <4>3
      <4>5. p[1] = i
        BY <2>1, <4>1, <4>4
      <4>6. p[2] >= e
        <5>1. CASE p[2] \in S
          BY <2>7, <4>4, <5>1
        <5>2. CASE p[2] = Len(t) + 1
          BY <1>1, <2>6, <5>2
        <5> QED
          BY <4>2, <5>1, <5>2
      <4>7. ~(e < p[2])
        <5>1. SUFFICES ASSUME e < p[2] PROVE FALSE
          OBVIOUS
        <5>2. e \in S
          <6>1. e # Len(t) + 1
            BY <1>1, <2>6, <4>3, <5>1
          <6> QED
            BY <2>6, <6>1
        <5>3. e \in {x \in S : x < p[2]}
          BY <5>1, <5>2
        <5>4. e = i
          BY <4>1, <4>5, <5>3
        <5> QED
          BY <2>1, <2>6, <5>4
      <4>8. p[2] = e
        BY <2>6, <4>3, <4>6, <4>7
      <4> QED
        BY <4>2, <4>5, <4>8
    <3> QED
      BY <3>1, <3>2
  <2>10. Splits(t, sep) = {<<Before(t, i), SubSeq(t, i + 1, e - 1)>>}
    <3> HIDE DEF Two
    <3>1. (<<i, e>>)[1] = i /\ (<<i, e>>)[2] = e
      OBVIOUS
    <3> QED
      BY <1>2, <2>9, <3>1
  <2>11. SubSeq(t, i + 1, e - 1) = SecondText(t, sep)
    <3>1. SecondText(t, sep) = IF j = 0 THEN rest ELSE Before(rest, j)
      BY DEF SecondText, j, R, i, S
    <3>2. CASE j = 0
      <4>1. e - 1 = Len(t)
        BY <1>1, <3>2 DEF e
      <4> QED
        BY <3>1, <3>2, <4>1 DEF From
    <3>3. CASE j # 0
      <4>1. j \in 1..(Len(t) - i) /\ e - 1 = i + j - 1 /\ Len(rest) = Len(t) - i
        <5>1. j \in R /\ e = i + j
          BY <2>4, <3>3 DEF e
        <5>2. j \in 1..(Len(t) - i)
          BY <2>5, <5>1
        <5>3. Len(rest) = Len(t) - i
          BY <2>2
        <5>4. e - 1 = i + j - 1
          <6>1. i \in Int /\ j \in Int
            BY <1>1, <2>1, <5>2
          <6> QED
            BY <5>1, <6>1
        <5> HIDE DEF rest
        <5> QED
          BY <5>2, <5>3, <5>4
      <4> DEFINE u == SubSeq(t, i + 1, e - 1)
                 v == SubSeq(rest, 1, j - 1)
      <4> HIDE DEF rest
      <4>2. /\ i + 1 \in Nat \ {0} /\ e - 1 \in Nat /\ e - 1 <= Len(t) /\ i + 1 <= e - 1 + 1
            /\ 1 \in Nat \ {0} /\ j - 1 \in Nat /\ j - 1 <= Len(rest) /\ 1 <= j - 1 + 1
        BY <1>1, <2>1, <4>1
      <4>3. /\ u \in AnyText /\ Len(u) = e - 1 + 1 - (i + 1)
            /\ \A x \in 1..(e - 1 + 1 - (i + 1)) : u[x] = t[i + 1 + x - 1]
        BY <4>2, Piece
      <4>4. /\ v \in AnyText /\ Len(v) = j - 1 + 1 - 1
            /\ \A x \in 1..(j - 1 + 1 - 1) : v[x] = rest[1 + x - 1]
        BY <2>2, <4>2, Piece
      <4>5. Len(u) = Len(v) /\ Len(v) = j - 1
        BY <1>1, <2>1, <4>1, <4>3, <4>4
      <4>6. ASSUME NEW x \in 1..Len(v) PROVE u[x] = v[x]
        <5>1. /\ x \in 1..(e - 1 + 1 - (i + 1)) /\ x \in 1..(j - 1 + 1 - 1) /\ x \in 1..(Len(t) - i)
              /\ i + 1 + x - 1 = i + x /\ 1 + x - 1 = x
          BY <1>1, <2>1, <4>1, <4>5
        <5>2. u[x] = t[i + x] /\ v[x] = rest[x]
          BY <4>3, <4>4, <5>1
        <5> QED
          BY <2>2, <5>1, <5>2
      <4>7. u = v
        BY <4>3, <4>4, <4>5, <4>6, SeqEqual DEF AnyText
      <4> QED
        BY <3>1, <3>3, <4>7 DEF Before
    <3> QED
      BY <3>2, <3>3
  <2> QED
    BY <1>4, <2>10, <2>11 DEF S, i
<1> QED
  BY <1>3, <1>4


\* A number is what MetricFromString accepts,
LEMMA NumberIs ==
    ASSUME NEW v
    PROVE  Number(v) <=> MetricFromString(v).ok
<1>1. MetricFromString(v).ok <=> Atoi(v).ok
  BY DEF MetricFromString, Ok, Error
<1>2. Atoi(v).ok => Len(v) \in 1..2
  BY AtoiIs
<1> QED
  BY <1>1, <1>2 DEF Number

\* and a pair sends both of its numbers, or none.
LEMMA BothOrNone ==
    ASSUME NEW t \in AnyText, NEW sep, NEW r, r = SplitStringToFloats(t, sep)
    PROVE  /\ BothNumbers(t, sep) = IF r.ok THEN RxTx(r.v) ELSE {}
           /\ RxTx(r.v) # {}
<1> DEFINE S == Separators(t, Mark(sep))
           a == Before(t, First(S))
           b == SecondText(t, Mark(sep))
           good == MetricFromString(a).ok /\ MetricFromString(b).ok
<1>1. /\ r.ok <=> S # {} /\ good
      /\ r.ok => r.v = <<MetricFromString(a).v, MetricFromString(b).v>>
  <2> DEFINE rest == From(t, First(S) + 1)
             j == First({k0 \in DOMAIN rest : rest[k0] = Mark(sep)})
  <2>1. b = IF j = 0 THEN rest ELSE Before(rest, j)
    BY DEF SecondText, Separators
  <2>2. r = IF S = {} \/ ~MetricFromString(a).ok
                      \/ ~MetricFromString(IF j = 0 THEN rest ELSE Before(rest, j)).ok
            THEN [ok |-> FALSE, v |-> <<>>]
            ELSE [ok |-> TRUE, v |-> <<MetricFromString(a).v,
                                       MetricFromString(IF j = 0 THEN rest ELSE Before(rest, j)).v>>]
    BY DEF SplitStringToFloats, Separators
  <2> HIDE DEF S, a, b, rest, j
  <2> QED
    BY <2>1, <2>2
<1>2. RxTx(r.v) # {}
  BY DEF RxTx
<1>3. CASE S = {}
  <2>1. Splits(t, Mark(sep)) = {} /\ ~r.ok
    BY <1>1, <1>3, OneSplit
  <2>2. BothNumbers(t, sep) = {}
    BY <2>1 DEF BothNumbers
  <2> QED
    BY <1>2, <2>1, <2>2
<1>4. CASE S # {}
  <2>1. Splits(t, Mark(sep)) = {<<a, b>>}
    BY <1>4, OneSplit
  <2>2. Number(a) /\ Number(b) <=> good
    BY NumberIs
  <2> HIDE DEF S, a, b
  <2> DEFINE T == {x \in Splits(t, Mark(sep)) : Number(x[1]) /\ Number(x[2])}
  <2>3. T = IF good THEN {<<a, b>>} ELSE {}
    BY <2>1, <2>2
  <2>4. BothNumbers(t, sep) =
            UNION {{<<"tx", MetricFromString(c[1]).v>>, <<"rx", MetricFromString(c[2]).v>>} : c \in T}
    BY DEF BothNumbers
  <2> HIDE DEF T
  <2>5. CASE good
    <3>1. BothNumbers(t, sep) = {<<"tx", MetricFromString(a).v>>, <<"rx", MetricFromString(b).v>>}
      BY <2>3, <2>4, <2>5
    <3>2. r.v[1] = MetricFromString(a).v /\ r.v[2] = MetricFromString(b).v
      BY <1>1, <1>4, <2>5
    <3> QED
      BY <1>1, <1>2, <1>4, <2>5, <3>1, <3>2 DEF RxTx
  <2>6. CASE ~good
    BY <1>1, <1>2, <2>3, <2>4, <2>6
  <2> QED
    BY <2>5, <2>6
<1> QED
  BY <1>3, <1>4

----------------------------------------------------------------------------
\* What a metric is expected to send, kind by kind.
LEMMA Kinds ==
    ASSUME NEW m, NEW t
    PROVE  /\ m.type = "const" => Meant(m, t) = {<<"", <<1, 0>>>>}
           /\ m.type = "status" => Meant(m, t) = EachStatus(t, m.values)
           /\ m.type = "rxtx" => Meant(m, t) = BothNumbers(t, m.conv)
           /\ m.type \in {"simple", "ret"} /\ m.conv \in Durations => Meant(m, t) = AllParts(t, m.conv)
           /\ m.type \in {"simple", "ret"} /\ m.conv \notin Durations => Meant(m, t) = OneValue(m, t)
<1>1. ASSUME m.type = "const" PROVE Meant(m, t) = {<<"", <<1, 0>>>>}
  BY <1>1, Zenon DEF Meant
<1>2. ASSUME m.type = "status" PROVE Meant(m, t) = EachStatus(t, m.values)
  BY <1>2 DEF Meant
<1>3. ASSUME m.type = "rxtx" PROVE Meant(m, t) = BothNumbers(t, m.conv)
  BY <1>3 DEF Meant
<1>4. ASSUME m.type \in {"simple", "ret"}, m.conv \in Durations
      PROVE Meant(m, t) = AllParts(t, m.conv)
  BY <1>4 DEF Meant
<1>5. ASSUME m.type \in {"simple", "ret"}, m.conv \notin Durations
      PROVE Meant(m, t) = OneValue(m, t)
  BY <1>5 DEF Meant
<1> QED
  BY <1>1, <1>2, <1>3, <1>4, <1>5

\* Each series is a pair of its name and its value.
ArePairs(S) == \A o \in S : o = <<o[1], o[2]>>

\* A series without a name of its own is such a pair.
LEMMA OnePair ==
    ASSUME NEW x
    PROVE  ArePairs({<<"", x>>})
<1> DEFINE p == <<"", x>>
<1>1. p[1] = "" /\ p[2] = x
  OBVIOUS
<1>2. p = <<p[1], p[2]>>
  BY <1>1
<1> HIDE DEF p
<1>3. ArePairs({p})
  BY <1>2, Zenon DEF ArePairs
<1> QED
  BY <1>3 DEF p

\* All series a metric is expected to send are such pairs.
LEMMA SeriesArePairs ==
    ASSUME NEW m, m.type \in {"simple", "ret", "rxtx", "status", "const"}
    PROVE  ArePairs(Expected(m))
<1> DEFINE t == TextMeant(m)
<1>1. ArePairs({}) /\ ArePairs({<<"", <<1, 0>>>>})
  BY DEF ArePairs
<1>2. ArePairs(EachStatus(t, m.values))
  BY DEF ArePairs, EachStatus
<1>3. ArePairs(BothNumbers(t, m.conv))
  BY DEF ArePairs, BothNumbers
<1>4. ArePairs(AllParts(t, m.conv))
  <2> DEFINE d == Meaning(t, Len(t))
  <2>1. AllParts(t, m.conv) = IF Readable(t) THEN {<<"", IF m.conv = "since" THEN Ago(d) ELSE d>>} ELSE {}
    BY DEF AllParts
  <2> HIDE DEF d, t
  <2>3. CASE Readable(t)
    BY <2>1, <2>3, OnePair
  <2>4. CASE ~Readable(t)
    BY <1>1, <2>1, <2>4
  <2> QED
    BY <2>3, <2>4
<1>5. ArePairs(OneValue(m, t))
  <2>1. CASE Result(m, t).ok
    BY <2>1, OnePair DEF OneValue
  <2>2. CASE ~Result(m, t).ok
    BY <1>1, <2>2 DEF OneValue
  <2> QED
    BY <2>1, <2>2
<1>6. ArePairs(Meant(m, t))
  <2> HIDE DEF t
  <2> QED
    BY <1>1, <1>2, <1>3, <1>4, <1>5, Kinds
<1> QED
  BY <1>1, <1>6 DEF Expected

\* All of this depends on nothing that changes while a list is collected.
LEMMA Same ==
    ASSUME UNCHANGED given, NEW m, m.type \in {"simple", "ret", "rxtx", "status", "const"}
    PROVE  /\ Passes(m)' <=> Passes(m)
           /\ TextOf(m)' = TextOf(m)
           /\ Expected(m)' = Expected(m)
           /\ Fails(m)' <=> Fails(m)
<1>1. (Passes(m)' <=> Passes(m)) /\ Found(m)' = Found(m)
  BY DEF given, Passes, Found
<1>2. TextOf(m)' = TextOf(m)
  BY <1>1 DEF TextOf
<1>3. TextMeant(m)' = TextMeant(m)
  BY <1>1 DEF TextMeant
<1>4. ASSUME NEW t PROVE Meant(m, t)' = Meant(m, t)
  <2>1. \A d : Ago(d)' = Ago(d)
    BY DEF given, Ago
  <2>2. AllParts(t, m.conv)' = AllParts(t, m.conv)
    BY <2>1 DEF AllParts
  <2>3. CASE m.type = "const"
    BY <2>3, Zenon DEF Meant
  <2>4. CASE m.type = "status"
    BY <2>4 DEF Meant
  <2>5. CASE m.type = "rxtx"
    BY <2>5 DEF Meant
  <2>6. CASE m.type \in {"simple", "ret"} /\ m.conv \in Durations
    BY <2>2, <2>6 DEF Meant
  <2>7. CASE m.type \in {"simple", "ret"} /\ m.conv \notin Durations
    BY <2>7 DEF Meant
  <2> QED
    BY <2>3, <2>4, <2>5, <2>6, <2>7
<1>5. Expected(m)' = Expected(m)
  BY <1>1, <1>3, <1>4 DEF Expected
<1> QED
  BY <1>1, <1>2, <1>5 DEF Fails


----------------------------------------------------------------------------
\* The inductive invariant: what the metrics before this one sent and which of them failed
\* are as they should be, and the text being converted is in the state of its converter.
Sent(j) == {<<o[2], o[3]>> : o \in {x \in out : x[1] = j}}
Converting ==
    /\ k <= Len(list) /\ ~Passes(metric) /\ metric.type # "const"
    /\ metric.conv \notin Durations => text = TextOf(metric)
    /\ metric.conv \in Durations => Loop(TextOf(metric), text, total)
Kept ==
    /\ list \in Lists /\ row \in {"void", "lacks", "has"} /\ sent \in Texts /\ now \in Clocks
    /\ pc \in {"next", "convert", "done"} /\ k \in 1..Len(list) + 1
    /\ text \in AnyText /\ total \in Int \X Int
    /\ pc = "next" => text = <<>> /\ total = <<0, 0>>
    /\ pc = "convert" => Converting
    /\ pc = "done" => k = Len(list) + 1
    /\ \A o \in out : o[1] \in 1..(k - 1) \ failed
    /\ \A j \in 1..(k - 1) : Sent(j) = Expected(list[j])
    /\ failed = {j \in 1..(k - 1) : Fails(list[j])}

\* A metric that has been tried: what it sent is what was expected of it, its error is
\* recorded if it has one, and the next is its turn.
LEMMA Tried ==
    ASSUME Kept, k <= Len(list), UNCHANGED given, NextMetric, NEW new,
           new = Expected(metric), Sends(new),
           failed' = IF Fails(metric) THEN failed \cup {k} ELSE failed
    PROVE  Kept'
<1>1. /\ Len(list) \in Nat /\ k \in 1..Len(list) /\ k \in Nat /\ k # 0
      /\ list' = list /\ row' = row /\ sent' = sent /\ now' = now
  <2>1. k \in 1..Len(list) + 1 /\ list \in Lists /\ sent \in Texts
    BY DEF Kept
  <2>2. Len(list) \in Nat
    BY <2>1, ListIs
  <2> QED
    BY <2>1, <2>2 DEF given
<1>2. k' = k + 1 /\ pc' = "next" /\ text' = <<>> /\ total' = <<0, 0>>
  BY DEF NextMetric
<1>3. ASSUME NEW j \in 1..k
      PROVE  /\ (Expected(list[j]))' = Expected(list[j]) /\ (Fails(list[j])' <=> Fails(list[j]))
             /\ list[j].type \in {"simple", "ret", "rxtx", "status", "const"}
  <2>1. j \in 1..Len(list)
    BY <1>1
  <2>2. list[j].type \in {"simple", "ret", "rxtx", "status", "const"}
    BY <2>1, Metrics DEF Kept
  <2>3. \A m : m.type \in {"simple", "ret", "rxtx", "status", "const"} =>
            Expected(m)' = Expected(m) /\ (Fails(m)' <=> Fails(m))
    BY Same
  <2> QED
    BY <1>1, <2>2, <2>3
<1>4. k \in 1..k /\ \A o \in new : o = <<o[1], o[2]>>
  <2>1. k \in 1..k
    BY <1>1
  <2> QED
    BY <1>3, <2>1, SeriesArePairs DEF ArePairs, metric
<1> DEFINE added == {<<k, o[1], o[2]>> : o \in new}
<1>5. out' = out \cup added
  BY DEF Sends
<1>6. \A x \in added : x[1] = k
  OBVIOUS
<1>7. {<<x[2], x[3]>> : x \in added} = new
  <2>1. ASSUME NEW o \in new PROVE o \in {<<x[2], x[3]>> : x \in added}
    <3> DEFINE y == <<k, o[1], o[2]>>
    <3>1. y \in added /\ y[2] = o[1] /\ y[3] = o[2]
      OBVIOUS
    <3> HIDE DEF added, y
    <3>2. <<y[2], y[3]>> = o
      BY <1>4, <3>1
    <3> QED
      BY <3>1, <3>2
  <2>2. ASSUME NEW x \in added PROVE <<x[2], x[3]>> \in new
    <3>1. PICK o \in new : x = <<k, o[1], o[2]>>
      OBVIOUS
    <3>2. x[2] = o[1] /\ x[3] = o[2]
      BY <3>1
    <3> QED
      BY <1>4, <3>2
  <2> QED
    BY <2>1, <2>2
<1> HIDE DEF added
<1>8. \A x \in out : x[1] \in 1..(k - 1) /\ x[1] \notin failed
  BY DEF Kept
<1>9. ASSUME NEW j \in 1..(k - 1) PROVE (Sent(j))' = Sent(j)
  <2>1. {x \in out' : x[1] = j} = {x \in out : x[1] = j}
    <3>1. j # k
      BY <1>1
    <3> QED
      BY <1>5, <1>6, <3>1
  <2> QED
    BY <2>1 DEF Sent
<1>10. ASSUME NEW j, j = k PROVE (Sent(j))' = new
  <2>1. {x \in out' : x[1] = j} = added
    <3>1. k \notin 1..(k - 1)
      BY <1>1
    <3> QED
      BY <1>5, <1>6, <1>8, <1>10, <3>1
  <2>2. {<<x[2], x[3]>> : x \in {y \in out' : y[1] = j}} = new
    BY <1>7, <2>1
  <2> QED
    BY <2>2 DEF Sent
<1>11. ASSUME NEW j \in 1..(k' - 1) PROVE (Sent(j))' = (Expected(list[j]))'
  <2>1. j \in 1..k
    BY <1>1, <1>2
  <2>2. CASE j = k
    BY <1>3, <1>10, <2>1, <2>2 DEF metric
  <2>3. CASE j # k
    <3>1. j \in 1..(k - 1)
      BY <1>1, <2>1, <2>3
    <3>2. Sent(j) = Expected(list[j])
      BY <3>1 DEF Kept
    <3> QED
      BY <1>3, <1>9, <2>1, <3>1, <3>2
  <2> QED
    BY <2>2, <2>3
<1>12. failed' = {j \in 1..(k' - 1) : (Fails(list[j]))'}
  <2>1. \A j : j \in 1..(k' - 1) <=> j \in 1..(k - 1) \/ j = k
    BY <1>1, <1>2
  <2>2. failed = {j \in 1..(k - 1) : Fails(list[j])}
    BY DEF Kept
  <2>3. \A j \in 1..(k - 1) : j \in 1..k
    BY <1>1
  <2>4. \A j \in 1..k : (Fails(list[j]))' <=> Fails(list[j])
    BY <1>3
  <2>5. \A j : j \in failed' <=> j \in failed \/ (j = k /\ Fails(list[k]))
    BY DEF metric
  <2> QED
    BY <1>1, <2>1, <2>2, <2>3, <2>4, <2>5
<1>13. ASSUME NEW o \in out' PROVE o[1] \in 1..(k' - 1) \ failed'
  <2>1. CASE o \in out
    <3>1. o[1] \in 1..(k - 1) /\ o[1] \notin failed
      BY <1>8, <2>1
    <3>2. o[1] # k /\ o[1] \in 1..(k' - 1)
      BY <1>1, <1>2, <3>1
    <3> QED
      BY <3>1, <3>2
  <2>2. CASE o \in added
    <3>1. o[1] = k /\ k \in 1..(k' - 1)
      BY <1>1, <1>2, <1>6, <2>2
    <3>2. new # {}
      BY <2>2 DEF added
    <3>3. ~Fails(metric)
      BY <3>2 DEF Fails
    <3>4. k \notin failed
      <4>1. k \notin 1..(k - 1)
        BY <1>1
      <4> QED
        BY <4>1 DEF Kept
    <3> QED
      BY <3>1, <3>3, <3>4
  <2> QED
    BY <1>5, <2>1, <2>2
<1>14. /\ list' \in Lists /\ row' \in {"void", "lacks", "has"} /\ sent' \in Texts /\ now' \in Clocks
       /\ k' \in 1..Len(list') + 1
  BY <1>1, <1>2 DEF Kept
<1>15. text' \in AnyText /\ total' \in Int \X Int
  BY <1>2, EmptySeq DEF AnyText
<1> QED
  BY <1>2, <1>11, <1>12, <1>13, <1>14, <1>15 DEF Kept
\* A step that stays with the metric.
LEMMA Staying ==
    ASSUME Kept, UNCHANGED <<given, k, out, failed>>, pc' \in {"next", "convert", "done"},
           text' \in AnyText, total' \in Int \X Int,
           pc' = "next" => text' = <<>> /\ total' = <<0, 0>>,
           pc' = "convert" => Converting', pc' = "done" => k' = Len(list') + 1
    PROVE  Kept'
<1>1. /\ list' = list /\ row' = row /\ sent' = sent /\ now' = now
      /\ k' = k /\ out' = out /\ failed' = failed
  BY DEF given
<1>2. Len(list) \in Nat /\ k \in 1..Len(list) + 1
  BY ListIs DEF Kept
<1>3. ASSUME NEW j \in 1..(k - 1)
      PROVE  (Expected(list[j]))' = Expected(list[j]) /\ ((Fails(list[j]))' <=> Fails(list[j]))
  <2>1. j \in 1..Len(list)
    BY <1>2
  <2>2. list[j].type \in {"simple", "ret", "rxtx", "status", "const"}
    BY <2>1, Metrics DEF Kept
  <2>3. \A m : m.type \in {"simple", "ret", "rxtx", "status", "const"} =>
            Expected(m)' = Expected(m) /\ (Fails(m)' <=> Fails(m))
    BY Same
  <2> QED
    BY <1>1, <2>2, <2>3
<1>4. \A j : (Sent(j))' = Sent(j)
  BY <1>1 DEF Sent
<1>5. \A j \in 1..(k' - 1) : (Sent(j))' = (Expected(list[j]))'
  BY <1>1, <1>3, <1>4 DEF Kept
<1>6. failed' = {j \in 1..(k' - 1) : (Fails(list[j]))'}
  BY <1>1, <1>3 DEF Kept
<1>7. \A o \in out' : o[1] \in 1..(k' - 1) \ failed'
  BY <1>1 DEF Kept
<1>8. /\ list' \in Lists /\ row' \in {"void", "lacks", "has"} /\ sent' \in Texts /\ now' \in Clocks
      /\ k' \in 1..Len(list') + 1
  BY <1>1 DEF Kept
<1> QED
  BY <1>5, <1>6, <1>7, <1>8 DEF Kept

\* The metric converted, and its text.
LEMMA Current ==
    ASSUME Kept, k <= Len(list), NEW m, m = metric
    PROVE  /\ k \in 1..Len(list) /\ Len(list) \in Nat
           /\ m.type \in {"simple", "ret", "rxtx", "status", "const"}
           /\ m.conv \in Durations => m.type \in {"simple", "ret"}
           /\ TextOf(m) \in AnyText /\ TextOf(m) = TextMeant(m)
<1>1. list \in Lists /\ sent \in Texts /\ k \in 1..Len(list) + 1
  BY DEF Kept
<1>2. Len(list) \in Nat
  BY <1>1, ListIs
<1>3. k \in 1..Len(list) /\ m = list[k]
  BY <1>1, <1>2 DEF metric
<1> QED
  BY <1>1, <1>2, <1>3, Metrics

\* What a converter that takes the text at once makes of it is what is expected of it.
LEMMA ConvertedAsMeant ==
    ASSUME NEW m, NEW t \in AnyText, m.type \in {"simple", "ret", "rxtx", "status"},
           m.conv \notin Durations, NEW r, r = Result(m, t)
    PROVE  /\ Meant(m, t) = IF r.ok THEN Series(m, r.v, t) ELSE {}
           /\ r.ok => m.type = "status" \/ Series(m, r.v, t) # {}
           /\ m.type = "status" => r.ok
<1>1. CASE m.type = "rxtx"
  <2>1. r = SplitStringToFloats(t, m.conv)
    BY <1>1, Zenon DEF Result
  <2>2. Series(m, r.v, t) = RxTx(r.v)
    BY <1>1, Zenon DEF Series
  <2>3. Meant(m, t) = BothNumbers(t, m.conv)
    BY <1>1, Kinds
  <2> QED
    BY <1>1, <2>1, <2>2, <2>3, BothOrNone
<1>2. CASE m.type = "status"
  <2>1. r.ok
    <3>1. r = Ok(<<>>)
      BY <1>2, Zenon DEF Result
    <3> QED
      BY <3>1 DEF Ok
  <2>2. Series(m, r.v, t) =
            {<<s, IF t = <<Letters(s)>> THEN <<1, 0>> ELSE <<0, 0>>>> : s \in m.values}
    BY <1>2 DEF Series
  <2>3. \A s : (IF t = <<Letters(s)>> THEN <<1, 0>> ELSE <<0, 0>>)
                   = <<IF t = <<Letters(s)>> THEN 1 ELSE 0, 0>>
    OBVIOUS
  <2>4. Series(m, r.v, t) = EachStatus(t, m.values)
    BY <2>2, <2>3 DEF EachStatus
  <2>5. Meant(m, t) = EachStatus(t, m.values)
    BY <1>2, Kinds
  <2> QED
    BY <1>2, <2>1, <2>4, <2>5
<1>3. CASE m.type \in {"simple", "ret"}
  <2>1. Series(m, r.v, t) = {<<"", r.v>>}
    BY <1>3 DEF Series
  <2>2. Meant(m, t) = OneValue(m, t)
    BY <1>3, Kinds
  <2>3. {<<"", r.v>>} # {}
    OBVIOUS
  <2> QED
    BY <1>3, <2>1, <2>2, <2>3 DEF OneValue
<1> QED
  BY <1>1, <1>2, <1>3

\* A part of a duration is a number of seconds and one of microseconds.
LEMMA PartsAreNumbers ==
    ASSUME NEW t \in AnyText, t # <<>>, getDurationParts(t).ok
    PROVE  getDurationParts(t).d \in Int \X Int
<1> DEFINE d == getDurationParts(t).d
<1>1. PICK p \in Nat : Part(t, p)
  BY PartsRead
<1>2. ASSUME NEW c \in DOMAIN Units PROVE Units[c][1] \in Int /\ Units[c][2] \in Int
  BY DEF Units
<1>3. ASSUME NEW n \in Int, NEW c \in DOMAIN Units PROVE Times(n, Units[c]) \in Int \X Int
  BY <1>2 DEF Times
<1>4. \A i \in 1..Len(t) : t[i].n \in Int /\ -t[i].n \in Int
  BY Runs DEF Run
<1>5. Len(t) \in Nat /\ Len(t) # 0
  BY Runs
<1>6. CASE d = <<0, 0>>
  BY <1>6
<1>7. CASE Value(t) /\ d = Times(t[1].n, Units[t[2].c])
  <2>1. HasUnit(t, 1) /\ 1 + 1 = 2 /\ 1 + 2 = 3
    BY <1>7 DEF Value
  <2>2. IsUnit(<<t[2]>>) /\ 1 \in 1..Len(t)
    BY <1>5, <2>1, UnitAt
  <2>3. t[2].c \in DOMAIN Units
    BY <2>2 DEF IsUnit
  <2> QED
    BY <1>3, <1>4, <1>7, <2>2, <2>3
<1>8. CASE /\ Signed(t)
           /\ d = Times(IF t[1] = Mark("-") THEN -t[2].n ELSE t[2].n, Units[t[3].c])
  <2>1. HasUnit(t, 2) /\ 2 + 1 = 3 /\ 2 + 2 = 4 /\ 2 \in 1..Len(t)
    BY <1>5, <1>8 DEF Signed
  <2>2. IsUnit(<<t[3]>>)
    BY <2>1, UnitAt
  <2>3. t[3].c \in DOMAIN Units
    BY <2>2 DEF IsUnit
  <2> DEFINE n == IF t[1] = Mark("-") THEN -t[2].n ELSE t[2].n
  <2>4. n \in Int
    BY <1>4, <2>1
  <2> HIDE DEF n
  <2> QED
    BY <1>3, <1>8, <2>3, <2>4 DEF n
<1> QED
  BY <1>1, <1>6, <1>7, <1>8 DEF Part


\* The invariant holds at the start,
LEMMA KeptAtStart ==
    ASSUME Init
    PROVE  Kept
<1>1. Len(list) \in Nat /\ k = 1 /\ list \in Lists
  BY ListIs DEF Init
<1>2. 1..(k - 1) = {} /\ k \in 1..Len(list) + 1
  BY <1>1
<1>3. text \in AnyText /\ total \in Int \X Int
  BY EmptySeq DEF Init, AnyText
<1>4. \A j \in 1..(k - 1) : Sent(j) = Expected(list[j])
  BY <1>2
<1>5. failed = {j \in 1..(k - 1) : Fails(list[j])}
  BY <1>2 DEF Init
<1> QED
  BY <1>1, <1>2, <1>3, <1>4, <1>5 DEF Init, Kept

\* and each step keeps it.
LEMMA KeptByStep ==
    ASSUME Kept, [Next]_vars
    PROVE  Kept'
<1> DEFINE m == metric
           t == TextOf(m)
<1>1. ASSUME NEW new, new = {}, UNCHANGED out PROVE Sends(new)
  <2>1. {<<k, o[1], o[2]>> : o \in new} = {}
    BY <1>1
  <2> QED
    BY <1>1, <2>1 DEF Sends
<1>2. CASE Skip
  <2>1. Expected(m) = {} /\ ~Fails(m)
    BY <1>2 DEF Skip, Expected, Fails
  <2>2. Sends(Expected(m))
    BY <1>1, <1>2, <2>1 DEF Skip
  <2> QED
    BY <1>2, <2>1, <2>2, Tried DEF Skip
<1>3. CASE SendConst
  <2>1. Expected(m) = {<<"", <<1, 0>>>>}
    BY <1>3, Kinds DEF SendConst, Expected
  <2>2. ~Fails(m)
    BY <2>1 DEF Fails
  <2> QED
    BY <1>3, <2>1, <2>2, Tried DEF SendConst
<1>4. CASE LookUp
  <2>1. /\ k <= Len(list) /\ ~Passes(m) /\ m.type # "const" /\ text' = t /\ t \in AnyText
        /\ m.type \in {"simple", "ret", "rxtx", "status", "const"}
    BY <1>4, Current DEF LookUp
  <2>2. (Passes(m)' <=> Passes(m)) /\ (TextOf(m))' = t /\ metric' = m /\ k' = k /\ list' = list
    <3>1. k' = k /\ list' = list /\ metric' = metric /\ UNCHANGED given
      BY <1>4 DEF LookUp, given, metric
    <3>2. \A x : x.type \in {"simple", "ret", "rxtx", "status", "const"} =>
              (Passes(x)' <=> Passes(x)) /\ TextOf(x)' = TextOf(x)
      BY <3>1, Same
    <3> QED
      BY <2>1, <3>1, <3>2
  <2>3. total' = <<0, 0>> /\ total' \in Int \X Int
    BY <1>4 DEF LookUp, Kept
  <2>4. Loop(t, t, <<0, 0>>)
    BY <2>1, LoopStart
  <2>5. Converting'
    BY <2>1, <2>2, <2>3, <2>4 DEF Converting
  <2> QED
    BY <1>4, <2>1, <2>3, <2>5, Staying DEF LookUp
<1>5. CASE Convert
  <2>1. /\ Converting /\ k <= Len(list) /\ ~Passes(m) /\ m.type # "const" /\ m.conv \notin Durations
        /\ text = t
    BY <1>5 DEF Convert, Kept, Converting
  <2>2. t \in AnyText /\ t = TextMeant(m) /\ m.type \in {"simple", "ret", "rxtx", "status"}
    BY <2>1, Current
  <2> DEFINE r == Result(m, t)
  <2>3. /\ Expected(m) = IF r.ok THEN Series(m, r.v, t) ELSE {}
        /\ r.ok => m.type = "status" \/ Series(m, r.v, t) # {}
        /\ m.type = "status" => r.ok
    BY <2>1, <2>2, ConvertedAsMeant DEF Expected
  <2>4. UNCHANGED given /\ NextMetric
    BY <1>5 DEF Convert, AfterError
  <2>5. CASE r.ok /\ Sends(Series(m, r.v, t)) /\ UNCHANGED failed
    <3>1. ~Fails(m)
      BY <2>3, <2>5 DEF Fails
    <3> QED
      BY <2>1, <2>3, <2>4, <2>5, <3>1, Tried
  <2>6. CASE ~r.ok /\ failed' = failed \cup {k} /\ UNCHANGED out
    <3>1. Fails(m) /\ Expected(m) = {}
      BY <2>1, <2>3, <2>6 DEF Fails
    <3>2. Sends(Expected(m))
      BY <1>1, <2>6, <3>1
    <3> QED
      BY <2>1, <2>4, <2>6, <3>1, <3>2, Tried
  <2> QED
    BY <1>5, <2>1, <2>5, <2>6 DEF Convert
<1>6. ASSUME pc = "convert", m.conv \in Durations
      PROVE  /\ k <= Len(list) /\ ~Passes(m) /\ m.type \in {"simple", "ret"}
             /\ t \in AnyText /\ Loop(t, text, total)
             /\ Expected(m) = AllParts(t, m.conv)
  <2>1. Converting
    BY <1>6 DEF Kept
  <2>2. k <= Len(list) /\ ~Passes(m) /\ Loop(t, text, total)
    BY <1>6, <2>1 DEF Converting
  <2>3. m.type \in {"simple", "ret"} /\ t \in AnyText /\ t = TextMeant(m)
    BY <1>6, <2>2, Current
  <2> QED
    BY <1>6, <2>2, <2>3, Kinds DEF Expected
<1>7. CASE AddPart
  <2> DEFINE r == getDurationParts(text)
  <2>1. pc = "convert" /\ m.conv \in Durations /\ text # <<>> /\ r.ok
    BY <1>7 DEF AddPart, InLoop
  <2>2. text' = r.rest /\ total' = Plus(total, r.d)
    BY <1>7 DEF AddPart
  <2>3. Loop(t, r.rest, Plus(total, r.d))
    BY <1>6, <2>1, LoopTurn
  <2>4. text' \in AnyText
    <3>1. \E p \in 0..Len(t) : r.rest = From(t, p + 1)
      BY <2>3 DEF Loop
    <3>2. \A p \in 0..Len(t) : From(t, p + 1) \in AnyText
      <4>1. ASSUME NEW p \in 0..Len(t) PROVE From(t, p + 1) \in AnyText
        <5>1. t \in AnyText /\ Len(t) \in Nat
          BY <1>6, <2>1, Runs
        <5> HIDE DEF t
        <5>2. p + 0 <= Len(t) /\ 0 \in Nat
          BY <5>1
        <5> QED
          BY <5>1, <5>2, FromFrom
      <4> QED
        BY <4>1
    <3> QED
      BY <2>2, <3>1, <3>2
  <2>5. total' \in Int \X Int
    <3>1. r.d \in Int \X Int /\ total \in Int \X Int
      BY <2>1, PartsAreNumbers DEF Kept
    <3> HIDE DEF r
    <3> QED
      BY <2>2, <3>1 DEF Plus
  <2>6. /\ m.type \in {"simple", "ret", "rxtx", "status", "const"}
        /\ (Passes(m)' <=> Passes(m)) /\ (TextOf(m))' = t /\ metric' = m /\ k' = k /\ list' = list
    <3>1. k' = k /\ list' = list /\ metric' = metric /\ UNCHANGED given
      BY <1>7 DEF AddPart, given, metric
    <3>2. \A x : x.type \in {"simple", "ret", "rxtx", "status", "const"} =>
              (Passes(x)' <=> Passes(x)) /\ TextOf(x)' = TextOf(x)
      BY <3>1, Same
    <3>3. m.type \in {"simple", "ret", "rxtx", "status", "const"}
      BY <1>6, <2>1
    <3> QED
      BY <3>1, <3>2, <3>3
  <2>7. Converting'
    BY <1>6, <2>1, <2>2, <2>3, <2>6 DEF Converting
  <2> QED
    BY <1>7, <2>1, <2>4, <2>5, <2>7, Staying DEF AddPart
<1>8. CASE BadPart
  <2>1. pc = "convert" /\ m.conv \in Durations /\ text # <<>> /\ ~getDurationParts(text).ok
    BY <1>8 DEF BadPart, InLoop
  <2>2. ~Readable(t)
    BY <1>6, <2>1, LoopFails
  <2>3. Expected(m) = {} /\ Fails(m)
    BY <1>6, <2>1, <2>2 DEF AllParts, Fails
  <2>4. Sends(Expected(m))
    BY <1>1, <1>8, <2>3 DEF BadPart
  <2> QED
    BY <1>6, <1>8, <2>1, <2>3, <2>4, Tried DEF BadPart, AfterError
<1>9. CASE SendDuration
  <2>1. pc = "convert" /\ m.conv \in Durations /\ text = <<>>
    BY <1>9 DEF SendDuration
  <2>2. Readable(t) /\ total = Meaning(t, Len(t))
    BY <1>6, <2>1, LoopEnds
  <2>3. Expected(m) = {<<"", IF m.conv = "since" THEN Ago(total) ELSE total>>}
    BY <1>6, <2>1, <2>2 DEF AllParts
  <2>4. ~Fails(m)
    BY <2>3 DEF Fails
  <2> QED
    BY <1>6, <1>9, <2>1, <2>3, <2>4, Tried DEF SendDuration
<1>10. CASE Return
  <2>1. list' = list
    BY <1>10 DEF Return, given
  <2>2. text \in AnyText /\ total \in Int \X Int
    BY DEF Kept
  <2> QED
    BY <1>10, <2>1, <2>2, Staying DEF Return
<1>11. CASE UNCHANGED vars
  <2>1. UNCHANGED <<given, k, out, failed>> /\ list' = list /\ text' = text /\ total' = total /\ pc' = pc
    BY <1>11 DEF vars, given
  <2>2. Converting' <=> Converting
    BY <1>11 DEF vars, given, Converting, metric, Passes, TextOf, Found
  <2> QED
    BY <2>1, <2>2, Staying DEF Kept
<1> QED
  BY <1>2, <1>3, <1>4, <1>5, <1>7, <1>8, <1>9, <1>10, <1>11 DEF Next


\* The three invariants follow from it.
LEMMA KeptImplies ==
    ASSUME Kept
    PROVE  TypeOK /\ NothingLost /\ ListComplete
<1>1. Len(list) \in Nat /\ DOMAIN list = 1..Len(list)
  BY ListIs DEF Kept
<1>2. \A i \in DOMAIN text : text[i].kind \in {"digits", "letters", "mark", "date"}
  <2>1. text \in AnyText
    BY DEF Kept
  <2> QED
    BY <2>1, Runs DEF Run
<1>3. failed \subseteq 1..(k - 1)
  BY DEF Kept
<1>4. TypeOK
  BY <1>2, <1>3 DEF Kept, Converting, TypeOK
<1>5. NothingLost
  BY DEF Kept, Converting, Loop, NothingLost
<1>6. ASSUME pc = "done" PROVE 1..(k - 1) = DOMAIN list
  BY <1>1, <1>6 DEF Kept
<1>7. ListComplete
  <2>1. \A j \in 1..(k - 1) : {<<o[2], o[3]>> : o \in {x \in out : x[1] = j}} = Expected(list[j])
    BY DEF Kept, Sent
  <2>2. failed = {j \in 1..(k - 1) : Fails(list[j])}
    BY DEF Kept
  <2> QED
    BY <1>6, <2>1, <2>2 DEF ListComplete
<1> QED
  BY <1>4, <1>5, <1>7

----------------------------------------------------------------------------
\* PropertyMetricList.Collect tries its metrics one after the other, and each ends with what
\* it sent and its error: the inductive invariant holds in every state.
THEOREM KeptAlways == Spec => []Kept
BY KeptAtStart, KeptByStep, PTL DEF Spec

\* The variables have their types; a metric sends something or has an error, not both, and
\* none before its turn.
THEOREM TypeCorrect == Spec => []TypeOK
<1>1. Kept => TypeOK
  BY KeptImplies
<1> QED
  BY <1>1, KeptAlways, PTL

\* MetricFromDuration and UnixTimeFromDuration count each value of a text once, with its own
\* unit, and between two parts the rest begins at a value.
THEOREM LoopLosesNothing == Spec => []NothingLost
<1>1. Kept => NothingLost
  BY KeptImplies
<1> QED
  BY <1>1, KeptAlways, PTL

\* Collect of a list sends for each metric what its own text means, whatever the others could
\* not read, and is an error exactly if one of them could not be read.
THEOREM ListsComplete == Spec => []ListComplete
<1>1. Kept => ListComplete
  BY KeptImplies
<1> QED
  BY <1>1, KeptAlways, PTL

=============================================================================
