----------------------------- MODULE Converters -----------------------------
(***************************************************************************)
(* The conversions of internal/convert/converters.go: from the text a      *)
(* device sends for a property to the number of a metric, or an error.  A  *)
(* text is the sequence of its runs of digits and of letters, with each    *)
(* other character on its own; what is told apart is what the code tells   *)
(* apart.  A number is a pair: its whole part and, for durations, its      *)
(* microseconds.                                                           *)
(***************************************************************************)
EXTENDS Integers, Sequences

Digits(n) == [kind |-> "digits", n |-> n, c |-> ""]
Letters(c) == [kind |-> "letters", n |-> 0, c |-> c]  \* characters from 'A' on
Mark(c) == [kind |-> "mark", n |-> 0, c |-> c]    \* a character below 'A' that is no digit
Date(c, n) == [kind |-> "date", n |-> n, c |-> c] \* second n of UTC, written in layout c

Ok(v) == [ok |-> TRUE, v |-> v]
Error == [ok |-> FALSE, v |-> <<0, 0>>]

\* Places of a kind in a text, and the first of some places, 0 if there is none.
Places(t, kind) == {i \in DOMAIN t : t[i].kind = kind}
First(S) == IF S = {} THEN 0 ELSE CHOOSE i \in S : \A j \in S : i <= j
From(t, i) == SubSeq(t, i, Len(t))
Before(t, i) == SubSeq(t, 1, i - 1)

----------------------------------------------------------------------------
\* strconv.Atoi and ParseFloat on a run of digits and its sign.  Fractions, exponents, "inf"
\* and numbers out of range are left out.
Atoi(t) ==
    CASE Len(t) = 1 /\ t[1].kind = "digits" -> Ok(t[1].n)
      [] Len(t) = 2 /\ t[2].kind = "digits" /\ t[1] = Mark("-") -> Ok(-t[2].n)
      [] Len(t) = 2 /\ t[2].kind = "digits" /\ t[1] = Mark("+") -> Ok(t[2].n)
      [] OTHER -> [ok |-> FALSE, v |-> 0]
MetricFromString(t) == LET n == Atoi(t) IN IF n.ok THEN Ok(<<n.v, 0>>) ELSE Error

\* The comparisons with certain words: all other texts are 0.
Affirming ==
    [bool |-> {"true", "yes"}, boolneg |-> {"false"}, enabled |-> {"enabled"},
     running |-> {"running"}]
MetricFromWord(words, t) == Ok(IF \E w \in words : t = <<Letters(w)>> THEN <<1, 0>> ELSE <<0, 0>>)

\* Two numbers on both sides of a separator; what a second one separates is dropped.
SplitStringToFloats(t, sep) ==
    LET seps == {i \in DOMAIN t : t[i] = Mark(sep)}
        i == First(seps)
        rest == From(t, i + 1)
        j == First({k \in DOMAIN rest : rest[k] = Mark(sep)})
        m1 == MetricFromString(Before(t, i))
        m2 == MetricFromString(IF j = 0 THEN rest ELSE Before(rest, j))
    IN IF seps = {} \/ ~m1.ok \/ ~m2.ok THEN [ok |-> FALSE, v |-> <<>>]
       ELSE [ok |-> TRUE, v |-> <<m1.v, m2.v>>]

\* Two layouts are tried.  Both read the clock as UTC.
ParseTS(t) ==
    CASE t = <<>> -> Ok(<<0, 0>>)
      [] Len(t) = 1 /\ t[1].kind = "date" -> Ok(<<t[1].n, 0>>)
      [] OTHER -> Error

----------------------------------------------------------------------------
\* Durations: seconds and microseconds of each unit.
Units ==
    [w |-> <<604800, 0>>, d |-> <<86400, 0>>, h |-> <<3600, 0>>, m |-> <<60, 0>>,
     s |-> <<1, 0>>, ms |-> <<0, 1000>>, us |-> <<0, 1>>]
IsUnit(t) == Len(t) = 1 /\ t[1].kind = "letters" /\ t[1].c \in DOMAIN Units
Times(n, unit) == <<n * unit[1], n * unit[2]>>
Plus(d, e) == <<d[1] + e[1], d[2] + e[2]>>

\* The first part of a duration: a value up to the first letter, its unit up to the next
\* digit, and the rest.  Without a value the unit may be anything, and the part is 0.
NextValue(t, i) == First({k \in Places(t, "digits") : k > i})
RestShort(t, i) ==                          \* mutant: the next value is taken off too
    IF NextValue(t, i) = 0 THEN <<>> ELSE From(t, NextValue(t, i) + 1)
RestKept(t, i) ==                           \* mutant: the last unit stays
    IF NextValue(t, i) = 0 THEN From(t, i) ELSE From(t, NextValue(t, i))
RestAfter(t, i) ==
    IF NextValue(t, i) = 0 THEN <<>> ELSE From(t, NextValue(t, i))

getDurationParts(t) ==
    LET i == First(Places(t, "letters"))
        value == Before(t, i)
        rest == RestAfter(t, i)
        next == NextValue(t, i)
        unit == IF next = 0 THEN From(t, i) ELSE SubSeq(t, i, next - 1)
        failed == [ok |-> FALSE, d |-> <<0, 0>>, rest |-> <<>>]
    IN CASE i = 0 -> failed
         [] i # 0 /\ value = <<>> -> [ok |-> TRUE, d |-> <<0, 0>>, rest |-> rest]
         [] i # 0 /\ value # <<>> ->
                LET v == Atoi(value)
                IN IF v.ok /\ IsUnit(unit)
                   THEN [ok |-> TRUE, d |-> Times(v.v, Units[unit[1].c]), rest |-> rest]
                   ELSE failed

=============================================================================
