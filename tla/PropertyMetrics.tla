--------------------------- MODULE PropertyMetrics ---------------------------
(***************************************************************************)
(* A list of property metrics collected from one row of a reply:           *)
(* PropertyMetricList.Collect and Collect of each kind of metric           *)
(* (internal/metrics).  A metric looks up its property, converts the text  *)
(* and sends one series or several; what one metric cannot read is an      *)
(* error that is joined and does not keep the next one from being tried.   *)
(* The metrics of a list here read the same property.                      *)
(***************************************************************************)
EXTENDS Converters, FiniteSets

----------------------------------------------------------------------------
\* What the builders make: counters and gauges with a converter, by default
\* MetricFromString, gauges of reply.Done, pairs of counters, by default with a comma
\* between the numbers, a gauge for each status, and a gauge that is always 1.
Simple(conv) == [type |-> "simple", conv |-> conv, default |-> <<>>, values |-> {}]
Plain == Simple("string")
Ret == [Plain EXCEPT !.type = "ret"]
Pair(sep) == [Plain EXCEPT !.type = "rxtx", !.conv = sep]
PlainPair == Pair(",")
Status(values) == [Plain EXCEPT !.type = "status", !.conv = "", !.values = values]
Const == [Plain EXCEPT !.type = "const", !.conv = ""]
\* WithDefault; it panics for a metric that is always 1, and a RetMetricBuilder has none.
OrElse(m, word) == [m EXCEPT !.default = <<Letters(word)>>]

CONSTANTS
    Lists,    \* lists of metrics, as builders leave them
    Texts,    \* what a device may send for the property
    Clocks    \* readings of time.Now, seconds and microseconds

Run == [kind : {"digits", "letters", "mark", "date"}, n : Nat, c : STRING]
Durations == {"duration", "since"}

ASSUME ListsAssumption ==
    \A l \in Lists :
        /\ l \in Seq({l[i] : i \in DOMAIN l})
        /\ \A i \in DOMAIN l :
               /\ l[i].type \in {"simple", "ret", "rxtx", "status", "const"}
               /\ l[i].type \in {"ret", "const"} => l[i].default = <<>>
               /\ l[i].default \in Seq(Run)
               /\ l[i].conv \in Durations => l[i].type \in {"simple", "ret"}
ASSUME TextsAssumption == Texts \subseteq Seq(Run)
ASSUME ClocksAssumption == \A c \in Clocks : c[1] \in Nat /\ c[2] \in 0..999999

VARIABLES
    list,     \* the metrics
    row,      \* "void": a reply without properties, "lacks": without this one, "has": with it
    sent,     \* the text it has
    now,      \* time.Now when it is asked for
    pc,       \* "next": before a metric, "convert": in its converter, "done"
    k,        \* the metric collected
    text,     \* what is left to convert
    total,    \* totalDur
    out,      \* series sent: metric, which of its series, value
    failed    \* metrics with an error

given == <<list, row, sent, now>>
vars == <<list, row, sent, now, pc, k, text, total, out, failed>>

metric == list[k]

TypeOK ==
    /\ list \in Lists /\ row \in {"void", "lacks", "has"} /\ sent \in Texts /\ now \in Clocks
    /\ pc \in {"next", "convert", "done"}
    /\ k \in 1..Len(list) + 1 /\ (pc = "convert" => k <= Len(list))
    /\ \A i \in DOMAIN text : text[i].kind \in {"digits", "letters", "mark", "date"}
    /\ total \in Int \X Int
    /\ failed \subseteq 1..(k - 1) /\ \A o \in out : o[1] \in 1..(k - 1) \ failed

Init ==
    /\ list \in Lists /\ row \in {"void", "lacks", "has"} /\ sent \in Texts /\ now \in Clocks
    /\ row # "has" => sent = <<>>
    /\ pc = "next" /\ k = 1 /\ text = <<>> /\ total = <<0, 0>>
    /\ out = {} /\ failed = {}

----------------------------------------------------------------------------
\* The property or its default, which is "" for none.  Plain metrics drop what follows an
\* "@", also where nothing is left then; the others take the text as it is.
Found(m) == IF row = "has" THEN sent ELSE m.default
TextOf(m) ==
    LET t == Found(m)
        i == First({j \in DOMAIN t : t[j] = Mark("@")})
    IN IF m.type \in {"simple", "ret"} /\ i # 0 THEN Before(t, i) ELSE t

\* Nothing to send: that is no error.
Passes(m) == row = "void" \/ (row = "lacks" /\ m.default = <<>>)
                 \/ (m.type # "const" /\ Found(m) = <<>>)

Sends(new) == out' = out \cup {<<k, o[1], o[2]>> : o \in new}
NextMetric == k' = k + 1 /\ pc' = "next" /\ text' = <<>> /\ total' = <<0, 0>>
EndList == pc' = "done" /\ UNCHANGED <<k, text, total>>  \* mutant: the first error is returned
AfterError == NextMetric

Skip ==
    /\ pc = "next" /\ k <= Len(list) /\ Passes(metric)
    /\ NextMetric
    /\ UNCHANGED <<given, out, failed>>

\* constPropertyMetric asks only whether the property is there.
SendConst ==
    /\ pc = "next" /\ k <= Len(list) /\ ~Passes(metric) /\ metric.type = "const"
    /\ Sends({<<"", <<1, 0>>>>})
    /\ NextMetric
    /\ UNCHANGED <<given, failed>>

LookUp ==
    /\ pc = "next" /\ k <= Len(list) /\ ~Passes(metric) /\ metric.type # "const"
    /\ pc' = "convert" /\ text' = TextOf(metric)
    /\ UNCHANGED <<given, k, total, out, failed>>

\* The converters that take the text at once, with what is sent for their result: both
\* directions of a pair, every status with 1 for the one that is there.
Result(m, t) ==
    CASE m.type = "rxtx" -> SplitStringToFloats(t, m.conv)
      [] m.type = "status" -> Ok(<<>>)
      [] m.type \in {"simple", "ret"} ->
            CASE m.conv = "string" -> MetricFromString(t)
              [] m.conv = "time" -> ParseTS(t)
              [] m.conv = "constant" -> Ok(<<1, 0>>)
              [] m.conv \in DOMAIN Affirming -> MetricFromWord(Affirming[m.conv], t)
RxTxSwapped(v) == {<<"rx", v[1]>>, <<"tx", v[2]>>}  \* mutant: the first number is rx
RxTx(v) == {<<"tx", v[1]>>, <<"rx", v[2]>>}
Series(m, v, t) ==
    CASE m.type = "rxtx" -> RxTx(v)
      [] m.type = "status" ->
            {<<s, IF t = <<Letters(s)>> THEN <<1, 0>> ELSE <<0, 0>>>> : s \in m.values}
      [] m.type \in {"simple", "ret"} -> {<<"", v>>}

Convert ==
    /\ pc = "convert" /\ metric.conv \notin Durations
    /\ LET r == Result(metric, text) IN
           \/ /\ r.ok /\ Sends(Series(metric, r.v, text)) /\ NextMetric
              /\ UNCHANGED failed
           \/ ~r.ok /\ failed' = failed \cup {k} /\ AfterError /\ UNCHANGED out
    /\ UNCHANGED given

\* MetricFromDuration and UnixTimeFromDuration: the same loop, part by part.
InLoop == pc = "convert" /\ metric.conv \in Durations /\ text # <<>>

AddPart ==
    /\ InLoop /\ getDurationParts(text).ok
    /\ total' = Plus(total, getDurationParts(text).d)
    /\ text' = getDurationParts(text).rest
    /\ UNCHANGED <<given, pc, k, out, failed>>

BadPart ==
    /\ InLoop /\ ~getDurationParts(text).ok
    /\ failed' = failed \cup {k}
    /\ AfterError
    /\ UNCHANGED <<given, out>>

\* The point in time a duration ago, cut to seconds.
Ago(d) == <<now[1] - d[1] + ((now[2] - d[2]) \div 1000000), 0>>
SendDuration ==
    /\ pc = "convert" /\ metric.conv \in Durations /\ text = <<>>
    /\ Sends({<<"", IF metric.conv = "since" THEN Ago(total) ELSE total>>})
    /\ NextMetric
    /\ UNCHANGED <<given, failed>>

Return ==
    /\ pc = "next" /\ k = Len(list) + 1
    /\ pc' = "done"
    /\ UNCHANGED <<given, k, text, total, out, failed>>

Next == Skip \/ SendConst \/ LookUp \/ Convert \/ AddPart \/ BadPart \/ SendDuration \/ Return

Spec == Init /\ [][Next]_vars

\* The goroutine goes on.
FairSpec == Spec /\ WF_vars(Next)

----------------------------------------------------------------------------
\* What the first n runs of a duration mean, without the loop: each run of digits counts, by
\* the unit after it.
\* It can be read if each has one, alone before the next digits or the end, and if the text
\* begins with digits, a sign and digits, or a word, whatever that is.
Counted(t, i) ==
    Times(IF i = 2 /\ t[1] = Mark("-") THEN -t[2].n ELSE t[i].n, Units[t[i + 1].c])
Meaning(t, n) ==
    LET sum[i \in 0..Len(t)] ==
            CASE i = 0 -> <<0, 0>>
              [] i > 0 /\ t[i].kind = "digits" -> Plus(sum[i - 1], Counted(t, i))
              [] i > 0 /\ t[i].kind # "digits" -> sum[i - 1]
    IN sum[n]
HasUnit(t, i) ==
    /\ i + 1 \in DOMAIN t /\ IsUnit(<<t[i + 1]>>)
    /\ i + 2 \in DOMAIN t => t[i + 2].kind = "digits"
Begins(t) ==
    \/ t[1].kind \in {"digits", "letters"}
    \/ Len(t) > 1 /\ t[1] \in {Mark("-"), Mark("+")} /\ t[2].kind = "digits"
Readable(t) == t = <<>> \/ (Begins(t) /\ \A i \in Places(t, "digits") : HasUnit(t, i))

\* The loop of MetricFromDuration loses nothing and counts nothing twice: between two parts,
\* the total is what the part of the text already taken off means, and the rest begins at
\* a run of digits.
NothingLost ==
    pc = "convert" /\ metric.conv \in Durations =>
        LET all == TextOf(metric)
            taken == Len(all) - Len(text)
        IN /\ text = From(all, taken + 1)
           /\ \A i \in Places(all, "digits") : i <= taken => HasUnit(all, i)
           /\ total = Meaning(all, taken)
           /\ taken > 0 /\ text # <<>> => text[1].kind = "digits"

\* Each metric of a list sends what its own text means, whatever the metrics before it could
\* not read, and the list fails exactly if one of them cannot be read: a pair of numbers
\* sends both or none, tx first; a duration counts all its parts or is an error.
Number(t) == Len(t) \in 1..2 /\ MetricFromString(t).ok
UpTo(t, c) == SubSeq(t, 1, Cardinality({i \in DOMAIN t : \A j \in 1..i : t[j] # c}))
\* The two texts before the first and between the first and the second separator, or the end.
Splits(t, sep) ==
    LET S == {i \in DOMAIN t : t[i] = sep}
    IN {<<Before(t, q[1]), SubSeq(t, q[1] + 1, q[2] - 1)>> :
           q \in {p \in S \X (S \cup {Len(t) + 1}) : {i \in S : i < p[2]} = {p[1]}}}
EachStatus(t, values) == {<<s, <<IF t = <<Letters(s)>> THEN 1 ELSE 0, 0>>>> : s \in values}
BothNumbers(t, sep) ==
    UNION {{<<"tx", MetricFromString(c[1]).v>>, <<"rx", MetricFromString(c[2]).v>>} :
               c \in {x \in Splits(t, Mark(sep)) : Number(x[1]) /\ Number(x[2])}}
AllParts(t, conv) ==
    LET d == Meaning(t, Len(t))
    IN IF Readable(t) THEN {<<"", IF conv = "since" THEN Ago(d) ELSE d>>} ELSE {}
OneValue(m, t) == IF Result(m, t).ok THEN {<<"", Result(m, t).v>>} ELSE {}
Meant(m, t) ==
    CASE m.type = "const" -> {<<"", <<1, 0>>>>}
      [] m.type = "status" -> EachStatus(t, m.values)
      [] m.type = "rxtx" -> BothNumbers(t, m.conv)
      [] m.type \in {"simple", "ret"} /\ m.conv \in Durations -> AllParts(t, m.conv)
      [] m.type \in {"simple", "ret"} /\ m.conv \notin Durations -> OneValue(m, t)
TextMeant(m) == IF m.type \in {"simple", "ret"} THEN UpTo(Found(m), Mark("@")) ELSE Found(m)
Expected(m) == IF Passes(m) THEN {} ELSE Meant(m, TextMeant(m))
Fails(m) == ~Passes(m) /\ m.type # "status" /\ Expected(m) = {}
ListComplete ==
    pc = "done" =>
        /\ \A j \in DOMAIN list : {<<o[2], o[3]>> : o \in {x \in out : x[1] = j}} = Expected(list[j])
        /\ failed = {j \in DOMAIN list : Fails(list[j])}

\* Collect returns for every text: each turn of the loop takes something off.
CollectReturns == <>(pc = "done")

=============================================================================
