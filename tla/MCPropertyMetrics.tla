-------------------------- MODULE MCPropertyMetrics --------------------------
(***************************************************************************)
(* Every kind of metric with every converter, alone and in lists of two,   *)
(* on all texts of up to four runs over a small alphabet and some longer   *)
(* durations; a clock whose microseconds are less than what is taken off.  *)
(***************************************************************************)
EXTENDS PropertyMetrics

StatusOf == Status({"true", "ms"})
Alone ==
    {Plain} \cup {Simple(c) : c \in {"bool", "boolneg", "enabled", "running", "duration", "since",
                        "time", "constant"}}
        \cup {OrElse(Simple("bool"), "false"), OrElse(Simple("running"), "unknown"), Ret,
              PlainPair, Pair("/"), Const, StatusOf}
MCLists ==
    {<<m>> : m \in Alone}
        \cup {<<Simple("duration"), Simple("since")>>, <<Simple("since"), Plain>>,
              <<Plain, Simple("bool")>>, <<PlainPair, Simple("duration")>>,
              <<OrElse(Simple("bool"), "true"), StatusOf>>, <<Simple("time"), Const>>}

Alphabet ==
    {Digits(2), Digits(5), Letters("h"), Letters("ms"), Letters("true"), Mark("-"), Mark("@"),
     Mark(",")}
\* Two runs of digits, or of letters, would be one.
Runs(t) ==
    \A i \in 1..(Len(t) - 1) : t[i].kind = "mark" \/ t[i].kind # t[i + 1].kind
Parts == {<<d, u>> : d \in {Digits(2), Digits(5)}, u \in {Letters("h"), Letters("ms"), Letters("never")}}
MCTexts ==
    {t \in UNION {[1..n -> Alphabet] : n \in 0..4} : Runs(t)}
        \cup {<<Date("ymd", 7)>>, <<Date("mdy", 7)>>, <<Letters("false")>>, <<Letters("yes")>>,
              <<Letters("enabled")>>, <<Letters("running")>>, <<Digits(2), Mark("/"), Digits(5)>>}
        \cup {p \o q \o r : p \in Parts, q \in Parts, r \in Parts \cup {<<>>}}

MCClocks == {<<200000, 3000>>}

=============================================================================
