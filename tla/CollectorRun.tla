---------------------------- MODULE CollectorRun ----------------------------
(***************************************************************************)
(* One scrape of one collector: Collect of internal/collectors/*.go with   *)
(* the property metrics of internal/metrics it calls.  What a collector    *)
(* asks for and emits is its Program (module Collectors); what all of them *)
(* do with it is here: a row or a property may be absent, empty or         *)
(* unreadable, a command may fail, and each collector joins its errors or  *)
(* ends at the first.                                                      *)
(***************************************************************************)
EXTENDS Integers, Sequences, FiniteSets

CONSTANTS
    Program,   \* for each collector what it does
    Envs,      \* devices and feature configurations considered
    MaxRows,   \* rows of a reply
    Ids,       \* what the properties of the rows are: rows differ in each
    Silent     \* <<collector, metric>>: metrics that are known never to appear

ASSUME MaxRowsAssumption == MaxRows \in Nat \ {0}
\* A command is a record with these fields; what it leads to leads to nothing more.
Fields == {"when", "path", "id", "stage", "follow", "asks", "takes", "groups", "then", "next"}
IsSequence(s) == s \in Seq({s[i] : i \in DOMAIN s})
IsGroup(g) ==
    /\ {"when", "per", "key", "drops", "tag", "labels", "arity", "metrics"} \subseteq DOMAIN g
    /\ g = [f \in DOMAIN g |-> g[f]] /\ IsSequence(g.tag) /\ IsSequence(g.labels)
    /\ IsFiniteSet(g.metrics)
IsCommand(c) ==
    /\ Fields \subseteq DOMAIN c /\ c = [f \in DOMAIN c |-> c[f]]
    /\ c.takes \in {"rows", "menu", "first", "one", "ret"} /\ c.then \in {"each", "some", "all"}
    /\ IsFiniteSet(DOMAIN c.groups) /\ \A k \in DOMAIN c.groups : IsGroup(c.groups[k])
ASSUME IdsAssumption ==
    /\ IsSequence(Ids) /\ MaxRows <= Len(Ids)
    /\ \A i, j \in DOMAIN Ids : Ids[i] # "" /\ (Ids[i] = Ids[j] => i = j)
ASSUME ProgramAssumption ==
    \A x \in DOMAIN Program : LET cmds == Program[x].cmds IN
        /\ IsSequence(cmds)
        /\ \A i \in DOMAIN cmds :
               /\ IsCommand(cmds[i]) /\ cmds[i].follow = FALSE
               /\ cmds[i].next # <<>> => /\ IsCommand(cmds[i].next[1])
                                        /\ cmds[i].next[1].next = <<>>
ASSUME EnvsAssumption ==
    \A e \in Envs : /\ e.version \in Nat
                    /\ {e.arch, e.ipv6, e.details, e.listed} \subseteq BOOLEAN

VARIABLES
    collector,   \* the collector scraped
    env,         \* firmware version (major * 100 + minor), whether the container check
                 \* knows the architecture, IPv6, "details", whether its list is configured
    pc,          \* "idle", "run", "done" or "panicked"
    todo,        \* commands still to come
    ended,       \* stages that have returned at an error
    err,         \* an error has been joined
    series,      \* what was sent to ctx.Ch: <<metric, labels>>
    twice,       \* a series was sent a second time
    sent,        \* top-level commands sent (history)
    troubled,    \* those that failed, or had a value that cannot be read (history)
    perfect      \* all answered so far, by rows that lack nothing (history)

results == <<err, series, twice>>
history == <<sent, troubled, perfect>>
vars == <<collector, env, pc, todo, ended, err, series, twice, sent, troubled, perfect>>

program == Program[collector]

----------------------------------------------------------------------------
\* Values: what a row has for a property it was or was not asked for.  A "void" reply has
\* no property at all.
Asked(c, p) == c.asks = {"*"} \/ p \in c.asks
Value(c, row, p) ==
    CASE row.how = "void" -> "void"
      [] row.how # "void" /\ ~Asked(c, p) -> "missing"
      [] row.how # "void" /\ Asked(c, p) -> IF p = row.at THEN row.how ELSE "fine"

\* Kinds of metrics by the values they are emitted for, and those that make an error: "num"
\* parses, "any" only compares, "dflt" does so with a default, "const" needs the property,
\* "given" is computed without one; "parsed" and "script" parse reply.Done themselves.
Emitted ==
    [num |-> {"fine"}, any |-> {"fine", "bad"}, dflt |-> {"fine", "bad", "missing"},
     const |-> {"fine", "bad", "empty"}, parsed |-> {"fine"}, script |-> {"fine"},
     stat |-> {"fine"}, given |-> {"fine", "bad", "empty", "missing", "void"}]
Failing ==
    [num |-> {"bad"}, any |-> {}, dflt |-> {}, const |-> {},
     parsed |-> {"bad", "empty", "missing", "void"}, script |-> {"bad", "empty"},
     stat |-> {}, given |-> {}]

\* The description of a group of metrics names as many labels as the group has, with those
\* for what listed it, or nothing it reads is ever asked for.
Mute(c, g) ==
    /\ g.per = "row"
    /\ \A m \in g.metrics : ~Asked(c, m.prop) /\ Emitted[m.conv] \cap {"missing", "void"} = {}
Declares(c, named) ==
    \A k \in DOMAIN c.groups : LET g == c.groups[k] IN
        named + Len(g.tag) + Len(g.labels) = g.arity \/ Mute(c, g)
DeclaresAll(c) ==
    /\ Declares(c, 0)
    /\ c.next # <<>> => Declares(c.next[1], IF c.then = "each" THEN 1 ELSE 0)
ASSUME ArityAssumption ==
    \A x \in DOMAIN Program : \A i \in DOMAIN Program[x].cmds : DeclaresAll(Program[x].cmds[i])

\* A row that lacks nothing has what each metric of the command reads, but for those known to
\* be silent: it is asked for, does not make the group drop the row, and is no error.
Whole(c, p) == IF Asked(c, p) THEN "fine" ELSE "missing"
Obtains(x, c) ==
    \A k \in DOMAIN c.groups : LET g == c.groups[k] IN \A m \in g.metrics :
        /\ Whole(c, m.prop) \notin Failing[m.conv]
        /\ \/ <<x, m.name>> \in Silent \/ g.per = "reply"
           \/ /\ Whole(c, m.prop) \in Emitted[m.conv]
              /\ g.drops # {} => Whole(c, g.key) \notin g.drops
ASSUME AskedAssumption ==
    \A x \in DOMAIN Program : \A i \in DOMAIN Program[x].cmds : LET c == Program[x].cmds[i] IN
        Obtains(x, c) /\ (c.next # <<>> => Obtains(x, c.next[1]))

\* A label is the row's value of a property, "" where it has none; a reply is no row.
LabelOf(c, row, p) == IF Value(c, row, p) \in {"fine", "bad"} THEN row.id ELSE ""
LabelsOf(c, g, row) == g.tag \o [i \in DOMAIN g.labels |-> LabelOf(c, row, g.labels[i])]
NoRow == [id |-> "", at |-> "", how |-> "void"]

\* Rows a group of metrics looks at, what it emits for one, and whether it fails.
Looked(c, g, rows) ==
    {k \in DOMAIN rows : /\ rows[k].how # "skip"
                         /\ g.drops # {} => Value(c, rows[k], g.key) \notin g.drops}
Emits(c, g, row) == {m \in g.metrics : Value(c, row, m.prop) \in Emitted[m.conv]}
Unreadable(c, g, rows) ==
    \E k \in Looked(c, g, rows) : \E m \in g.metrics :
        Value(c, rows[k], m.prop) \in Failing[m.conv]

----------------------------------------------------------------------------
\* What the device and the configuration switch on.
ActiveIn(e) ==
    {IF e.details THEN "details" ELSE "brief", IF e.version >= 700 THEN "v7" ELSE "v6"}
        \cup (IF e.ipv6 THEN {"ipv6"} ELSE {})
Active == ActiveIn(env)
On(x) == x.when \subseteq Active

Supported == env.version >= program.since \/ (program.archOnly /\ ~env.arch)
Configured == program.list => env.listed

\* The commands, each with its place in the program.
Commands == [i \in DOMAIN program.cmds |-> [program.cmds[i] EXCEPT !.id = i]]

\* A stage that returns at the first error leaves out its other commands; what is not
\* switched on is left out, too.
Ends(c) == IF c.stage = 0 THEN ended ELSE ended \cup {c.stage}
Due(c) == On(c) /\ c.stage \notin ended

RestSame(c) == todo                         \* mutant: the command is sent again
Rest(c) == Tail(todo)

JoinedLast(e) == e                          \* mutant: errs is assigned, not joined
Joined(e) == err \/ e

\* The commands sent for the rows of a reply: one with the names of all of them, or one for
\* each, whose metrics then carry the name as first label.
Child(c, d) == [d EXCEPT !.id = c.id, !.stage = c.stage, !.follow = TRUE]
NameNone(c, row) == ""                      \* mutant: the name is not taken from the row
NameOf(c, row) == LabelOf(c, row, "name")
NotNamed(c, row) == c.next[1].groups        \* mutant: the label of the name is left out
Named(c, row) ==
    [k \in DOMAIN c.next[1].groups |->
        [c.next[1].groups[k] EXCEPT !.tag = <<NameOf(c, row)>> \o @]]
\* A row that is passed over gets none: no device switches that on.
PassedOthers(row) == IF row.how = "skip" THEN {} ELSE {"passed over"}  \* mutant: the wrong rows
Passed(row) == IF row.how = "skip" THEN {"passed over"} ELSE {}
FollowUps(c, rows) ==
    CASE c.next = <<>> -> <<>>
      [] c.next # <<>> /\ c.then = "each" ->
             [k \in DOMAIN rows |->
                 Child(c, [c.next[1] EXCEPT !.groups = Named(c, rows[k]),
                                            !.when = @ \cup Passed(rows[k])])]
      [] c.next # <<>> /\ c.then = "some" ->
             IF rows = <<>> THEN <<>> ELSE <<Child(c, c.next[1])>>
      [] c.next # <<>> /\ c.then = "all" -> <<Child(c, c.next[1])>>

\* The commands as they are written, with the metrics of the follow-up for no row in
\* particular, and what of a series says which metric it is: its name and the labels that are
\* no row's.
Written(x, i, f) ==
    LET c == Program[x].cmds[i] IN
    IF ~f THEN c
    ELSE IF c.then = "each" THEN [c.next[1] EXCEPT !.groups = Named(c, NoRow)] ELSE c.next[1]
RowValues == {Ids[i] : i \in DOMAIN Ids} \cup {""}
PatternOf(l) == [p \in DOMAIN l |-> IF l[p] \in RowValues THEN "" ELSE l[p]]
KeyOf(c, k, m) == <<m.name, PatternOf(LabelsOf(c, c.groups[k], NoRow))>>

\* Two metrics that a device is asked for have different keys, and of the labels of a metric
\* that is there for each row one tells the rows apart.
OnIn(e, x) == x.when \subseteq ActiveIn(e)
Exists(x, i, f) == f => Program[x].cmds[i].next # <<>>
KeysApart(e, c, d, same) ==
    \A k \in DOMAIN c.groups, l \in DOMAIN d.groups :
        OnIn(e, c) /\ OnIn(e, d) /\ OnIn(e, c.groups[k]) /\ OnIn(e, d.groups[l]) =>
            \A m \in c.groups[k].metrics, n \in d.groups[l].metrics :
                KeyOf(c, k, m) = KeyOf(d, l, n) => same /\ k = l /\ m = n
KeysDiffer(x, e) ==
    \A i, j \in DOMAIN Program[x].cmds, f, g \in BOOLEAN :
        Exists(x, i, f) /\ Exists(x, j, g) =>
            KeysApart(e, Written(x, i, f), Written(x, j, g), i = j /\ f = g)
RowsTold(c) ==
    \A k \in DOMAIN c.groups : LET g == c.groups[k] IN
        \/ c.takes # "rows" \/ g.per = "reply" \/ Mute(c, g)
        \/ \E i \in DOMAIN g.labels : Asked(c, g.labels[i])
ASSUME KeysAssumption ==
    \A x \in DOMAIN Program :
        /\ \A e \in Envs : KeysDiffer(x, e)
        /\ \A i \in DOMAIN Program[x].cmds : LET c == Program[x].cmds[i] IN
               /\ RowsTold(c)
               /\ c.next # <<>> =>
                      /\ RowsTold(c.next[1])
                      /\ c.then # "each" \/ c.takes # "rows" \/ Asked(c, "name")

----------------------------------------------------------------------------
\* Replies: up to MaxRows rows, the first of which may lack a property, have it empty, have
\* it unreadable, be void, or be one that is passed over.  A menu has one row; of "first" the
\* others are not looked at; a count comes with !done, which is always there.
Read(c) == UNION {{m.prop : m \in c.groups[k].metrics} \cup {c.groups[k].labels[i] :
                   i \in DOMAIN c.groups[k].labels} : k \in DOMAIN c.groups}
Fine(n) == [id |-> Ids[n], at |-> "", how |-> "fine"]
FirstRows(c) ==
    {Fine(1), [Fine(1) EXCEPT !.how = "void"]}
        \cup (IF c.skips THEN {[Fine(1) EXCEPT !.how = "skip"]} ELSE {})
        \cup [id : {Ids[1]}, at : Read(c), how : {"missing", "empty", "bad"}]
Sizes(c) ==
    CASE c.takes = "rows" -> 0..MaxRows [] c.takes \in {"menu", "first"} -> 0..1
      [] c.takes \in {"one", "ret"} -> {1}
Replies(c) ==
    UNION {{[k \in 1..n |-> IF k = 1 THEN r ELSE Fine(k)] : r \in FirstRows(c)} :
               n \in Sizes(c)}

Init ==
    /\ collector \in DOMAIN Program /\ env \in Envs
    /\ pc = "idle" /\ todo = <<>> /\ ended = {}
    /\ err = FALSE /\ series = {} /\ twice = FALSE
    /\ sent = {} /\ troubled = {} /\ perfect = TRUE

\* Not supported by the version, or its list is missing in the configuration: an error.
Refuse ==
    /\ pc = "idle" /\ (~Supported \/ ~Configured)
    /\ pc' = "done" /\ err' = TRUE
    /\ UNCHANGED <<collector, env, todo, ended, series, twice, history>>

Start ==
    /\ pc = "idle" /\ Supported /\ Configured
    /\ pc' = "run" /\ todo' = Commands
    /\ UNCHANGED <<collector, env, ended, results, history>>

\* Collect comes to a command that is switched off, or whose stage has returned.
PassOver ==
    /\ pc = "run" /\ todo # <<>> /\ ~Due(Head(todo))
    /\ todo' = Tail(todo)
    /\ UNCHANGED <<collector, env, pc, ended, results, history>>

\* Client.Run returns an error, or what takes exactly one row gets another number of them.
CommandFails ==
    /\ pc = "run" /\ todo # <<>> /\ Due(Head(todo))
    /\ LET c == Head(todo) IN
           /\ err' = Joined(TRUE)
           /\ todo' = Rest(c) /\ ended' = Ends(c)
           /\ sent' = sent \cup {c.id} /\ troubled' = troubled \cup {c.id}
    /\ perfect' = FALSE
    /\ UNCHANGED <<collector, env, pc, series, twice>>

\* Client.Run returns a reply: the groups of metrics that are on collect from it; where
\* errors are not joined, the first group that fails is the last.
GroupsOn(c) == {k \in DOMAIN c.groups : On(c.groups[k])}
Reached(c, rows) ==
    {k \in GroupsOn(c) :
        c.stage # 0 => \A j \in GroupsOn(c) : j < k => ~Unreadable(c, c.groups[j], rows)}
\* The row and the metric, and <<name, labels>>, of what a group emits, once for a reply or for each row.
Emissions(c, g, rows) ==
    IF g.per = "reply" THEN {<<<<0, m>>, <<m.name, LabelsOf(c, g, NoRow)>>>> : m \in g.metrics}
    ELSE UNION {{<<<<k, m>>, <<m.name, LabelsOf(c, g, rows[k])>>>> : m \in Emits(c, g, rows[k])} :
                    k \in Looked(c, g, rows)}

Answered(c, rows) ==
    LET G == c.groups
        R == Reached(c, rows)
        out == UNION {{<<k, e>> : e \in Emissions(c, G[k], rows)} : k \in R}
        new == {o[2][2] : o \in out}
        bad == \E k \in R : Unreadable(c, G[k], rows)
        misfit == \E k \in R : /\ Emissions(c, G[k], rows) # {}
                               /\ Len(G[k].tag) + Len(G[k].labels) # G[k].arity
    IN /\ pc' = IF misfit THEN "panicked" ELSE pc
       /\ todo' = IF misfit THEN <<>> ELSE FollowUps(c, rows) \o Rest(c)
       /\ ended' = IF bad THEN Ends(c) ELSE ended
       /\ err' = Joined(bad)
       /\ series' = series \cup new
       /\ twice' = (twice \/ new \cap series # {} \/ Cardinality(new) # Cardinality(out))
       /\ troubled' = IF bad THEN troubled \cup {c.id} ELSE troubled
       /\ perfect' = (perfect /\ rows # <<>> /\ \A k \in DOMAIN rows : rows[k].how = "fine")

CommandAnswered ==
    /\ pc = "run" /\ todo # <<>> /\ Due(Head(todo))
    /\ LET c == Head(todo) IN
           /\ sent' = sent \cup {c.id}
           /\ \E rows \in Replies(c) : Answered(c, rows)
    /\ UNCHANGED <<collector, env>>

Return ==
    /\ pc = "run" /\ todo = <<>>
    /\ pc' = "done"
    /\ UNCHANGED <<collector, env, todo, ended, results, history>>

Next == Refuse \/ Start \/ PassOver \/ CommandFails \/ CommandAnswered \/ Return

Spec == Init /\ [][Next]_vars

----------------------------------------------------------------------------
Applicable == {i \in DOMAIN program.cmds : On(program.cmds[i])}

\* The variables have their types, and no command is sent twice.
TypeOK ==
    /\ collector \in DOMAIN Program /\ env \in Envs
    /\ pc \in {"idle", "run", "done", "panicked"}
    /\ err \in BOOLEAN /\ twice \in BOOLEAN /\ perfect \in BOOLEAN
    /\ troubled \subseteq sent /\ sent \subseteq Applicable
    /\ \A k \in DOMAIN todo : todo[k].id \in sent <=> todo[k].follow
    /\ ended \subseteq {program.cmds[i].stage : i \in troubled} \ {0}

\* MustNewConstMetric panics unless a series has as many label values as its description
\* has names: no collector gets there, whatever a device answers.
LabelsFit == pc # "panicked"

\* A series sent twice makes the registry drop it: as long as rows differ in each property
\* they have, no collector does so, over all the commands it sends.
SeriesDistinct == ~twice

\* A device that answers everything completely gets every metric the collector describes for
\* this version and configuration: commands ask for what the metrics and labels read.
Declared ==
    LET C == {program.cmds[i] : i \in Applicable}
        all == C \cup {c.next[1] : c \in {d \in C : d.next # <<>> /\ On(d.next[1])}}
    IN UNION {UNION {{m.name : m \in c.groups[k].metrics} :
                         k \in {j \in DOMAIN c.groups : On(c.groups[j])}} : c \in all}
DeclaredAppear ==
    pc = "done" /\ perfect /\ Supported /\ Configured =>
        \A d \in Declared : <<collector, d>> \notin Silent => \E s \in series : s[1] = d

\* The path of d is that of c or one below it.
Above(c, d) == \E n \in 0..Len(d.path) : c.path = SubSeq(d.path, 1, n)

\* What goes wrong at one path of the API keeps nothing from being asked elsewhere: a command
\* that is left out comes after trouble at its own path or one above it, so the routes of one
\* IP version do not depend on the other's, nor the simple queues on the queue monitor, nor
\* one firewall or script on another.
TroubleContained ==
    pc = "done" /\ Supported /\ Configured =>
        \A i \in Applicable \ sent :
            \E j \in troubled : j < i /\ Above(program.cmds[j], program.cmds[i])

\* A collector that returns no error has asked all it should, and all it read was readable:
\* the error of a command is not lost by what succeeds after it.
NilMeansComplete ==
    pc = "done" /\ ~err => troubled = {} /\ sent = Applicable

----------------------------------------------------------------------------
\* A claim of the source that the code does not keep.

\* Each collector "retrieves" the metrics it is named for (the description given to
\* registerCollector, such as "retrieves POE metrics", poe_collector.go:14): a device that
\* answers everything completely gives at least one series.
SomethingRetrieved ==
    pc = "done" /\ perfect /\ sent # {} => series # {}

=============================================================================
