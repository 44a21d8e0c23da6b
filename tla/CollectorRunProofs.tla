------------------------- MODULE CollectorRunProofs -------------------------
(***************************************************************************)
(* Proofs about CollectorRun for any program of commands, not only those   *)
(* of the registered collectors: what Collect leaves out, what its error   *)
(* says, that labels fit, and which series appear, each once.              *)
(***************************************************************************)
EXTENDS CollectorRun, SequenceTheorems, FiniteSetTheorems, TLAPS

cmds == program.cmds

\* A sequence, of whatever is in it.
Proper(s) == \E S : s \in Seq(S)

\* What is still to come: a command of the program C that is not in S, those sent, or one that
\* follows what such a command has listed.
Valid(C, S, c) ==
    /\ IsCommand(c) /\ c.id \in DOMAIN C /\ c.stage = C[c.id].stage
    /\ c.follow \in BOOLEAN /\ (c.follow <=> c.id \in S)
    /\ c.follow => c.next = <<>>
    /\ ~c.follow => c.when = C[c.id].when /\ c.next = C[c.id].next

Itself(i, k) == todo[k].id = i /\ ~todo[k].follow
TodoInv ==
    /\ Proper(todo) /\ \A k \in DOMAIN todo : Valid(cmds, sent, todo[k])
    /\ \A i \in DOMAIN cmds : \A j, k \in DOMAIN todo : Itself(i, j) /\ Itself(i, k) => j = k

\* Nothing is forgotten: a command that applies has been sent, is still to come, or belongs to
\* a stage that has returned.
Started == pc = "run" \/ (pc = "done" /\ Supported /\ Configured)
Accounted(i) == i \in sent \/ (\E k \in DOMAIN todo : Itself(i, k)) \/ cmds[i].stage \in ended
Covered == Started => \A i \in Applicable : Accounted(i)

Shape ==
    /\ collector \in DOMAIN Program /\ env \in Envs
    /\ pc \in {"idle", "run", "done", "panicked"}
    /\ err \in BOOLEAN /\ twice \in BOOLEAN /\ perfect \in BOOLEAN
    /\ troubled \subseteq sent /\ sent \subseteq Applicable
    /\ ended \subseteq {cmds[i].stage : i \in troubled} \ {0}
    /\ pc = "idle" => sent = {}
    /\ pc # "run" => todo = <<>>
ErrorInv ==
    /\ troubled # {} => err = TRUE
    /\ pc = "run" => Supported /\ Configured
    /\ pc = "done" => err = TRUE \/ (Supported /\ Configured)

RunInv == Shape /\ TodoInv /\ Covered /\ ErrorInv

----------------------------------------------------------------------------
\* What the assumption says about the program at hand.
LEMMA ProgramFacts ==
    ASSUME collector \in DOMAIN Program
    PROVE  /\ Proper(cmds)
           /\ \A i \in DOMAIN cmds :
                  /\ IsCommand(cmds[i]) /\ cmds[i].follow = FALSE
                  /\ cmds[i].next # <<>> => /\ IsCommand(cmds[i].next[1])
                                           /\ cmds[i].next[1].next = <<>>
BY ProgramAssumption DEF cmds, program, Proper, IsSequence

\* A command keeps its other fields when one is set.
LEMMA SetId ==
    ASSUME NEW c, IsCommand(c), NEW i, NEW d, d = [c EXCEPT !.id = i]
    PROVE  /\ IsCommand(d) /\ d.id = i /\ d.stage = c.stage /\ d.follow = c.follow
           /\ d.when = c.when /\ d.next = c.next
BY DEF IsCommand, Fields

\* A command that follows another.
LEMMA ChildFields ==
    ASSUME NEW c, NEW b, IsCommand(b), b.next = <<>>, NEW d, d = Child(c, b)
    PROVE  /\ IsCommand(d) /\ d.id = c.id /\ d.stage = c.stage /\ d.follow = TRUE
           /\ d.next = <<>>
BY DEF IsCommand, Fields, Child

\* A sequence with one element more in front of it.
LEMMA OneInFront ==
    ASSUME NEW s, IsSequence(s), NEW x, NEW t, t = <<x>> \o s
    PROVE  IsSequence(t) /\ Len(t) = 1 + Len(s) /\ Len(s) \in Nat
<1> DEFINE S == {s[i] : i \in DOMAIN s}
           B == S \cup {x}
<1>1. s \in Seq(S)
  BY DEF IsSequence
<1> HIDE DEF S
<1>2. s \in Seq(B) /\ <<x>> \in Seq(B)
  <2>1. x \in B /\ S \subseteq B
    OBVIOUS
  <2> HIDE DEF B
  <2> QED
    BY <1>1, <2>1, SMT
<1> HIDE DEF B
<1>3. t \in Seq(B) /\ Len(t) = Len(<<x>>) + Len(s)
  BY <1>2, ConcatProperties
<1>4. Len(<<x>>) = 1 /\ Len(s) \in Nat /\ Len(t) \in Nat /\ DOMAIN t = 1..Len(t)
  BY <1>2, <1>3, LenProperties, SMT
<1>5. IsSequence(t)
  <2> DEFINE n == Len(t)
             T == {t[i] : i \in 1..n}
  <2>1. t = [i \in 1..n |-> t[i]] /\ \A i \in 1..n : t[i] \in T
    BY <1>3, SMT
  <2>2. n \in Nat /\ DOMAIN t = 1..n
    BY <1>4
  <2> HIDE DEF n
  <2>3. [i \in 1..n |-> t[i]] \in Seq(T)
    <3> HIDE DEF T
    <3> QED
      BY <2>1, <2>2, IsASeq
  <2> QED
    BY <2>1, <2>2, <2>3 DEF IsSequence
<1> QED
  BY <1>3, <1>4, <1>5

\* The metrics of a follow-up carry the name of its row as one label more, and are the same
\* besides.
LEMMA NamedGroups ==
    ASSUME NEW c, NEW b, b = c.next[1], IsCommand(b), NEW row, NEW k \in DOMAIN b.groups
    PROVE  /\ DOMAIN Named(c, row) = DOMAIN b.groups
           /\ IsGroup(Named(c, row)[k])
           /\ Len(Named(c, row)[k].tag) = 1 + Len(b.groups[k].tag)
           /\ Named(c, row)[k].labels = b.groups[k].labels
           /\ Named(c, row)[k].arity = b.groups[k].arity
           /\ Named(c, row)[k].per = b.groups[k].per
           /\ Named(c, row)[k].metrics = b.groups[k].metrics
           /\ Named(c, row)[k].when = b.groups[k].when
           /\ Named(c, row)[k].key = b.groups[k].key
           /\ Named(c, row)[k].drops = b.groups[k].drops
<1> DEFINE g == b.groups[k]
           h == Named(c, row)[k]
           t == <<NameOf(c, row)>> \o g.tag
<1>1. IsGroup(g)
  BY DEF IsCommand
<1>2. DOMAIN Named(c, row) = DOMAIN b.groups /\ h = [g EXCEPT !.tag = t]
  BY DEF Named
<1> HIDE DEF g, h
<1>3. IsSequence(t) /\ Len(t) = 1 + Len(g.tag)
  BY <1>1, OneInFront DEF IsGroup
<1> HIDE DEF t
<1>4. /\ h.tag = t /\ h.labels = g.labels /\ h.arity = g.arity /\ h.per = g.per
      /\ h.metrics = g.metrics /\ h.when = g.when /\ h.key = g.key /\ h.drops = g.drops
      /\ DOMAIN h = DOMAIN g /\ h = [f \in DOMAIN h |-> h[f]]
  BY <1>1, <1>2 DEF IsGroup
<1>5. IsGroup(h)
  BY <1>1, <1>3, <1>4 DEF IsGroup
<1> QED
  BY <1>2, <1>3, <1>4, <1>5 DEF g, h

\* A reply is a sequence of rows.
LEMMA RowsProper ==
    ASSUME NEW c, IsCommand(c), NEW rows \in Replies(c)
    PROVE  \E n \in Nat : DOMAIN rows = 1..n
<1>1. PICK n \in Sizes(c) :
          rows \in {[k \in 1..n |-> IF k = 1 THEN r ELSE Fine(k)] : r \in FirstRows(c)}
  BY DEF Replies
<1>2. DOMAIN rows = 1..n
  BY <1>1
<1>3. n \in Nat
  <2>1. c.takes \in {"rows", "menu", "first", "one", "ret"}
    BY DEF IsCommand
  <2>2. CASE c.takes = "rows"
    BY <1>1, <2>2, MaxRowsAssumption, SMT DEF Sizes
  <2>3. CASE c.takes \in {"menu", "first"}
    BY <1>1, <2>3, SMT DEF Sizes
  <2>4. CASE c.takes \in {"one", "ret"}
    BY <1>1, <2>4, SMT DEF Sizes
  <2> QED
    BY <2>1, <2>2, <2>3, <2>4
<1> QED
  BY <1>2, <1>3

\* A command with the groups G and the conditions W more.
Asking(b, G, W) == [b EXCEPT !.groups = G, !.when = @ \cup W]

\* It is the same besides.
LEMMA TwoSet ==
    ASSUME NEW b, b = [f \in DOMAIN b |-> b[f]], Fields \subseteq DOMAIN b, NEW G, NEW W,
           NEW d, d = Asking(b, G, W)
    PROVE  /\ d.groups = G /\ d.next = b.next /\ d.asks = b.asks /\ d.takes = b.takes
           /\ d.then = b.then /\ DOMAIN d = DOMAIN b /\ d = [f \in DOMAIN d |-> d[f]]
<1>1. /\ DOMAIN d = DOMAIN b /\ d = [f \in DOMAIN d |-> d[f]]
  BY DEF Asking
<1>2. {"groups", "next", "asks", "takes", "then"} \subseteq DOMAIN b
  BY DEF Fields
<1>3. d.groups = G /\ d.next = b.next /\ d.asks = b.asks /\ d.takes = b.takes /\ d.then = b.then
  BY <1>2 DEF Asking
<1> QED
  BY <1>1, <1>3

\* The command that asks for one row.
LEMMA NamedFields ==
    ASSUME NEW c, NEW b, b = c.next[1], IsCommand(b), NEW row, NEW d,
           d = Asking(b, Named(c, row), Passed(row))
    PROVE  /\ IsCommand(d) /\ d.next = b.next /\ d.asks = b.asks /\ d.groups = Named(c, row)
<1>1. /\ d.groups = Named(c, row) /\ d.next = b.next /\ d.asks = b.asks /\ d.takes = b.takes
      /\ d.then = b.then /\ DOMAIN d = DOMAIN b /\ d = [f \in DOMAIN d |-> d[f]]
  BY TwoSet DEF IsCommand
<1>2. DOMAIN d.groups = DOMAIN b.groups
  BY <1>1 DEF Named
<1>3. \A k \in DOMAIN d.groups : IsGroup(d.groups[k])
  <2>1. \A k \in DOMAIN b.groups : IsGroup(Named(c, row)[k])
    BY NamedGroups
  <2> QED
    BY <1>1, <1>2, <2>1
<1> QED
  BY <1>1, <1>2, <1>3 DEF IsCommand

\* What FollowUps makes of a command: commands that follow it.
IsFollower(c, d) ==
    /\ IsCommand(d) /\ d.id = c.id /\ d.stage = c.stage /\ d.follow = TRUE /\ d.next = <<>>

\* FollowUps makes a sequence of such commands, whatever the rows are.
LEMMA FollowersProper ==
    ASSUME NEW c, IsCommand(c), c.next # <<>> => IsCommand(c.next[1]) /\ c.next[1].next = <<>>,
           NEW rows, \E n \in Nat : DOMAIN rows = 1..n
    PROVE  /\ Proper(FollowUps(c, rows))
           /\ \A k \in DOMAIN FollowUps(c, rows) : IsFollower(c, FollowUps(c, rows)[k])
<1> DEFINE F == FollowUps(c, rows)
           b == c.next[1]
<1>1. CASE F = <<>>
  BY <1>1, EmptySeq DEF Proper
<1>2. CASE c.next # <<>> /\ F = <<Child(c, b)>>
  <2>1. IsFollower(c, Child(c, b))
    <3>1. IsCommand(b) /\ b.next = <<>>
      BY <1>2
    <3> HIDE DEF b
    <3> QED
      BY <3>1, ChildFields DEF IsFollower
  <2>2. DOMAIN F = {1} /\ F[1] = Child(c, b)
    BY <1>2, SMT
  <2>3. F \in Seq({Child(c, b)})
    BY <1>2, SMT
  <2> QED
    BY <2>1, <2>2, <2>3 DEF Proper
<1>3. CASE c.next # <<>> /\ c.then = "each"
  <2> DEFINE made(k) == [b EXCEPT !.groups = Named(c, rows[k]), !.when = @ \cup Passed(rows[k])]
  <2>1. PICK n \in Nat : DOMAIN rows = 1..n
    OBVIOUS
  <2>2. F = [k \in 1..n |-> Child(c, made(k))]
    BY <1>3, <2>1 DEF FollowUps
  <2>3. ASSUME NEW k \in 1..n PROVE IsFollower(c, Child(c, made(k)))
    <3>0. IsCommand(b) /\ b.next = <<>>
      BY <1>3
    <3> HIDE DEF b
    <3>1. IsCommand(made(k)) /\ made(k).next = <<>>
      <4>1. IsCommand(c.next[1]) /\ c.next[1].next = <<>>
        BY <3>0 DEF b
      <4> DEFINE row == rows[k]
                 d == Asking(c.next[1], Named(c, row), Passed(row))
      <4>2. IsCommand(d) /\ d.next = <<>>
        <5> HIDE DEF row
        <5> QED
          BY <4>1, NamedFields
      <4> QED
        BY <4>2 DEF made, b, Asking
    <3> HIDE DEF made
    <3> QED
      BY <3>1, ChildFields DEF IsFollower
  <2> HIDE DEF made, F
  <2>4. DOMAIN F = 1..n /\ \A k \in 1..n : IsFollower(c, F[k])
    BY <2>2, <2>3
  <2>5. F \in Seq({F[k] : k \in DOMAIN F})
    BY <2>2, <2>4, IsASeq
  <2> QED
    BY <2>4, <2>5 DEF Proper, F
<1>4. F = <<>> \/ (c.next # <<>> /\ F = <<Child(c, b)>>) \/ (c.next # <<>> /\ c.then = "each")
  <2>1. c.then \in {"each", "some", "all"}
    BY DEF IsCommand
  <2>2. CASE c.next = <<>>
    BY <2>2 DEF FollowUps
  <2>3. CASE c.next # <<>> /\ c.then = "some"
    BY <2>3 DEF FollowUps
  <2>4. CASE c.next # <<>> /\ c.then = "all"
    BY <2>4 DEF FollowUps
  <2> QED
    BY <2>1, <2>2, <2>3, <2>4
<1> QED
  BY <1>1, <1>2, <1>3, <1>4

\* Sequences over a set are sequences over a larger one.
LEMMA SeqMonotone ==
    ASSUME NEW A, NEW B, A \subseteq B, NEW s \in Seq(A)
    PROVE  s \in Seq(B)
BY SMT

\* What is put in place of the first of s: a, then the rest of s.
InPlaceOfHead(a, s, t) ==
    \E m \in Nat :
        /\ \A k \in DOMAIN t : \/ \E x \in DOMAIN a : x = k /\ t[k] = a[x]
                               \/ \E j \in DOMAIN s : j # 1 /\ k = m + j - 1 /\ t[k] = s[j]
        /\ \A j \in DOMAIN s : j # 1 => m + j - 1 \in DOMAIN t /\ t[m + j - 1] = s[j]
        /\ \A x \in DOMAIN a : x \in DOMAIN t /\ t[x] = a[x]

\* A sequence put in front of the tail takes the place of the head.
LEMMA Replaced ==
    ASSUME NEW a, Proper(a), NEW s, Proper(s), s # <<>>, NEW t, t = a \o Tail(s)
    PROVE  Proper(t) /\ InPlaceOfHead(a, s, t) /\ 1 \in DOMAIN s /\ Head(s) = s[1]
<1> DEFINE m == Len(a)
           n == Len(s)
           r == Tail(s)
<1>1. PICK A, S : a \in Seq(A) /\ s \in Seq(S)
  BY DEF Proper
<1>2. a \in Seq(A \cup S) /\ s \in Seq(A \cup S)
  BY <1>1, SeqMonotone
<1> DEFINE B == A \cup S
<1> HIDE DEF B
<1>3. /\ m \in Nat /\ n \in Nat /\ DOMAIN a = 1..m /\ DOMAIN s = 1..n
      /\ a \in Seq(B) /\ s \in Seq(B)
  BY <1>2, LenProperties DEF B
<1>4. /\ r \in Seq(B) /\ Len(r) = n - 1 /\ Head(s) = s[1]
      /\ \A i \in 1..(n - 1) : r[i] = s[i + 1]
  BY <1>3, HeadTailProperties
<1>5. n >= 1 /\ n - 1 \in Nat
  BY <1>3, EmptySeq, SMT
<1> HIDE DEF r, m, n
<1>6. /\ t \in Seq(B) /\ Len(t) = m + (n - 1)
      /\ \A i \in 1..(m + (n - 1)) : t[i] = IF i <= m THEN a[i] ELSE r[i - m]
  <2>1. /\ a \o r \in Seq(B) /\ Len(a \o r) = Len(a) + Len(r)
        /\ \A i \in 1 .. Len(a) + Len(r) : (a \o r)[i] = IF i <= Len(a) THEN a[i]
                                                        ELSE r[i - Len(a)]
    BY <1>3, <1>4, ConcatProperties, Zenon
  <2>2. t = a \o r
    BY DEF r
  <2> QED
    BY <1>4, <2>1, <2>2, Zenon DEF m
<1>7. DOMAIN t = 1..(m + (n - 1))
  BY <1>6, LenProperties
<1>8. Proper(t)
  BY <1>6 DEF Proper
<1>9. ASSUME NEW k \in DOMAIN t
      PROVE  \/ \E x \in DOMAIN a : x = k /\ t[k] = a[x]
             \/ \E j \in DOMAIN s : j # 1 /\ k = m + j - 1 /\ t[k] = s[j]
  <2>1. CASE k <= m
    <3>1. k \in 1..m
      BY <1>3, <1>5, <1>7, <2>1, SMT
    <3> QED
      BY <1>3, <1>6, <1>7, <2>1, <3>1
  <2>2. CASE ~(k <= m)
    <3> DEFINE j == k - m + 1
    <3>1. j \in 1..n /\ j # 1 /\ k = m + j - 1 /\ k - m \in 1..(n - 1) /\ (k - m) + 1 = j
      BY <1>3, <1>5, <1>7, <2>2, SMT
    <3>2. t[k] = s[j]
      BY <1>4, <1>6, <1>7, <2>2, <3>1
    <3> QED
      BY <1>3, <3>1, <3>2
  <2> QED
    BY <2>1, <2>2
<1>10. ASSUME NEW j \in DOMAIN s, j # 1
       PROVE  m + j - 1 \in DOMAIN t /\ t[m + j - 1] = s[j]
  <2>1. /\ m + j - 1 \in 1..(m + (n - 1)) /\ ~(m + j - 1 <= m)
        /\ (m + j - 1) - m = j - 1 /\ j - 1 \in 1..(n - 1) /\ (j - 1) + 1 = j
    BY <1>3, <1>5, <1>10, SMT
  <2>2. t[m + j - 1] = r[j - 1] /\ r[j - 1] = s[j]
    BY <1>4, <1>6, <2>1
  <2> QED
    BY <1>7, <2>1, <2>2
<1>11. 1 \in DOMAIN s
  BY <1>3, <1>5, SMT
<1>12. ASSUME NEW x \in DOMAIN a PROVE x \in DOMAIN t /\ t[x] = a[x]
  <2>1. x \in 1..(m + (n - 1)) /\ x <= m
    BY <1>3, <1>5, SMT
  <2> QED
    BY <1>6, <1>7, <2>1
<1> QED
  BY <1>3, <1>4, <1>8, <1>9, <1>10, <1>11, <1>12 DEF InPlaceOfHead

----------------------------------------------------------------------------
\* What every step but Refuse and Start leaves as it is.
Same == collector' = collector /\ env' = env

\* The program, and what the device switches on, are the same then.
LEMMA SameProgram ==
    ASSUME Same
    PROVE  /\ cmds' = cmds /\ Supported' = Supported /\ Configured' = Configured
           /\ Applicable' = Applicable
<1>1. program' = program
  BY DEF Same, program
<1>2. cmds' = cmds /\ Supported' = Supported /\ Configured' = Configured
  BY <1>1 DEF Same, cmds, Supported, Configured
<1>3. Applicable' = Applicable
  BY <1>1 DEF Same, Applicable, On, Active, ActiveIn
<1> QED
  BY <1>2, <1>3

\* The first command: where it is on, it applies.
LEMMA HeadFacts ==
    ASSUME Shape, TodoInv, todo # <<>>, NEW c, c = Head(todo)
    PROVE  /\ 1 \in DOMAIN todo /\ c = todo[1] /\ Valid(cmds, sent, c)
           /\ On(c) => c.id \in Applicable
<1>1. 1 \in DOMAIN todo /\ c = todo[1]
  <2>1. PICK S : todo \in Seq(S)
    BY DEF TodoInv, Proper
  <2>2. Len(todo) \in Nat /\ Len(todo) >= 1 /\ DOMAIN todo = 1..Len(todo)
    BY <2>1, EmptySeq, LenProperties, SMT
  <2> QED
    BY <2>1, <2>2, HeadTailProperties, SMT
<1>2. Valid(cmds, sent, c)
  BY <1>1 DEF TodoInv
<1>3. On(c) => c.id \in Applicable
  <2>1. CASE c.follow
    BY <1>2, <2>1 DEF Valid, Shape
  <2>2. CASE ~c.follow
    BY <1>2, <2>2 DEF Valid, Applicable, On, cmds
  <2> QED
    BY <2>1, <2>2
<1> QED
  BY <1>1, <1>2, <1>3

\* The first command is sent, and others that follow it are put in its place.
LEMMA HeadSent ==
    ASSUME RunInv, pc = "run", todo # <<>>, NEW c, c = Head(todo), Due(c), Same,
           NEW F, Proper(F), \A x \in DOMAIN F : IsFollower(c, F[x]),
           todo' = F \o Tail(todo), sent' = sent \cup {c.id}, ended \subseteq ended'
    PROVE  TodoInv' /\ Covered' /\ sent' \subseteq Applicable'
<1>1. 1 \in DOMAIN todo /\ c = todo[1] /\ Valid(cmds, sent, c) /\ (On(c) => c.id \in Applicable)
  BY HeadFacts DEF RunInv
<1>2. cmds' = cmds /\ Applicable' = Applicable
  BY SameProgram
<1>3. sent' \subseteq Applicable'
  BY <1>1, <1>2 DEF RunInv, Shape, Due
<1>4. Proper(todo') /\ InPlaceOfHead(F, todo, todo')
  BY Replaced DEF RunInv, TodoInv
<1>5. PICK m \in Nat :
          /\ \A k \in DOMAIN todo' :
                 \/ \E x \in DOMAIN F : todo'[k] = F[x]
                 \/ \E j \in DOMAIN todo : j # 1 /\ k = m + j - 1 /\ todo'[k] = todo[j]
          /\ \A j \in DOMAIN todo : j # 1 => m + j - 1 \in DOMAIN todo' /\ todo'[m + j - 1] = todo[j]
  BY <1>4 DEF InPlaceOfHead
<1>6. ASSUME NEW j \in DOMAIN todo, j # 1 PROVE todo[j].id # c.id \/ todo[j].follow
  <2>1. Valid(cmds, sent, todo[j])
    BY DEF RunInv, TodoInv
  <2> QED
    BY <1>1, <1>6, <2>1 DEF RunInv, TodoInv, Valid, Itself
<1>7. ASSUME NEW k \in DOMAIN todo' PROVE Valid(cmds', sent', todo'[k])
  <2>1. CASE \E x \in DOMAIN F : todo'[k] = F[x]
    <3>1. IsFollower(c, todo'[k])
      BY <2>1
    <3> QED
      BY <1>1, <1>2, <3>1 DEF IsFollower, Valid
  <2>2. CASE \E j \in DOMAIN todo : j # 1 /\ k = m + j - 1 /\ todo'[k] = todo[j]
    <3>1. PICK j \in DOMAIN todo : j # 1 /\ todo'[k] = todo[j]
      BY <2>2
    <3>2. Valid(cmds, sent, todo[j])
      BY DEF RunInv, TodoInv
    <3> QED
      BY <1>2, <1>6, <3>1, <3>2 DEF Valid
  <2> QED
    BY <1>5, <2>1, <2>2
<1>8. ASSUME NEW i \in DOMAIN cmds, NEW j \in DOMAIN todo', NEW k \in DOMAIN todo',
             Itself(i, j)', Itself(i, k)'
      PROVE  j = k
  <2>1. PICK x \in DOMAIN todo : j = m + x - 1 /\ todo'[j] = todo[x]
    BY <1>5, <1>8 DEF Itself, IsFollower
  <2>2. PICK y \in DOMAIN todo : k = m + y - 1 /\ todo'[k] = todo[y]
    BY <1>5, <1>8 DEF Itself, IsFollower
  <2>3. Itself(i, x) /\ Itself(i, y)
    BY <1>8, <2>1, <2>2 DEF Itself
  <2>4. x = y
    BY <2>3 DEF RunInv, TodoInv
  <2> QED
    BY <2>1, <2>2, <2>4
<1>9. TodoInv'
  BY <1>2, <1>4, <1>7, <1>8 DEF TodoInv
<1>10. ASSUME NEW i \in Applicable PROVE Accounted(i)'
  <2>1. Accounted(i)
    BY DEF RunInv, Covered, Started
  <2>2. CASE i \in sent \/ cmds[i].stage \in ended
    BY <1>2, <2>2 DEF Accounted
  <2>3. CASE \E k \in DOMAIN todo : Itself(i, k)
    <3>1. PICK k \in DOMAIN todo : Itself(i, k)
      BY <2>3
    <3>2. CASE k = 1
      BY <1>1, <3>1, <3>2 DEF Itself, Accounted
    <3>3. CASE k # 1
      <4>1. m + k - 1 \in DOMAIN todo' /\ todo'[m + k - 1] = todo[k]
        BY <1>5, <3>3
      <4>2. PICK q : q = m + k - 1
        OBVIOUS
      <4>3. q \in DOMAIN todo' /\ Itself(i, q)'
        BY <3>1, <4>1, <4>2 DEF Itself
      <4> QED
        BY <4>3 DEF Accounted
    <3> QED
      BY <3>2, <3>3
  <2> QED
    BY <2>1, <2>2, <2>3 DEF Accounted
<1>11. Covered'
  BY <1>2, <1>10 DEF Covered
<1> QED
  BY <1>3, <1>9, <1>11

\* A command that is not due is left out for a reason: it does not apply, or its stage has
\* returned.
LEMMA PassOverKeeps ==
    ASSUME RunInv, PassOver
    PROVE  RunInv'
<1> DEFINE c == Head(todo)
<1>1. Same /\ pc = "run" /\ todo # <<>> /\ ~Due(c) /\ todo' = Tail(todo)
  BY DEF PassOver, Same
<1>2. /\ pc' = pc /\ ended' = ended /\ err' = err /\ twice' = twice /\ perfect' = perfect
      /\ sent' = sent /\ troubled' = troubled
  BY DEF PassOver, results, history
<1>3. 1 \in DOMAIN todo /\ c = todo[1] /\ Valid(cmds, sent, c)
  BY <1>1, HeadFacts DEF RunInv
<1>4. /\ cmds' = cmds /\ Supported' = Supported /\ Configured' = Configured
      /\ Applicable' = Applicable
  BY <1>1, SameProgram
<1>5. Proper(<<>>) /\ <<>> \o Tail(todo) = Tail(todo) /\ DOMAIN <<>> = {}
  <2>1. PICK S : todo \in Seq(S)
    BY DEF RunInv, TodoInv, Proper
  <2>2. Tail(todo) \in Seq(S)
    BY <1>1, <2>1, HeadTailProperties
  <2>3. <<>> \o Tail(todo) = Tail(todo)
    BY <2>2, ConcatEmptySeq
  <2>4. Proper(<<>>)
    BY EmptySeq DEF Proper
  <2>5. DOMAIN <<>> = {}
    BY SMT
  <2> QED
    BY <2>3, <2>4, <2>5
<1>6. Proper(todo') /\ InPlaceOfHead(<<>>, todo, todo')
  BY <1>1, <1>5, Replaced DEF RunInv, TodoInv
<1>7. PICK m \in Nat :
          /\ \A k \in DOMAIN todo' :
                 \E j \in DOMAIN todo : j # 1 /\ k = m + j - 1 /\ todo'[k] = todo[j]
          /\ \A j \in DOMAIN todo : j # 1 => m + j - 1 \in DOMAIN todo' /\ todo'[m + j - 1] = todo[j]
  BY <1>5, <1>6 DEF InPlaceOfHead
<1> HIDE DEF c
<1>8. \A k \in DOMAIN todo' : Valid(cmds', sent', todo'[k])
  <2>1. \A j \in DOMAIN todo : Valid(cmds, sent, todo[j])
    BY DEF RunInv, TodoInv
  <2> QED
    BY <1>2, <1>4, <1>7, <2>1
<1>9. ASSUME NEW i \in DOMAIN cmds, NEW j \in DOMAIN todo', NEW k \in DOMAIN todo',
             Itself(i, j)', Itself(i, k)'
      PROVE  j = k
  <2>1. PICK x \in DOMAIN todo : j = m + x - 1 /\ todo'[j] = todo[x]
    BY <1>7
  <2>2. PICK y \in DOMAIN todo : k = m + y - 1 /\ todo'[k] = todo[y]
    BY <1>7
  <2>3. Itself(i, x) /\ Itself(i, y)
    BY <1>9, <2>1, <2>2 DEF Itself
  <2>4. x = y
    BY <2>3 DEF RunInv, TodoInv
  <2> QED
    BY <2>1, <2>2, <2>4
<1>10. TodoInv'
  BY <1>4, <1>6, <1>8, <1>9 DEF TodoInv
<1>11. ASSUME NEW i \in Applicable PROVE Accounted(i)'
  <2>1. Accounted(i)
    BY <1>1 DEF RunInv, Covered, Started
  <2>2. CASE i \in sent \/ cmds[i].stage \in ended
    BY <1>2, <1>4, <2>2 DEF Accounted
  <2>3. CASE \E k \in DOMAIN todo : Itself(i, k)
    <3>1. PICK k \in DOMAIN todo : Itself(i, k)
      BY <2>3
    <3>2. CASE k = 1
      <4>1. c.id = i /\ ~c.follow
        BY <1>3, <3>1, <3>2 DEF Itself
      <4>2. c.when = cmds[i].when /\ c.stage = cmds[i].stage
        BY <1>3, <4>1 DEF Valid
      <4>3. On(c)
        BY <4>2 DEF Applicable, On, cmds
      <4>4. cmds[i].stage \in ended
        BY <1>1, <4>2, <4>3 DEF Due, c
      <4> QED
        BY <1>2, <1>4, <4>4 DEF Accounted
    <3>3. CASE k # 1
      <4>1. m + k - 1 \in DOMAIN todo' /\ todo'[m + k - 1] = todo[k]
        BY <1>7, <3>3
      <4>2. PICK q : q = m + k - 1
        OBVIOUS
      <4>3. q \in DOMAIN todo' /\ Itself(i, q)'
        BY <3>1, <4>1, <4>2 DEF Itself
      <4> QED
        BY <4>3 DEF Accounted
    <3> QED
      BY <3>2, <3>3
  <2> QED
    BY <2>1, <2>2, <2>3 DEF Accounted
<1>12. Covered'
  BY <1>4, <1>11 DEF Covered
<1>13. Shape' /\ ErrorInv'
  BY <1>1, <1>2, <1>4 DEF RunInv, Shape, ErrorInv, Same
<1> QED
  BY <1>10, <1>12, <1>13 DEF RunInv

\* A stage that returns is that of the command in trouble, and no part of what joins errors.
LEMMA EndsFacts ==
    ASSUME RunInv, NEW c, Valid(cmds, sent, c), Same,
           troubled' = troubled \cup {c.id}, ended' = Ends(c)
    PROVE  ended \subseteq ended' /\ ended' \subseteq {cmds[i].stage : i \in troubled'} \ {0}
<1>1. ended \subseteq {cmds[i].stage : i \in troubled} \ {0}
  BY DEF RunInv, Shape
<1>2. c.stage = cmds[c.id].stage
  BY DEF Valid
<1>3. CASE c.stage = 0
  BY <1>1, <1>3 DEF Ends
<1>4. CASE c.stage # 0
  BY <1>1, <1>2, <1>4 DEF Ends
<1> QED
  BY <1>3, <1>4

\* A command fails.
LEMMA CommandFailsKeeps ==
    ASSUME RunInv, CommandFails
    PROVE  RunInv'
<1>1. PICK c : c = Head(todo)
  OBVIOUS
<1>2. /\ Same /\ pc = "run" /\ todo # <<>> /\ Due(c) /\ todo' = Tail(todo) /\ pc' = pc
      /\ err' = Joined(TRUE) /\ ended' = Ends(c) /\ twice' = twice /\ perfect' = FALSE
      /\ sent' = sent \cup {c.id} /\ troubled' = troubled \cup {c.id}
  BY <1>1 DEF CommandFails, Same, Rest
<1>3. Valid(cmds, sent, c)
  BY <1>1, <1>2, HeadFacts DEF RunInv
<1>4. /\ cmds' = cmds /\ Supported' = Supported /\ Configured' = Configured
      /\ Applicable' = Applicable
  BY <1>2, SameProgram
<1>5. ended \subseteq ended' /\ ended' \subseteq {cmds[i].stage : i \in troubled'} \ {0}
  BY <1>2, <1>3, EndsFacts
<1>6. Proper(<<>>) /\ <<>> \o Tail(todo) = Tail(todo)
      /\ \A x \in DOMAIN <<>> : IsFollower(c, <<>>[x])
  <2>1. PICK S : todo \in Seq(S)
    BY DEF RunInv, TodoInv, Proper
  <2>2. Tail(todo) \in Seq(S)
    BY <1>2, <2>1, HeadTailProperties
  <2>3. <<>> \o Tail(todo) = Tail(todo)
    BY <2>2, ConcatEmptySeq
  <2>4. Proper(<<>>)
    BY EmptySeq DEF Proper
  <2>5. DOMAIN <<>> = {}
    BY SMT
  <2> QED
    BY <2>3, <2>4, <2>5
<1>7. TodoInv' /\ Covered' /\ sent' \subseteq Applicable'
  BY <1>1, <1>2, <1>5, <1>6, HeadSent
<1>8. err' = TRUE
  BY <1>2 DEF Joined
<1>9. Shape' /\ ErrorInv'
  BY <1>2, <1>4, <1>5, <1>7, <1>8 DEF RunInv, Shape, ErrorInv, Same
<1> QED
  BY <1>7, <1>9 DEF RunInv

\* Nothing to come: that is consistent with any program.
LEMMA NothingToCome ==
    ASSUME NEW s, s = <<>>
    PROVE  Proper(s) /\ DOMAIN s = {}
<1>1. <<>> \in Seq({}) /\ DOMAIN <<>> = {}
  BY EmptySeq, SMT
<1> QED
  BY <1>1 DEF Proper

\* A command is answered: the trouble it makes is kept in err.
LEMMA CommandAnsweredKeeps ==
    ASSUME RunInv, CommandAnswered
    PROVE  RunInv'
<1>1. PICK c : c = Head(todo)
  OBVIOUS
<1>2. PICK rows \in Replies(c) : Answered(c, rows)
  BY <1>1 DEF CommandAnswered
<1>3. /\ Same /\ pc = "run" /\ todo # <<>> /\ Due(c) /\ sent' = sent \cup {c.id}
  BY <1>1 DEF CommandAnswered, Same
<1>4. PICK bad \in BOOLEAN, misfit \in BOOLEAN, again \in BOOLEAN :
          /\ pc' = IF misfit THEN "panicked" ELSE pc
          /\ todo' = IF misfit THEN <<>> ELSE FollowUps(c, rows) \o Tail(todo)
          /\ ended' = IF bad THEN Ends(c) ELSE ended
          /\ err' = Joined(bad)
          /\ twice' = again
          /\ troubled' = IF bad THEN troubled \cup {c.id} ELSE troubled
          /\ perfect' \in BOOLEAN
  <2> DEFINE G == c.groups
             R == Reached(c, rows)
             out == UNION {{<<k, e>> : e \in Emissions(c, G[k], rows)} : k \in R}
             new == {o[2][2] : o \in out}
             bad == \E k \in R : Unreadable(c, G[k], rows)
             misfit == \E k \in R : /\ Emissions(c, G[k], rows) # {}
                                    /\ Len(G[k].tag) + Len(G[k].labels) # G[k].arity
             again == twice \/ new \cap series # {} \/ Cardinality(new) # Cardinality(out)
             fine == perfect /\ rows # <<>> /\ \A k \in DOMAIN rows : rows[k].how = "fine"
  <2>1. /\ pc' = IF misfit THEN "panicked" ELSE pc
        /\ todo' = IF misfit THEN <<>> ELSE FollowUps(c, rows) \o Tail(todo)
        /\ ended' = IF bad THEN Ends(c) ELSE ended
        /\ err' = Joined(bad)
        /\ twice' = again
        /\ troubled' = IF bad THEN troubled \cup {c.id} ELSE troubled
        /\ perfect' = fine
    BY <1>2, Zenon DEF Answered, Rest
  <2>2. bad \in BOOLEAN /\ misfit \in BOOLEAN /\ again \in BOOLEAN /\ fine \in BOOLEAN
    BY Zenon
  <2> HIDE DEF bad, misfit, again, fine
  <2> QED
    BY <2>1, <2>2, Zenon
<1>5. Valid(cmds, sent, c)
  BY <1>1, <1>3, HeadFacts DEF RunInv
<1>6. /\ cmds' = cmds /\ Supported' = Supported /\ Configured' = Configured
      /\ Applicable' = Applicable
  BY <1>3, SameProgram
<1>7. ended \subseteq ended' /\ ended' \subseteq {cmds[i].stage : i \in troubled'} \ {0}
  <2>1. CASE bad
    BY <1>3, <1>4, <1>5, <2>1, EndsFacts
  <2>2. CASE ~bad
    BY <1>4, <2>2 DEF RunInv, Shape
  <2> QED
    BY <2>1, <2>2
<1>8. TodoInv' /\ Covered' /\ sent' \subseteq Applicable' /\ (pc' # "run" => todo' = <<>>)
  <2>1. CASE misfit
    <3>1. pc' = "panicked" /\ todo' = <<>>
      BY <1>4, <2>1
    <3>2. Proper(todo') /\ DOMAIN todo' = {}
      BY <3>1, NothingToCome
    <3>3. TodoInv'
      BY <3>2 DEF TodoInv
    <3>4. Covered'
      BY <3>1 DEF Covered, Started
    <3>5. sent' \subseteq Applicable'
      BY <1>1, <1>3, <1>6, HeadFacts DEF RunInv, Shape, Due
    <3> QED
      BY <3>1, <3>3, <3>4, <3>5
  <2>2. CASE ~misfit
    <3> DEFINE F == FollowUps(c, rows)
    <3>1. IsCommand(c) /\ (c.next # <<>> => IsCommand(c.next[1]) /\ c.next[1].next = <<>>)
      <4>1. collector \in DOMAIN Program
        BY DEF RunInv, Shape
      <4> QED
        BY <1>5, <4>1, ProgramFacts DEF Valid
    <3>2. \E n \in Nat : DOMAIN rows = 1..n
      BY <1>2, <3>1, RowsProper
    <3>3. Proper(F) /\ \A x \in DOMAIN F : IsFollower(c, F[x])
      BY <3>1, <3>2, FollowersProper
    <3>4. todo' = F \o Tail(todo) /\ pc' = "run"
      BY <1>3, <1>4, <2>2
    <3> HIDE DEF F
    <3> QED
      BY <1>1, <1>3, <1>7, <3>3, <3>4, HeadSent
  <2> QED
    BY <2>1, <2>2
<1>9. err' \in BOOLEAN /\ twice' \in BOOLEAN /\ perfect' \in BOOLEAN /\ (troubled' # {} => err' = TRUE)
  <2>1. err \in BOOLEAN /\ (troubled # {} => err = TRUE)
    BY DEF RunInv, Shape, ErrorInv
  <2>2. CASE bad
    BY <1>4, <2>1, <2>2 DEF Joined
  <2>3. CASE ~bad
    BY <1>4, <2>1, <2>3 DEF Joined
  <2> QED
    BY <2>2, <2>3
<1>10. pc' \in {"run", "panicked"}
  BY <1>3, <1>4
<1>11. troubled' \subseteq sent'
  BY <1>3, <1>4 DEF RunInv, Shape
<1>12. Shape' /\ ErrorInv'
  BY <1>3, <1>6, <1>7, <1>8, <1>9, <1>10, <1>11 DEF RunInv, Shape, ErrorInv, Same
<1> QED
  BY <1>8, <1>12 DEF RunInv

\* Collect begins: all that applies is to come.
LEMMA StartKeeps ==
    ASSUME RunInv, Start
    PROVE  RunInv'
<1>1. /\ Same /\ pc = "idle" /\ pc' = "run" /\ todo' = Commands /\ ended' = ended
      /\ err' = err /\ twice' = twice /\ perfect' = perfect
      /\ sent' = sent /\ troubled' = troubled
  BY DEF Start, Same, results, history
<1>2. /\ cmds' = cmds /\ Supported' = Supported /\ Configured' = Configured
      /\ Applicable' = Applicable
  BY <1>1, SameProgram
<1>3. sent = {} /\ collector \in DOMAIN Program
  BY <1>1 DEF RunInv, Shape
<1>4. Commands = [i \in DOMAIN cmds |-> [cmds[i] EXCEPT !.id = i]]
  BY DEF Commands, cmds
<1>5. Proper(Commands) /\ DOMAIN Commands = DOMAIN cmds
  <2>1. PICK S : cmds \in Seq(S)
    BY <1>3, ProgramFacts DEF Proper
  <2> DEFINE n == Len(cmds)
             e(i) == [cmds[i] EXCEPT !.id = i]
             E == {e(i) : i \in 1..n}
  <2>2. n \in Nat /\ DOMAIN cmds = 1..n
    BY <2>1, LenProperties
  <2>3. \A i \in 1..n : e(i) \in E
    OBVIOUS
  <2>4. Commands = [i \in 1..n |-> e(i)]
    BY <1>4, <2>2
  <2> HIDE DEF n, e, E
  <2>5. [i \in 1..n |-> e(i)] \in Seq(E)
    BY <2>2, <2>3, IsASeq
  <2> QED
    BY <2>2, <2>4, <2>5 DEF Proper
<1>6. ASSUME NEW i \in DOMAIN cmds
      PROVE  Commands[i].id = i /\ Commands[i].follow = FALSE /\ Valid(cmds, sent, Commands[i])
  <2>1. IsCommand(cmds[i]) /\ cmds[i].follow = FALSE
    BY <1>3, ProgramFacts
  <2> DEFINE d == Commands[i]
  <2>2. d = [cmds[i] EXCEPT !.id = i]
    BY <1>4
  <2> HIDE DEF d
  <2>3. /\ IsCommand(d) /\ d.id = i /\ d.stage = cmds[i].stage /\ d.follow = FALSE
        /\ d.when = cmds[i].when /\ d.next = cmds[i].next
    BY <2>1, <2>2, SetId
  <2> QED
    BY <1>3, <2>3 DEF Valid, d
<1>7. TodoInv'
  <2>1. \A k \in DOMAIN todo' : Valid(cmds', sent', todo'[k])
    BY <1>1, <1>2, <1>5, <1>6
  <2>2. ASSUME NEW i \in DOMAIN cmds, NEW j \in DOMAIN todo', NEW k \in DOMAIN todo',
               Itself(i, j)', Itself(i, k)'
        PROVE  j = k
    <3>1. j \in DOMAIN cmds /\ k \in DOMAIN cmds
      BY <1>1, <1>5
    <3>2. Commands[j].id = j /\ Commands[k].id = k
      BY <1>6, <3>1
    <3>3. Commands[j].id = i /\ Commands[k].id = i
      BY <1>1, <2>2 DEF Itself
    <3> QED
      BY <3>2, <3>3
  <2> QED
    BY <1>1, <1>2, <1>5, <2>1, <2>2 DEF TodoInv
<1>8. Covered'
  <2>1. \A i \in Applicable : i \in DOMAIN cmds
    BY DEF Applicable, cmds
  <2>2. \A i \in Applicable : Accounted(i)'
    BY <1>1, <1>2, <1>5, <1>6, <2>1 DEF Accounted, Itself
  <2> QED
    BY <1>2, <2>2 DEF Covered
<1>9. Shape' /\ ErrorInv'
  BY <1>1, <1>2 DEF RunInv, Shape, ErrorInv, Same, Start
<1> QED
  BY <1>7, <1>8, <1>9 DEF RunInv

\* Collect ends, at once or after the last command.
LEMMA EndKeeps ==
    ASSUME RunInv, Refuse \/ Return
    PROVE  RunInv'
<1>1. /\ Same /\ pc' = "done" /\ todo' = todo /\ todo = <<>> /\ ended' = ended
      /\ twice' = twice /\ perfect' = perfect /\ sent' = sent /\ troubled' = troubled
  BY DEF Refuse, Return, Same, results, history, RunInv, Shape
<1>2. /\ cmds' = cmds /\ Supported' = Supported /\ Configured' = Configured
      /\ Applicable' = Applicable
  BY <1>1, SameProgram
<1>3. Proper(todo') /\ DOMAIN todo' = {}
  BY <1>1, NothingToCome
<1>4. TodoInv'
  BY <1>3 DEF TodoInv
<1>5. CASE Refuse
  <2>1. err' = TRUE /\ ~(Supported /\ Configured)
    BY <1>5 DEF Refuse
  <2>2. Covered'
    BY <1>1, <1>2, <2>1 DEF Covered, Started
  <2>3. Shape' /\ ErrorInv'
    BY <1>1, <1>2, <2>1 DEF RunInv, Shape, ErrorInv, Same
  <2> QED
    BY <1>4, <2>2, <2>3 DEF RunInv
<1>6. CASE Return
  <2>1. err' = err /\ pc = "run"
    BY <1>6 DEF Return, results
  <2>2. Supported /\ Configured
    BY <2>1 DEF RunInv, ErrorInv
  <2>3. Covered'
    <3>1. \A i \in Applicable : Accounted(i)
      BY <2>1 DEF RunInv, Covered, Started
    <3>2. \A i \in Applicable : Accounted(i)'
      BY <1>1, <1>2, <3>1 DEF Accounted, Itself
    <3> QED
      BY <1>2, <3>2 DEF Covered
  <2>4. Shape' /\ ErrorInv'
    BY <1>1, <1>2, <2>1, <2>2 DEF RunInv, Shape, ErrorInv, Same
  <2> QED
    BY <1>4, <2>3, <2>4 DEF RunInv
<1> QED
  BY <1>5, <1>6

----------------------------------------------------------------------------
\* The invariant holds when Collect is called.
LEMMA RunInit == Init => RunInv
<1> SUFFICES ASSUME Init PROVE RunInv
  OBVIOUS
<1>1. todo = <<>> /\ pc = "idle"
  BY DEF Init
<1>2. Proper(todo) /\ DOMAIN todo = {}
  BY <1>1, NothingToCome
<1>3. TodoInv /\ Covered
  BY <1>1, <1>2 DEF TodoInv, Covered, Started
<1>4. Shape /\ ErrorInv
  BY DEF Init, Shape, ErrorInv
<1> QED
  BY <1>3, <1>4 DEF RunInv

\* Every step keeps it.
LEMMA RunNext == RunInv /\ [Next]_vars => RunInv'
<1> SUFFICES ASSUME RunInv, [Next]_vars PROVE RunInv'
  OBVIOUS
<1>1. CASE Refuse \/ Return
  BY <1>1, EndKeeps
<1>2. CASE Start
  BY <1>2, StartKeeps
<1>3. CASE PassOver
  BY <1>3, PassOverKeeps
<1>4. CASE CommandFails
  BY <1>4, CommandFailsKeeps
<1>5. CASE CommandAnswered
  BY <1>5, CommandAnsweredKeeps
<1>6. CASE UNCHANGED vars
  <2>1. /\ Same /\ pc' = pc /\ todo' = todo /\ ended' = ended /\ err' = err /\ twice' = twice
        /\ sent' = sent /\ troubled' = troubled /\ perfect' = perfect
    BY <1>6 DEF vars, Same
  <2>2. /\ cmds' = cmds /\ Supported' = Supported /\ Configured' = Configured
        /\ Applicable' = Applicable
    BY <2>1, SameProgram
  <2>3. Shape' /\ ErrorInv'
    BY <2>1, <2>2 DEF RunInv, Shape, ErrorInv, Same
  <2>4. TodoInv'
    BY <2>1, <2>2 DEF RunInv, TodoInv, Itself
  <2>5. Covered'
    BY <2>1, <2>2 DEF RunInv, Covered, Started, Accounted, Itself
  <2> QED
    BY <2>3, <2>4, <2>5 DEF RunInv
<1> QED
  BY <1>1, <1>2, <1>3, <1>4, <1>5, <1>6 DEF Next

\* The state keeps its type, and no command of a collector is sent a second time, for any
\* program.
THEOREM TypeCorrect == Spec => []TypeOK
<1>1. RunInv => TypeOK
  <2> SUFFICES ASSUME RunInv PROVE TypeOK
    OBVIOUS
  <2>1. \A k \in DOMAIN todo : todo[k].id \in sent <=> todo[k].follow
    BY DEF RunInv, TodoInv, Valid
  <2>2. ended \subseteq {program.cmds[i].stage : i \in troubled} \ {0}
    BY DEF RunInv, Shape, cmds
  <2> QED
    BY <2>1, <2>2 DEF RunInv, Shape, TypeOK
<1> QED
  BY <1>1, RunInit, RunNext, PTL DEF Spec

\* A collector that returns no error has asked all it should, and all it read was readable,
\* for any program: no error is lost.
THEOREM NilIsComplete == Spec => []NilMeansComplete
<1>1. RunInv => NilMeansComplete
  <2> SUFFICES ASSUME RunInv, pc = "done", ~err PROVE troubled = {} /\ sent = Applicable
    BY DEF NilMeansComplete
  <2>1. troubled = {} /\ Supported /\ Configured
    BY DEF RunInv, ErrorInv
  <2>2. DOMAIN todo = {}
    BY NothingToCome DEF RunInv, Shape
  <2>3. ended = {}
    BY <2>1 DEF RunInv, Shape
  <2>4. \A i \in Applicable : i \in sent
    BY <2>1, <2>2, <2>3 DEF RunInv, Covered, Started, Accounted
  <2> QED
    BY <2>1, <2>4 DEF RunInv, Shape
<1> QED
  BY <1>1, RunInit, RunNext, PTL DEF Spec

----------------------------------------------------------------------------
\* Order: a command that is to come has its place after all that was sent and all that comes
\* before it, so what is left out for its stage comes after the trouble in that stage.
InOrder ==
    /\ \A j, k \in DOMAIN todo : j < k /\ ~todo[k].follow => todo[j].id < todo[k].id
    /\ \A i \in sent, k \in DOMAIN todo : ~todo[k].follow => i < todo[k].id
TroubleBefore(i) ==
    \E j \in troubled : j < i /\ cmds[j].stage = cmds[i].stage /\ cmds[i].stage # 0
Waiting(i) == \E k \in DOMAIN todo : Itself(i, k)
Explained == Started => \A i \in Applicable : i \in sent \/ Waiting(i) \/ TroubleBefore(i)
OrderInv == InOrder /\ Explained

\* What a collector gives up together is at one path and below it: the command that can end
\* a stage is above those the stage still has.
StagesKeepToPaths ==
    \A i, j \in DOMAIN cmds :
        i < j /\ cmds[i].stage = cmds[j].stage /\ cmds[j].stage # 0 => Above(cmds[i], cmds[j])

\* The order stays when the first command goes and others that follow it come in its place,
\* and what was waiting behind it still is.
LEMMA OrderKept ==
    ASSUME RunInv, InOrder, todo # <<>>, NEW c, c = Head(todo),
           NEW F, Proper(F), \A x \in DOMAIN F : IsFollower(c, F[x]),
           todo' = F \o Tail(todo), sent' \subseteq sent \cup {c.id}
    PROVE  /\ InOrder'
           /\ \A i, k : k \in DOMAIN todo /\ k # 1 /\ Itself(i, k) => Waiting(i)'
<1>1. 1 \in DOMAIN todo /\ c = todo[1]
  BY HeadFacts DEF RunInv
<1>2. \A k \in DOMAIN todo : k \in Nat /\ (k # 1 => 1 < k)
  <2>1. PICK S : todo \in Seq(S)
    BY DEF RunInv, TodoInv, Proper
  <2> QED
    BY <2>1, LenProperties, SMT
<1>3. InPlaceOfHead(F, todo, todo')
  BY Replaced DEF RunInv, TodoInv
<1>4. PICK m \in Nat :
          /\ \A k \in DOMAIN todo' :
                 \/ \E x \in DOMAIN F : todo'[k] = F[x]
                 \/ \E j \in DOMAIN todo : j # 1 /\ k = m + j - 1 /\ todo'[k] = todo[j]
          /\ \A j \in DOMAIN todo : j # 1 => m + j - 1 \in DOMAIN todo' /\ todo'[m + j - 1] = todo[j]
  BY <1>3 DEF InPlaceOfHead
<1>5. ASSUME NEW k \in DOMAIN todo', ~todo'[k].follow
      PROVE  \E y \in DOMAIN todo : /\ y # 1 /\ k = m + y - 1 /\ todo'[k] = todo[y]
                                    /\ todo[1].id < todo[y].id
  <2>1. PICK y \in DOMAIN todo : y # 1 /\ k = m + y - 1 /\ todo'[k] = todo[y]
    BY <1>4, <1>5 DEF IsFollower
  <2>2. 1 < y
    BY <1>2, <2>1
  <2>3. todo[1].id < todo[y].id
    BY <1>1, <1>5, <2>1, <2>2 DEF InOrder
  <2> QED
    BY <2>1, <2>3
<1>6. ASSUME NEW j \in DOMAIN todo', NEW k \in DOMAIN todo', j < k, ~todo'[k].follow
      PROVE  todo'[j].id < todo'[k].id
  <2>1. PICK y \in DOMAIN todo : /\ y # 1 /\ k = m + y - 1 /\ todo'[k] = todo[y]
                                 /\ todo[1].id < todo[y].id
    BY <1>5, <1>6
  <2>2. CASE \E x \in DOMAIN F : todo'[j] = F[x]
    <3>1. todo'[j].id = c.id
      BY <2>2 DEF IsFollower
    <3> QED
      BY <1>1, <2>1, <3>1
  <2>3. CASE \E x \in DOMAIN todo : x # 1 /\ j = m + x - 1 /\ todo'[j] = todo[x]
    <3>1. PICK x \in DOMAIN todo : j = m + x - 1 /\ todo'[j] = todo[x]
      BY <2>3
    <3>2. x \in Nat /\ y \in Nat
      BY <1>2
    <3>3. x < y
      BY <1>6, <2>1, <3>1, <3>2, SMT
    <3>4. todo[x].id < todo[y].id
      BY <1>6, <2>1, <3>3 DEF InOrder
    <3> QED
      BY <2>1, <3>1, <3>4
  <2> QED
    BY <1>4, <2>2, <2>3
<1>7. ASSUME NEW i \in sent', NEW k \in DOMAIN todo', ~todo'[k].follow PROVE i < todo'[k].id
  <2>1. PICK y \in DOMAIN todo : todo'[k] = todo[y] /\ todo[1].id < todo[y].id
    BY <1>5, <1>7
  <2>2. CASE i = c.id
    BY <1>1, <2>1, <2>2
  <2>3. CASE i \in sent
    BY <1>7, <2>1, <2>3 DEF InOrder
  <2> QED
    BY <2>2, <2>3
<1>8. ASSUME NEW i, NEW k \in DOMAIN todo, k # 1, Itself(i, k) PROVE Waiting(i)'
  <2>1. PICK q : q = m + k - 1
    OBVIOUS
  <2>2. q \in DOMAIN todo' /\ todo'[q] = todo[k]
    BY <1>4, <1>8, <2>1
  <2>3. Itself(i, q)'
    BY <1>8, <2>2 DEF Itself
  <2> QED
    BY <2>2, <2>3 DEF Waiting
<1>9. InOrder'
  BY <1>6, <1>7 DEF InOrder
<1> QED
  BY <1>8, <1>9

\* So does the explanation, when the first command is sent.
LEMMA SentExplained ==
    ASSUME RunInv, OrderInv, pc = "run", todo # <<>>, NEW c, c = Head(todo), Same,
           NEW F, Proper(F), \A x \in DOMAIN F : IsFollower(c, F[x]),
           todo' = F \o Tail(todo), sent' = sent \cup {c.id}, troubled \subseteq troubled'
    PROVE  OrderInv'
<1>1. 1 \in DOMAIN todo /\ c = todo[1]
  BY HeadFacts DEF RunInv
<1>2. InOrder' /\ \A i, k : k \in DOMAIN todo /\ k # 1 /\ Itself(i, k) => Waiting(i)'
  BY OrderKept DEF OrderInv
<1>3. cmds' = cmds /\ Applicable' = Applicable
  BY SameProgram
<1>4. ASSUME NEW i \in Applicable PROVE (i \in sent \/ Waiting(i) \/ TroubleBefore(i))'
  <2>1. i \in sent \/ Waiting(i) \/ TroubleBefore(i)
    BY DEF OrderInv, Explained, Started
  <2>2. CASE i \in sent
    BY <2>2
  <2>3. CASE Waiting(i)
    <3>1. PICK k \in DOMAIN todo : Itself(i, k)
      BY <2>3 DEF Waiting
    <3>2. CASE k = 1
      BY <1>1, <3>1, <3>2 DEF Itself
    <3>3. CASE k # 1
      BY <1>2, <3>1, <3>3
    <3> QED
      BY <3>2, <3>3
  <2>4. CASE TroubleBefore(i)
    <3>1. TroubleBefore(i)'
      BY <1>3, <2>4 DEF TroubleBefore
    <3> QED
      BY <3>1
  <2> QED
    BY <2>1, <2>2, <2>3, <2>4
<1>5. Explained'
  BY <1>3, <1>4 DEF Explained
<1> QED
  BY <1>2, <1>5 DEF OrderInv

\* A command that is not due and applies belongs to a stage that has returned, after trouble
\* in a command sent before.
LEMMA PassedExplained ==
    ASSUME RunInv, OrderInv, PassOver
    PROVE  OrderInv'
<1>1. PICK c : c = Head(todo)
  OBVIOUS
<1>2. /\ Same /\ pc = "run" /\ pc' = pc /\ todo # <<>> /\ ~Due(c) /\ todo' = Tail(todo)
      /\ sent' = sent /\ troubled' = troubled
  BY <1>1 DEF PassOver, Same, history
<1>3. 1 \in DOMAIN todo /\ c = todo[1] /\ Valid(cmds, sent, c)
  BY <1>1, <1>2, HeadFacts DEF RunInv
<1>4. cmds' = cmds /\ Applicable' = Applicable
  BY <1>2, SameProgram
<1>5. Proper(<<>>) /\ <<>> \o Tail(todo) = Tail(todo) /\ DOMAIN <<>> = {}
  <2>1. PICK S : todo \in Seq(S)
    BY DEF RunInv, TodoInv, Proper
  <2>2. <<>> \o Tail(todo) = Tail(todo)
    BY <1>2, <2>1, HeadTailProperties, ConcatEmptySeq
  <2> QED
    BY <2>2, NothingToCome
<1>6. InOrder' /\ \A i, k : k \in DOMAIN todo /\ k # 1 /\ Itself(i, k) => Waiting(i)'
  <2>1. PICK F : F = <<>>
    OBVIOUS
  <2>2. Proper(F) /\ todo' = F \o Tail(todo) /\ \A x \in DOMAIN F : IsFollower(c, F[x])
    BY <1>2, <1>5, <2>1
  <2> QED
    BY <1>1, <1>2, <2>2, OrderKept DEF OrderInv
<1>7. ASSUME NEW i \in Applicable, Itself(i, 1) PROVE TroubleBefore(i)
  <2>1. c.id = i /\ ~c.follow
    BY <1>3, <1>7 DEF Itself
  <2>2. c.when = cmds[i].when /\ c.stage = cmds[i].stage
    BY <1>3, <2>1 DEF Valid
  <2>3. On(c)
    BY <2>2 DEF Applicable, On, cmds
  <2>4. cmds[i].stage \in ended
    BY <1>2, <2>2, <2>3 DEF Due
  <2>5. PICK j \in troubled : cmds[j].stage = cmds[i].stage /\ cmds[i].stage # 0
    BY <2>4 DEF RunInv, Shape
  <2>6. j \in sent
    BY DEF RunInv, Shape
  <2>7. j < i
    BY <1>3, <2>1, <2>6 DEF OrderInv, InOrder
  <2> QED
    BY <2>5, <2>7 DEF TroubleBefore
<1>8. ASSUME NEW i \in Applicable PROVE (i \in sent \/ Waiting(i) \/ TroubleBefore(i))'
  <2>1. i \in sent \/ Waiting(i) \/ TroubleBefore(i)
    BY <1>2 DEF OrderInv, Explained, Started
  <2>2. TroubleBefore(i) => TroubleBefore(i)'
    BY <1>2, <1>4 DEF TroubleBefore
  <2>3. CASE Waiting(i)
    <3>1. PICK k \in DOMAIN todo : Itself(i, k)
      BY <2>3 DEF Waiting
    <3>2. CASE k = 1
      BY <1>7, <2>2, <3>1, <3>2
    <3>3. CASE k # 1
      BY <1>6, <3>1, <3>3
    <3> QED
      BY <3>2, <3>3
  <2> QED
    BY <1>2, <2>1, <2>2, <2>3
<1>9. Explained'
  BY <1>4, <1>8 DEF Explained
<1> QED
  BY <1>6, <1>9 DEF OrderInv

\* A command fails.
LEMMA FailedExplained ==
    ASSUME RunInv, OrderInv, CommandFails
    PROVE  OrderInv'
<1>1. PICK c, F : c = Head(todo) /\ F = <<>>
  OBVIOUS
<1>2. /\ Same /\ pc = "run" /\ todo # <<>> /\ todo' = Tail(todo)
      /\ sent' = sent \cup {c.id} /\ troubled \subseteq troubled'
  BY <1>1 DEF CommandFails, Same, Rest
<1>3. Proper(F) /\ todo' = F \o Tail(todo) /\ \A x \in DOMAIN F : IsFollower(c, F[x])
  <2>1. PICK S : todo \in Seq(S)
    BY DEF RunInv, TodoInv, Proper
  <2>2. <<>> \o Tail(todo) = Tail(todo)
    BY <1>2, <2>1, HeadTailProperties, ConcatEmptySeq
  <2> QED
    BY <1>1, <1>2, <2>2, NothingToCome
<1> QED
  BY <1>1, <1>2, <1>3, SentExplained

\* A command is answered, and Collect goes on or panics.
LEMMA AnsweredExplained ==
    ASSUME RunInv, OrderInv, CommandAnswered
    PROVE  OrderInv'
<1>1. PICK c : c = Head(todo)
  OBVIOUS
<1>2. PICK rows \in Replies(c) : Answered(c, rows)
  BY <1>1 DEF CommandAnswered
<1>3. Same /\ pc = "run" /\ todo # <<>> /\ sent' = sent \cup {c.id}
  BY <1>1 DEF CommandAnswered, Same
<1>4. /\ \/ pc' = "panicked" /\ todo' = <<>>
         \/ todo' = FollowUps(c, rows) \o Tail(todo)
      /\ troubled \subseteq troubled'
  BY <1>2, Zenon DEF Answered, Rest
<1>5. CASE pc' = "panicked" /\ todo' = <<>>
  <2>1. DOMAIN todo' = {}
    BY <1>5, NothingToCome
  <2> QED
    BY <1>5, <2>1 DEF OrderInv, InOrder, Explained, Started
<1>6. CASE todo' = FollowUps(c, rows) \o Tail(todo)
  <2>1. Valid(cmds, sent, c) /\ collector \in DOMAIN Program
    BY <1>1, <1>3, HeadFacts DEF RunInv, Shape
  <2>2. IsCommand(c) /\ (c.next # <<>> => IsCommand(c.next[1]) /\ c.next[1].next = <<>>)
    BY <2>1, ProgramFacts DEF Valid
  <2>3. PICK F : F = FollowUps(c, rows)
    OBVIOUS
  <2>4. Proper(F) /\ \A x \in DOMAIN F : IsFollower(c, F[x])
    BY <1>2, <2>2, <2>3, RowsProper, FollowersProper
  <2> QED
    BY <1>1, <1>3, <1>4, <1>6, <2>3, <2>4, SentExplained
<1> QED
  BY <1>4, <1>5, <1>6

\* Collect begins with the commands in the order they are written.
LEMMA StartExplained ==
    ASSUME RunInv, Start
    PROVE  OrderInv'
<1>1. Same /\ pc = "idle" /\ todo' = Commands /\ sent' = sent /\ sent = {}
  BY DEF Start, Same, history, RunInv, Shape
<1>2. cmds' = cmds /\ Applicable' = Applicable
  BY <1>1, SameProgram
<1>3. DOMAIN todo' = DOMAIN cmds
      /\ \A i \in DOMAIN cmds : todo'[i] = [cmds[i] EXCEPT !.id = i]
  BY <1>1 DEF Commands, cmds
<1>4. ASSUME NEW i \in DOMAIN cmds PROVE todo'[i].id = i /\ todo'[i].follow = FALSE
  <2>1. IsCommand(cmds[i]) /\ cmds[i].follow = FALSE
    BY ProgramFacts DEF RunInv, Shape
  <2>2. PICK d : d = todo'[i]
    OBVIOUS
  <2>3. d = [cmds[i] EXCEPT !.id = i]
    BY <1>3, <2>2
  <2>4. d.id = i /\ d.follow = FALSE
    BY <2>1, <2>3, SetId
  <2> QED
    BY <2>2, <2>4
<1>5. InOrder'
  BY <1>1, <1>3, <1>4 DEF InOrder
<1>6. \A i \in Applicable : Waiting(i)'
  BY <1>3, <1>4 DEF Applicable, cmds, Waiting, Itself
<1> QED
  BY <1>2, <1>5, <1>6 DEF OrderInv, Explained

\* Every step keeps the order.
LEMMA OrderNext == RunInv /\ OrderInv /\ [Next]_vars => OrderInv'
<1> SUFFICES ASSUME RunInv, OrderInv, [Next]_vars PROVE OrderInv'
  OBVIOUS
<1>1. CASE Refuse \/ Return
  <2>1. /\ Same /\ todo' = todo /\ sent' = sent /\ troubled' = troubled /\ pc' = "done"
        /\ Refuse => ~(Supported /\ Configured)
        /\ Return => pc = "run"
    BY <1>1 DEF Refuse, Return, Same, history
  <2>2. /\ cmds' = cmds /\ Supported' = Supported /\ Configured' = Configured
        /\ Applicable' = Applicable
    BY <2>1, SameProgram
  <2>3. InOrder'
    BY <2>1 DEF OrderInv, InOrder
  <2>4. Explained'
    BY <1>1, <2>1, <2>2 DEF OrderInv, Explained, Started, Waiting, Itself, TroubleBefore
  <2> QED
    BY <2>3, <2>4 DEF OrderInv
<1>2. CASE Start
  BY <1>2, StartExplained
<1>3. CASE PassOver
  BY <1>3, PassedExplained
<1>4. CASE CommandFails
  BY <1>4, FailedExplained
<1>5. CASE CommandAnswered
  BY <1>5, AnsweredExplained
<1>6. CASE UNCHANGED vars
  <2>1. Same /\ todo' = todo /\ sent' = sent /\ troubled' = troubled /\ pc' = pc
    BY <1>6 DEF vars, Same
  <2>2. /\ cmds' = cmds /\ Supported' = Supported /\ Configured' = Configured
        /\ Applicable' = Applicable
    BY <2>1, SameProgram
  <2>3. InOrder'
    BY <2>1 DEF OrderInv, InOrder
  <2>4. Explained'
    BY <2>1, <2>2 DEF OrderInv, Explained, Started, Waiting, Itself, TroubleBefore
  <2> QED
    BY <2>3, <2>4 DEF OrderInv
<1> QED
  BY <1>1, <1>2, <1>3, <1>4, <1>5, <1>6 DEF Next

\* What goes wrong at one path of the API keeps nothing from being asked elsewhere, for any
\* collector that gives up together only what is at one path or below it, whatever the device
\* answers: Collect leaves out a command that applies only after trouble in one sent before
\* it, at the same path or above.
THEOREM TroubleStaysContained == Spec => [](StagesKeepToPaths => TroubleContained)
<1>1. Init => OrderInv
  <2> SUFFICES ASSUME Init PROVE OrderInv
    OBVIOUS
  <2>1. DOMAIN todo = {} /\ sent = {} /\ pc = "idle"
    BY NothingToCome DEF Init
  <2> QED
    BY <2>1 DEF OrderInv, InOrder, Explained, Started
<1>2. RunInv /\ OrderInv => (StagesKeepToPaths => TroubleContained)
  <2> SUFFICES ASSUME RunInv, OrderInv, StagesKeepToPaths, pc = "done", Supported, Configured,
                      NEW i \in Applicable \ sent
               PROVE  \E j \in troubled : j < i /\ Above(program.cmds[j], program.cmds[i])
    BY DEF TroubleContained
  <2>1. DOMAIN todo = {}
    BY NothingToCome DEF RunInv, Shape
  <2>2. TroubleBefore(i)
    BY <2>1 DEF OrderInv, Explained, Started, Waiting
  <2>3. PICK j \in troubled : j < i /\ cmds[j].stage = cmds[i].stage /\ cmds[i].stage # 0
    BY <2>2 DEF TroubleBefore
  <2>4. i \in DOMAIN cmds /\ j \in DOMAIN cmds
    BY DEF RunInv, Shape, Applicable, cmds
  <2>5. Above(cmds[j], cmds[i])
    BY <2>3, <2>4 DEF StagesKeepToPaths
  <2> QED
    BY <2>3, <2>5 DEF cmds
<1> QED
  BY <1>1, <1>2, OrderNext, RunInit, RunNext, PTL DEF Spec

----------------------------------------------------------------------------
\* Labels: the commands to come declare as many as their metrics have.
FitInv == pc # "panicked" /\ \A k \in DOMAIN todo : DeclaresAll(todo[k])

\* Only what a command asks for and its groups matter for that.
LEMMA DeclaresSame ==
    ASSUME NEW c, NEW d, d.asks = c.asks, d.groups = c.groups, NEW named, Declares(c, named)
    PROVE  Declares(d, named)
BY DEF Declares, Mute, Asked

\* A command keeps them when its place is set.
LEMMA DeclaresPlaced ==
    ASSUME NEW c, IsCommand(c), DeclaresAll(c), NEW i, NEW d, d = [c EXCEPT !.id = i]
    PROVE  DeclaresAll(d)
<1>1. d.asks = c.asks /\ d.groups = c.groups /\ d.next = c.next /\ d.then = c.then
  BY DEF IsCommand, Fields
<1>2. Declares(d, 0)
  BY <1>1, DeclaresSame DEF DeclaresAll
<1> QED
  BY <1>1, <1>2 DEF DeclaresAll

\* So does one that follows another.
LEMMA DeclaresChild ==
    ASSUME NEW c, NEW b, IsCommand(b), b.next = <<>>, Declares(b, 0)
    PROVE  DeclaresAll(Child(c, b))
<1> DEFINE d == Child(c, b)
<1>1. d.asks = b.asks /\ d.groups = b.groups /\ d.next = <<>>
  BY DEF IsCommand, Fields, Child
<1> HIDE DEF d
<1>2. Declares(d, 0)
  BY <1>1, DeclaresSame
<1>3. DeclaresAll(d)
  BY <1>1, <1>2 DEF DeclaresAll
<1> QED
  BY <1>3 DEF d

\* The label for the name of a row is the one the description has room for.
LEMMA DeclaresNamed ==
    ASSUME NEW c, NEW b, b = c.next[1], IsCommand(b), Declares(b, 1), NEW row,
           NEW d, d = Asking(b, Named(c, row), Passed(row))
    PROVE  Declares(d, 0)
<1>1. d.asks = b.asks /\ d.groups = Named(c, row)
  BY NamedFields
<1>2. DOMAIN d.groups = DOMAIN b.groups
  BY <1>1 DEF Named
<1>3. SUFFICES ASSUME NEW k \in DOMAIN d.groups
      PROVE  LET g == d.groups[k] IN
             0 + Len(g.tag) + Len(g.labels) = g.arity \/ Mute(d, g)
  BY DEF Declares
<1> DEFINE g == b.groups[k]
           h == d.groups[k]
<1>4. /\ Len(h.tag) = 1 + Len(g.tag) /\ h.labels = g.labels /\ h.arity = g.arity
      /\ h.per = g.per /\ h.metrics = g.metrics
  BY <1>1, <1>2, NamedGroups
<1>5. 1 + Len(g.tag) + Len(g.labels) = g.arity \/ Mute(b, g)
  BY <1>2 DEF Declares
<1>6. IsGroup(g)
  BY <1>2 DEF IsCommand
<1>7. Len(g.tag) \in Nat /\ Len(g.labels) \in Nat
  BY <1>6, LenProperties DEF IsGroup, IsSequence
<1>8. \A p : Asked(d, p) <=> Asked(b, p)
  BY <1>1 DEF Asked
<1> HIDE DEF g, h
<1>9. CASE 1 + Len(g.tag) + Len(g.labels) = g.arity
  <2>1. \A x, y \in Nat : 0 + (1 + x) + y = 1 + x + y
    OBVIOUS
  <2>2. 0 + (1 + Len(g.tag)) + Len(g.labels) = g.arity
    BY <1>7, <1>9, <2>1
  <2>3. 0 + Len(h.tag) + Len(h.labels) = h.arity
    BY <1>4, <2>2
  <2> QED
    BY <2>3 DEF h
<1>10. CASE ~(1 + Len(g.tag) + Len(g.labels) = g.arity)
  BY <1>4, <1>5, <1>8, <1>10 DEF h, Mute
<1> QED
  BY <1>9, <1>10

\* All that follow a command declare what they have.
LEMMA FollowersDeclare ==
    ASSUME NEW c, IsCommand(c), c.next # <<>> => IsCommand(c.next[1]) /\ c.next[1].next = <<>>,
           DeclaresAll(c), NEW rows
    PROVE  \A k \in DOMAIN FollowUps(c, rows) : DeclaresAll(FollowUps(c, rows)[k])
<1> DEFINE F == FollowUps(c, rows)
           b == c.next[1]
<1>1. CASE F = <<>>
  <2>1. DOMAIN <<>> = {}
    BY SMT
  <2> QED
    BY <1>1, <2>1
<1>2. CASE c.next # <<>> /\ c.then # "each" /\ F = <<Child(c, b)>>
  <2>1. IsCommand(b) /\ b.next = <<>> /\ Declares(b, 0)
    BY <1>2 DEF DeclaresAll
  <2> HIDE DEF b
  <2>2. DeclaresAll(Child(c, b))
    BY <2>1, DeclaresChild
  <2>3. DOMAIN F = {1} /\ F[1] = Child(c, b)
    BY <1>2, SMT DEF b
  <2> QED
    BY <2>2, <2>3
<1>3. CASE c.next # <<>> /\ c.then = "each"
  <2> DEFINE made(k) == Asking(b, Named(c, rows[k]), Passed(rows[k]))
  <2>1. F = [k \in DOMAIN rows |-> Child(c, made(k))]
    BY <1>3 DEF FollowUps, Asking
  <2>2. ASSUME NEW k \in DOMAIN rows PROVE DeclaresAll(Child(c, made(k)))
    <3>1. IsCommand(b) /\ b.next = <<>> /\ Declares(b, 1)
      BY <1>3 DEF DeclaresAll
    <3> DEFINE row == rows[k]
               d == Asking(b, Named(c, row), Passed(row))
    <3>2. IsCommand(d) /\ d.next = <<>> /\ Declares(d, 0)
      <4> HIDE DEF row
      <4> QED
        BY <3>1, NamedFields, DeclaresNamed
    <3> HIDE DEF d, b
    <3>3. DeclaresAll(Child(c, d))
      BY <3>2, DeclaresChild
    <3> QED
      BY <3>3 DEF d
  <2> HIDE DEF F, made
  <2> QED
    BY <2>1, <2>2 DEF F
<1>4. \/ F = <<>> \/ (c.next # <<>> /\ c.then # "each" /\ F = <<Child(c, b)>>)
      \/ (c.next # <<>> /\ c.then = "each")
  <2>1. c.then \in {"each", "some", "all"}
    BY DEF IsCommand
  <2>2. CASE c.next = <<>>
    BY <2>2 DEF FollowUps
  <2>3. CASE c.next # <<>> /\ c.then = "some"
    BY <2>3 DEF FollowUps
  <2>4. CASE c.next # <<>> /\ c.then = "all"
    BY <2>4 DEF FollowUps
  <2> QED
    BY <2>1, <2>2, <2>3, <2>4
<1> QED
  BY <1>1, <1>2, <1>3, <1>4

\* A group whose description does not fit emits nothing: what it reads is missing.
LEMMA MisfitsAreSilent ==
    ASSUME NEW c, Declares(c, 0), NEW k \in DOMAIN c.groups, NEW g, g = c.groups[k], IsGroup(g),
           NEW rows, Emissions(c, g, rows) # {}
    PROVE  Len(g.tag) + Len(g.labels) = g.arity
<1>1. Len(g.tag) \in Nat /\ Len(g.labels) \in Nat
  BY LenProperties DEF IsGroup, IsSequence
<1>2. CASE 0 + Len(g.tag) + Len(g.labels) = g.arity
  <2>1. \A x, y \in Nat : 0 + x + y = x + y
    OBVIOUS
  <2>2. 0 + Len(g.tag) + Len(g.labels) = Len(g.tag) + Len(g.labels)
    BY <1>1, <2>1
  <2> QED
    BY <1>2, <2>2
<1>3. CASE Mute(c, g)
  <2>1. ASSUME NEW row, NEW m \in g.metrics PROVE Value(c, row, m.prop) \in {"missing", "void"}
    <3>1. ~Asked(c, m.prop)
      BY <1>3 DEF Mute
    <3>2. CASE row.how = "void"
      BY <3>2 DEF Value
    <3>3. CASE row.how # "void"
      BY <3>1, <3>3 DEF Value
    <3> QED
      BY <3>2, <3>3
  <2>2. \A row : Emits(c, g, row) = {}
    BY <1>3, <2>1 DEF Emits, Mute
  <2>3. Emissions(c, g, rows) = {}
    BY <1>3, <2>2 DEF Emissions, Mute
  <2> QED
    BY <2>3
<1> QED
  BY <1>2, <1>3 DEF Declares

\* No command: the invariant holds before Collect begins.
LEMMA FitInit == Init => FitInv
<1> SUFFICES ASSUME Init PROVE FitInv
  OBVIOUS
<1>1. todo = <<>> /\ pc = "idle"
  BY DEF Init
<1>2. DOMAIN todo = {}
  BY <1>1, NothingToCome
<1> QED
  BY <1>1, <1>2 DEF FitInv

\* Every step keeps it: a command and those that follow it collect only what they declare.
LEMMA FitNext == RunInv /\ FitInv /\ [Next]_vars => FitInv'
<1> SUFFICES ASSUME RunInv, FitInv, [Next]_vars PROVE FitInv'
  OBVIOUS
<1>1. CASE Refuse \/ Return
  <2>1. pc' = "done" /\ todo' = todo
    BY <1>1 DEF Refuse, Return
  <2> QED
    BY <2>1 DEF FitInv
<1>2. CASE Start
  <2>1. pc' = "run" /\ todo' = Commands /\ collector \in DOMAIN Program
    BY <1>2 DEF Start, RunInv, Shape
  <2>2. Commands = [i \in DOMAIN cmds |-> [cmds[i] EXCEPT !.id = i]]
    BY DEF Commands, cmds
  <2>3. ASSUME NEW i \in DOMAIN cmds PROVE DeclaresAll(Commands[i])
    <3>1. IsCommand(cmds[i]) /\ DeclaresAll(cmds[i])
      BY <2>1, ProgramFacts, ArityAssumption DEF cmds, program
    <3> DEFINE c == cmds[i]
               d == Commands[i]
    <3>2. d = [c EXCEPT !.id = i]
      BY <2>2
    <3> HIDE DEF c, d
    <3>3. DeclaresAll(d)
      BY <3>1, <3>2, DeclaresPlaced DEF c
    <3> QED
      BY <3>3 DEF d
  <2> QED
    BY <2>1, <2>2, <2>3 DEF FitInv
<1>3. ASSUME NEW F, Proper(F), \A x \in DOMAIN F : DeclaresAll(F[x]), todo # <<>>,
             todo' = F \o Tail(todo), pc' = pc
      PROVE  FitInv'
  <2>1. Proper(todo) /\ \A k \in DOMAIN todo : DeclaresAll(todo[k])
    BY DEF RunInv, TodoInv, FitInv
  <2>2. InPlaceOfHead(F, todo, todo')
    BY <1>3, <2>1, Replaced
  <2>3. \A k \in DOMAIN todo' : DeclaresAll(todo'[k])
    BY <1>3, <2>1, <2>2 DEF InPlaceOfHead
  <2> QED
    BY <1>3, <2>3 DEF FitInv
<1>4. CASE PassOver \/ CommandFails
  <2>1. todo # <<>> /\ todo' = Tail(todo) /\ pc' = pc
    BY <1>4 DEF PassOver, CommandFails, Rest
  <2>2. Proper(<<>>) /\ DOMAIN <<>> = {}
    BY NothingToCome
  <2>3. <<>> \o Tail(todo) = Tail(todo)
    <3>1. PICK S : todo \in Seq(S)
      BY DEF RunInv, TodoInv, Proper
    <3>2. Tail(todo) \in Seq(S)
      BY <2>1, <3>1, HeadTailProperties
    <3> QED
      BY <3>2, ConcatEmptySeq
  <2> QED
    BY <1>3, <2>1, <2>2, <2>3
<1>5. CASE CommandAnswered
  <2>1. PICK c : c = Head(todo)
    OBVIOUS
  <2>2. PICK rows \in Replies(c) : Answered(c, rows)
    BY <1>5, <2>1 DEF CommandAnswered
  <2>3. pc = "run" /\ todo # <<>>
    BY <1>5 DEF CommandAnswered
  <2>4. /\ IsCommand(c) /\ DeclaresAll(c)
        /\ c.next # <<>> => IsCommand(c.next[1]) /\ c.next[1].next = <<>>
    <3>1. 1 \in DOMAIN todo /\ c = todo[1] /\ Valid(cmds, sent, c)
      BY <2>1, <2>3, HeadFacts DEF RunInv
    <3>2. collector \in DOMAIN Program
      BY DEF RunInv, Shape
    <3> QED
      BY <3>1, <3>2, ProgramFacts DEF Valid, FitInv
  <2> DEFINE misfit == \E k \in Reached(c, rows) :
                           /\ Emissions(c, c.groups[k], rows) # {}
                           /\ Len(c.groups[k].tag) + Len(c.groups[k].labels) # c.groups[k].arity
             F == FollowUps(c, rows)
  <2>5. /\ pc' = IF misfit THEN "panicked" ELSE pc
        /\ todo' = IF misfit THEN <<>> ELSE F \o Tail(todo)
    BY <2>2, Zenon DEF Answered, Rest
  <2>6. ~misfit
    <3>1. ASSUME NEW k \in Reached(c, rows), Emissions(c, c.groups[k], rows) # {}
          PROVE  Len(c.groups[k].tag) + Len(c.groups[k].labels) = c.groups[k].arity
      <4>1. k \in DOMAIN c.groups
        BY DEF Reached, GroupsOn
      <4>2. IsGroup(c.groups[k]) /\ Declares(c, 0)
        BY <2>4, <4>1 DEF IsCommand, DeclaresAll
      <4> QED
        BY <3>1, <4>1, <4>2, MisfitsAreSilent
    <3> QED
      BY <3>1
  <2>7. Proper(F) /\ \A x \in DOMAIN F : DeclaresAll(F[x])
    <3>1. \E n \in Nat : DOMAIN rows = 1..n
      BY <2>2, <2>4, RowsProper
    <3> QED
      BY <2>4, <3>1, FollowersProper, FollowersDeclare
  <2> HIDE DEF misfit, F
  <2>8. todo' = F \o Tail(todo) /\ pc' = pc
    BY <2>5, <2>6
  <2> QED
    BY <1>3, <2>3, <2>7, <2>8
<1>6. CASE UNCHANGED vars
  BY <1>6 DEF vars, FitInv
<1> QED
  BY <1>1, <1>2, <1>4, <1>5, <1>6 DEF Next

\* No collector panics in MustNewConstMetric, whatever a device answers and however many
\* rows: each series has as many label values as its description declares, for any program
\* whose descriptions have room for the labels of what is asked for.
THEOREM LabelsAlwaysFit == Spec => []LabelsFit
<1>1. FitInv => LabelsFit
  BY DEF FitInv, LabelsFit
<1> QED
  BY <1>1, RunInit, RunNext, FitInit, FitNext, PTL DEF Spec

----------------------------------------------------------------------------
\* Metrics that appear.  A command whose metrics are those of b, and which asks for the same.
AlikeGroup(h, g) ==
    /\ h.when = g.when /\ h.per = g.per /\ h.key = g.key /\ h.drops = g.drops
    /\ h.metrics = g.metrics
Alike(d, b) ==
    /\ d.asks = b.asks /\ DOMAIN d.groups = DOMAIN b.groups
    /\ \A k \in DOMAIN b.groups : AlikeGroup(d.groups[k], b.groups[k])

\* The metrics of a command are among the series S, or will never be.
Shown(S, c) ==
    \A k \in GroupsOn(c) : \A m \in c.groups[k].metrics :
        <<collector, m.name>> \in Silent \/ \E s \in S : s[1] = m.name

\* One that follows the command i, with its metrics, is to come.
Carries(f, i) == f.follow /\ f.id = i /\ On(f) /\ Alike(f, cmds[i].next[1])
Pending(i) == \E k \in DOMAIN todo : Carries(todo[k], i)
Follows(i) == cmds[i].next # <<>> /\ On(cmds[i].next[1])
Served(i) ==
    /\ Shown(series, cmds[i])
    /\ Follows(i) => Shown(series, cmds[i].next[1]) \/ Pending(i)
AppearInv ==
    /\ \A k \in DOMAIN todo :
           /\ Obtains(collector, todo[k])
           /\ ~todo[k].follow => Alike(todo[k], cmds[todo[k].id])
    /\ perfect => ended = {} /\ \A i \in sent : Served(i)

\* What is obtained by a command is obtained by one like it.
LEMMA AlikeObtains ==
    ASSUME NEW x, NEW b, NEW d, Obtains(x, b), Alike(d, b)
    PROVE  Obtains(x, d)
<1>1. \A p : Whole(d, p) = Whole(b, p)
  BY DEF Alike, Whole, Asked
<1> QED
  BY <1>1 DEF Obtains, Alike, AlikeGroup

\* What shows the metrics of a command shows those of one like it.
LEMMA AlikeShown ==
    ASSUME NEW S, NEW b, NEW d, Shown(S, d), Alike(d, b)
    PROVE  Shown(S, b)
<1>1. GroupsOn(d) = GroupsOn(b)
  BY DEF GroupsOn, On, Alike, AlikeGroup
<1>2. \A k \in GroupsOn(b) : d.groups[k].metrics = b.groups[k].metrics
  BY DEF GroupsOn, Alike, AlikeGroup
<1> QED
  BY <1>1, <1>2 DEF Shown

\* What has appeared stays.
LEMMA StillShown ==
    ASSUME NEW S, NEW T, S \subseteq T, NEW c, Shown(S, c)
    PROVE  Shown(T, c)
BY DEF Shown

\* Steps of one scrape agree on what is on, and so on what is shown.
LEMMA SameShown ==
    ASSUME Same
    PROVE  \A c, S : (On(c)' <=> On(c)) /\ (Shown(S, c)' <=> Shown(S, c))
<1>1. Active' = Active
  BY DEF Same, Active, ActiveIn
<1>2. \A c : On(c)' <=> On(c)
  BY <1>1 DEF On
<1>3. \A c : GroupsOn(c)' = GroupsOn(c)
  BY <1>1 DEF GroupsOn, On
<1>4. \A c, S : Shown(S, c)' <=> Shown(S, c)
  BY <1>3 DEF Shown, Same
<1> QED
  BY <1>2, <1>4

\* A reply that is not empty has a first row.
LEMMA FirstRow ==
    ASSUME NEW c, IsCommand(c), NEW rows \in Replies(c), rows # <<>>
    PROVE  1 \in DOMAIN rows
<1>1. PICK n \in Nat : DOMAIN rows = 1..n
  BY RowsProper
<1>2. rows = [k \in 1..n |-> rows[k]]
  <2>1. PICK z \in Sizes(c) :
            rows \in {[k \in 1..z |-> IF k = 1 THEN r ELSE Fine(k)] : r \in FirstRows(c)}
    BY DEF Replies
  <2> QED
    BY <1>1, <2>1
<1>3. CASE n = 0
  <2>1. 1..0 = {}
    BY SMT
  <2>2. rows = [k \in 1..0 |-> {}]
    BY <1>2, <1>3, <2>1
  <2>3. rows \in Seq({{}}) /\ Len(rows) = 0
    <3>1. DOMAIN rows = 1..0
      BY <2>2
    <3>2. rows \in Seq({{}})
      BY <2>2, IsASeq
    <3> QED
      BY <3>1, <3>2, LenProperties, SMT
  <2> QED
    BY <2>3, EmptySeq
<1>4. CASE n # 0
  BY <1>1, <1>4, SMT
<1> QED
  BY <1>3, <1>4

\* What a row that lacks nothing has for a property.
LEMMA WholeValue ==
    ASSUME NEW c, NEW row, row.how = "fine", NEW p
    PROVE  Value(c, row, p) = Whole(c, p)
<1>1. CASE Asked(c, p)
  BY <1>1 DEF Value, Whole
<1>2. CASE ~Asked(c, p)
  BY <1>2 DEF Value, Whole
<1> QED
  BY <1>1, <1>2

\* Rows that lack nothing are read without an error, and give all that can be had.
LEMMA WholeEmissions ==
    ASSUME NEW c, Obtains(collector, c), NEW rows, 1 \in DOMAIN rows,
           \A j \in DOMAIN rows : rows[j].how = "fine", NEW k \in DOMAIN c.groups
    PROVE  /\ ~Unreadable(c, c.groups[k], rows)
           /\ \A m \in c.groups[k].metrics :
                  \/ <<collector, m.name>> \in Silent
                  \/ \E e \in Emissions(c, c.groups[k], rows) : e[2][1] = m.name
<1> DEFINE g == c.groups[k]
<1>1. \A m \in g.metrics :
          /\ Whole(c, m.prop) \notin Failing[m.conv]
          /\ \/ <<collector, m.name>> \in Silent \/ g.per = "reply"
             \/ /\ Whole(c, m.prop) \in Emitted[m.conv]
                /\ g.drops # {} => Whole(c, g.key) \notin g.drops
  BY DEF Obtains
<1> HIDE DEF g
<1>2. \A j \in DOMAIN rows : \A p : Value(c, rows[j], p) = Whole(c, p)
  BY WholeValue
<1>3. ~Unreadable(c, g, rows)
  BY <1>1, <1>2 DEF Unreadable, Looked
<1>4. ASSUME NEW m \in g.metrics, <<collector, m.name>> \notin Silent
      PROVE  \E e \in Emissions(c, g, rows) : e[2][1] = m.name
  <2>1. CASE g.per = "reply"
    <3> DEFINE e == <<<<0, m>>, <<m.name, LabelsOf(c, g, NoRow)>>>>
    <3>1. e \in Emissions(c, g, rows)
      BY <2>1, Zenon DEF Emissions
    <3>2. e[2][1] = m.name
      OBVIOUS
    <3> QED
      BY <3>1, <3>2
  <2>2. CASE g.per # "reply"
    <3> DEFINE of(j) == {<<<<j, n>>, <<n.name, LabelsOf(c, g, rows[j])>>>> :
                             n \in Emits(c, g, rows[j])}
               e == <<<<1, m>>, <<m.name, LabelsOf(c, g, rows[1])>>>>
    <3>1. 1 \in Looked(c, g, rows)
      <4>1. rows[1].how = "fine" /\ (g.drops # {} => Value(c, rows[1], g.key) \notin g.drops)
        BY <1>1, <1>2, <1>4, <2>2
      <4> QED
        BY <4>1 DEF Looked
    <3>2. m \in Emits(c, g, rows[1])
      BY <1>1, <1>2, <1>4, <2>2 DEF Emits
    <3>3. e \in of(1)
      BY <3>2, Zenon
    <3>4. Emissions(c, g, rows) = UNION {of(j) : j \in Looked(c, g, rows)}
      BY <2>2, Zenon DEF Emissions
    <3>5. e[2][1] = m.name
      OBVIOUS
    <3> HIDE DEF of, e
    <3>6. e \in Emissions(c, g, rows)
      BY <3>1, <3>3, <3>4
    <3> QED
      BY <3>5, <3>6
  <2> QED
    BY <2>1, <2>2
<1> QED
  BY <1>3, <1>4 DEF g

\* A command that is answered completely has shown its metrics, and has made no trouble.
LEMMA AnswerShows ==
    ASSUME NEW c, Obtains(collector, c), NEW rows, 1 \in DOMAIN rows,
           \A j \in DOMAIN rows : rows[j].how = "fine", Answered(c, rows)
    PROVE  ended' = ended /\ series \subseteq series' /\ Shown(series', c)
<1> DEFINE G == c.groups
           R == Reached(c, rows)
           out == UNION {{<<k, e>> : e \in Emissions(c, G[k], rows)} : k \in R}
           new == {o[2][2] : o \in out}
           bad == \E k \in R : Unreadable(c, G[k], rows)
<1>1. ended' = (IF bad THEN Ends(c) ELSE ended) /\ series' = series \cup new
  BY Zenon DEF Answered
<1>2. R \subseteq DOMAIN G /\ R = GroupsOn(c)
  BY WholeEmissions DEF Reached, GroupsOn
<1>3. ~bad
  BY <1>2, WholeEmissions
<1>4. ASSUME NEW k \in R, NEW m \in G[k].metrics, <<collector, m.name>> \notin Silent
      PROVE  \E s \in new : s[1] = m.name
  <2>1. PICK e \in Emissions(c, G[k], rows) : e[2][1] = m.name
    BY <1>2, <1>4, WholeEmissions
  <2> DEFINE o == <<k, e>>
  <2>2. o \in out
    <3>1. o \in {<<k, x>> : x \in Emissions(c, G[k], rows)}
      BY Zenon
    <3> QED
      BY <3>1, Zenon
  <2>3. o[2] = e
    OBVIOUS
  <2>4. o[2][2] \in new
    <3> HIDE DEF o, out
    <3> QED
      BY <2>2
  <2> QED
    BY <2>1, <2>3, <2>4
<1> HIDE DEF new, R, bad
<1>5. Shown(series', c)
  BY <1>1, <1>2, <1>4 DEF Shown
<1> QED
  BY <1>1, <1>3, <1>5

\* Whatever it follows, a command has the metrics it was written with.
LEMMA ChildAlike ==
    ASSUME NEW c, NEW b, IsCommand(b), NEW d, d = Child(c, b)
    PROVE  Alike(d, b) /\ d.when = b.when
<1>1. d.asks = b.asks /\ d.groups = b.groups /\ d.when = b.when
  BY DEF IsCommand, Fields, Child
<1> QED
  BY <1>1 DEF Alike, AlikeGroup

\* The name of a row is no part of what a follow-up asks for or shows, and a row that lacks
\* nothing switches nothing off.
LEMMA NamedAlike ==
    ASSUME NEW c, NEW b, b = c.next[1], IsCommand(b), NEW row,
           NEW d, d = Asking(b, Named(c, row), Passed(row))
    PROVE  Alike(d, b) /\ (row.how = "fine" => d.when = b.when)
<1>1. d.asks = b.asks /\ d.groups = Named(c, row)
  BY NamedFields
<1>2. DOMAIN d.groups = DOMAIN b.groups
  BY <1>1 DEF Named
<1>3. Alike(d, b)
  BY <1>1, <1>2, NamedGroups DEF Alike, AlikeGroup
<1>4. ASSUME row.how = "fine" PROVE d.when = b.when
  <2>1. Passed(row) = {}
    BY <1>4 DEF Passed
  <2>2. d.when = b.when \cup Passed(row)
    BY DEF Asking, IsCommand, Fields
  <2> QED
    BY <2>1, <2>2
<1> QED
  BY <1>3, <1>4

\* FollowUps leaves the metrics of what follows as they are; after a complete reply there is
\* such a command, and it is on if it was written so.
LEMMA FollowersAlike ==
    ASSUME NEW c, IsCommand(c), c.next # <<>>, NEW b, b = c.next[1], IsCommand(b), b.next = <<>>,
           NEW rows
    PROVE  /\ \A x \in DOMAIN FollowUps(c, rows) : Alike(FollowUps(c, rows)[x], b)
           /\ 1 \in DOMAIN rows /\ rows[1].how = "fine" /\ On(b) =>
                  1 \in DOMAIN FollowUps(c, rows) /\ On(FollowUps(c, rows)[1])
<1> DEFINE F == FollowUps(c, rows)
<1>1. CASE c.then # "each" /\ F = <<Child(c, b)>>
  <2>1. DOMAIN F = {1} /\ F[1] = Child(c, b)
    BY <1>1, SMT
  <2>2. Alike(Child(c, b), b) /\ Child(c, b).when = b.when
    BY ChildAlike
  <2> QED
    BY <2>1, <2>2 DEF On
<1>2. CASE c.then = "each"
  <2> DEFINE made(k) == Asking(b, Named(c, rows[k]), Passed(rows[k]))
  <2>1. F = [k \in DOMAIN rows |-> Child(c, made(k))]
    BY <1>2 DEF FollowUps, Asking
  <2>2. ASSUME NEW k \in DOMAIN rows
        PROVE  /\ Alike(Child(c, made(k)), b)
               /\ rows[k].how = "fine" => Child(c, made(k)).when = b.when
    <3> DEFINE row == rows[k]
               d == Asking(b, Named(c, row), Passed(row))
    <3>1. /\ IsCommand(d) /\ d.next = <<>> /\ Alike(d, b)
          /\ row.how = "fine" => d.when = b.when
      <4> HIDE DEF row
      <4> QED
        BY NamedFields, NamedAlike
    <3> HIDE DEF d
    <3>2. Alike(Child(c, d), d) /\ Child(c, d).when = d.when
      BY <3>1, ChildAlike
    <3>3. Alike(Child(c, d), b)
      BY <3>1, <3>2 DEF Alike, AlikeGroup
    <3> QED
      BY <3>1, <3>2, <3>3 DEF d
  <2> HIDE DEF F, made
  <2> QED
    BY <2>1, <2>2 DEF F, On
<1>3. CASE c.then = "some" /\ rows = <<>>
  <2>1. DOMAIN <<>> = {} /\ F = <<>> /\ DOMAIN rows = {}
    BY <1>3, SMT DEF FollowUps
  <2> QED
    BY <2>1
<1>4. (c.then # "each" /\ F = <<Child(c, b)>>) \/ c.then = "each" \/ (c.then = "some" /\ rows = <<>>)
  <2>1. c.then \in {"each", "some", "all"}
    BY DEF IsCommand
  <2>2. CASE c.then = "some"
    BY <2>2 DEF FollowUps
  <2>3. CASE c.then = "all"
    BY <2>3 DEF FollowUps
  <2> QED
    BY <2>1, <2>2, <2>3
<1> QED
  BY <1>1, <1>2, <1>3, <1>4

----------------------------------------------------------------------------
\* Nothing has been sent: the invariant holds before Collect begins.
LEMMA AppearInit == Init => AppearInv
<1> SUFFICES ASSUME Init PROVE AppearInv
  OBVIOUS
<1>1. todo = <<>> /\ sent = {} /\ ended = {}
  BY DEF Init
<1>2. DOMAIN todo = {}
  BY <1>1, NothingToCome
<1> QED
  BY <1>1, <1>2 DEF AppearInv

\* What the assumption says of the program at hand.
LEMMA AskedFacts ==
    ASSUME collector \in DOMAIN Program, NEW i \in DOMAIN cmds
    PROVE  /\ Obtains(collector, cmds[i])
           /\ cmds[i].next # <<>> => Obtains(collector, cmds[i].next[1])
BY AskedAssumption DEF cmds, program

\* Collect begins: all commands to come are as the program has them.
LEMMA AppearStart ==
    ASSUME RunInv, AppearInv, Start
    PROVE  AppearInv'
<1>1. /\ Same /\ pc = "idle" /\ todo' = Commands /\ ended' = ended /\ series' = series
      /\ sent' = sent /\ perfect' = perfect
  BY DEF Start, Same, results, history
<1>2. sent = {} /\ collector \in DOMAIN Program
  BY <1>1 DEF RunInv, Shape
<1>3. cmds' = cmds /\ Commands = [i \in DOMAIN cmds |-> [cmds[i] EXCEPT !.id = i]]
  BY <1>1, SameProgram DEF Commands, cmds
<1>4. ASSUME NEW i \in DOMAIN cmds
      PROVE  Obtains(collector, Commands[i]) /\ Commands[i].id = i /\ Alike(Commands[i], cmds[i])
  <2> DEFINE c == cmds[i]
             d == Commands[i]
  <2>1. IsCommand(c) /\ Obtains(collector, c)
    BY <1>2, ProgramFacts, AskedFacts
  <2>2. d = [c EXCEPT !.id = i]
    BY <1>3
  <2> HIDE DEF c, d
  <2>3. d.id = i /\ d.asks = c.asks /\ d.groups = c.groups
    BY <2>1, <2>2 DEF IsCommand, Fields
  <2>4. Alike(d, c)
    BY <2>3 DEF Alike, AlikeGroup
  <2>5. Obtains(collector, d)
    BY <2>1, <2>4, AlikeObtains
  <2> QED
    BY <2>3, <2>4, <2>5 DEF c, d
<1>5. \A k \in DOMAIN todo' :
          /\ Obtains(collector', todo'[k])
          /\ ~todo'[k].follow => Alike(todo'[k], cmds'[todo'[k].id])
  <2>1. DOMAIN todo' = DOMAIN cmds /\ collector' = collector
    BY <1>1, <1>3 DEF Same
  <2> QED
    BY <1>1, <1>3, <1>4, <2>1
<1>6. perfect' => ended' = {} /\ sent' = {}
  BY <1>1, <1>2 DEF AppearInv
<1> QED
  BY <1>5, <1>6 DEF AppearInv

\* The first command makes room for others that follow it: the rest is as the program has it.
LEMMA AppearTodo ==
    ASSUME RunInv, AppearInv, todo # <<>>, Same, NEW F, Proper(F), todo' = F \o Tail(todo),
           \A x \in DOMAIN F : F[x].follow /\ Obtains(collector, F[x])
    PROVE  \A k \in DOMAIN todo' :
               /\ Obtains(collector', todo'[k])
               /\ ~todo'[k].follow => Alike(todo'[k], cmds'[todo'[k].id])
<1>1. InPlaceOfHead(F, todo, todo')
  BY Replaced DEF RunInv, TodoInv
<1>2. \A k \in DOMAIN todo :
          Obtains(collector, todo[k]) /\ (~todo[k].follow => Alike(todo[k], cmds[todo[k].id]))
  BY DEF AppearInv
<1>3. cmds' = cmds /\ collector' = collector
  BY SameProgram DEF Same
<1>4. SUFFICES ASSUME NEW k \in DOMAIN todo'
      PROVE  /\ Obtains(collector, todo'[k])
             /\ ~todo'[k].follow => Alike(todo'[k], cmds[todo'[k].id])
  BY <1>3
<1>5. \/ \E x \in DOMAIN F : todo'[k] = F[x]
      \/ \E j \in DOMAIN todo : todo'[k] = todo[j]
  BY <1>1 DEF InPlaceOfHead
<1>6. CASE \E x \in DOMAIN F : todo'[k] = F[x]
  BY <1>6
<1>7. CASE \E j \in DOMAIN todo : todo'[k] = todo[j]
  BY <1>2, <1>7
<1> QED
  BY <1>5, <1>6, <1>7

\* A command that is to come is so until it is the first.
LEMMA PendingStays ==
    ASSUME RunInv, todo # <<>>, Same, NEW c, c = Head(todo), NEW F, Proper(F),
           todo' = F \o Tail(todo), NEW i, Pending(i), ~Carries(c, i)
    PROVE  Pending(i)'
<1>1. InPlaceOfHead(F, todo, todo') /\ Head(todo) = todo[1]
  BY Replaced DEF RunInv, TodoInv
<1>2. PICK k \in DOMAIN todo : Carries(todo[k], i)
  BY DEF Pending
<1>3. k # 1
  BY <1>1, <1>2
<1>4. PICK q \in DOMAIN todo' : todo'[q] = todo[k]
  BY <1>1, <1>3 DEF InPlaceOfHead
<1>5. PICK d : d = todo[k]
  OBVIOUS
<1>6. cmds' = cmds /\ \A e : On(e)' <=> On(e)
  BY SameProgram, SameShown
<1>7. \A e : Carries(e, i)' <=> Carries(e, i)
  BY <1>6 DEF Carries
<1>8. Carries(d, i)' /\ todo'[q] = d
  BY <1>2, <1>4, <1>5, <1>7
<1> QED
  BY <1>8 DEF Pending

\* A command is served after a step if its metrics have appeared by then, and those of what
\* follows it have or are to come.
LEMMA ServedThen ==
    ASSUME Same, NEW i, Shown(series', cmds[i]),
           Follows(i) => Shown(series', cmds[i].next[1]) \/ Pending(i)'
    PROVE  Served(i)'
<1>1. PICK b, d : b = cmds[i] /\ d = cmds[i].next[1]
  OBVIOUS
<1>2. cmds' = cmds
  BY SameProgram
<1>3. PICK T : T = series'
  OBVIOUS
<1>4. \A e : (On(e)' <=> On(e)) /\ (Shown(T, e)' <=> Shown(T, e))
  BY SameShown
<1>5. Shown(T, b) /\ (Follows(i) => Shown(T, d) \/ Pending(i)')
  BY <1>1, <1>3
<1>6. Follows(i)' <=> Follows(i)
  BY <1>1, <1>2, <1>4 DEF Follows
<1>7. Shown(T, b)' /\ (Follows(i) => Shown(T, d)' \/ Pending(i)')
  BY <1>4, <1>5
<1>8. Shown(series, cmds[i])' /\ (Follows(i)' => Shown(series, cmds[i].next[1])' \/ Pending(i)')
  BY <1>1, <1>2, <1>3, <1>6, <1>7 DEF Shown
<1> QED
  BY <1>8 DEF Served

\* What a command sent before was owed is still there or to come, if what was sent grows.
LEMMA ServedStays ==
    ASSUME Same, NEW i, Served(i), series \subseteq series',
           Follows(i) /\ Pending(i) => Shown(series', cmds[i].next[1]) \/ Pending(i)'
    PROVE  Served(i)'
<1>1. PICK b, d : b = cmds[i] /\ d = cmds[i].next[1]
  OBVIOUS
<1>2. PICK S, T : S = series /\ T = series'
  OBVIOUS
<1>3. Shown(T, b) /\ (Shown(S, d) => Shown(T, d))
  BY <1>1, <1>2, StillShown DEF Served
<1> QED
  BY <1>1, <1>2, <1>3, ServedThen DEF Served

\* A command that is passed over is not on, so none that was owed.
LEMMA AppearPassed ==
    ASSUME RunInv, AppearInv, PassOver
    PROVE  AppearInv'
<1>1. PICK c : c = Head(todo)
  OBVIOUS
<1>2. Same /\ todo # <<>> /\ ~Due(c) /\ todo' = Tail(todo)
  BY <1>1 DEF PassOver, Same
<1>3. ended' = ended /\ series' = series /\ sent' = sent /\ perfect' = perfect
  BY DEF PassOver, results, history
<1>4. Proper(<<>>) /\ DOMAIN <<>> = {}
  BY NothingToCome
<1>5. <<>> \o Tail(todo) = Tail(todo)
  <2>1. PICK S : todo \in Seq(S)
    BY DEF RunInv, TodoInv, Proper
  <2>2. Tail(todo) \in Seq(S)
    BY <1>2, <2>1, HeadTailProperties
  <2> QED
    BY <2>2, ConcatEmptySeq
<1>6. \A k \in DOMAIN todo' :
          /\ Obtains(collector', todo'[k])
          /\ ~todo'[k].follow => Alike(todo'[k], cmds'[todo'[k].id])
  BY <1>2, <1>4, <1>5, AppearTodo
<1>7. ASSUME perfect, NEW i \in sent PROVE Served(i)'
  <2>1. ~On(c)
    BY <1>2, <1>7 DEF AppearInv, Due
  <2>2. ~Carries(c, i)
    BY <2>1 DEF Carries
  <2>3. Pending(i) => Pending(i)'
    BY <1>1, <1>2, <1>4, <1>5, <2>2, PendingStays
  <2>4. Served(i)
    BY <1>7 DEF AppearInv
  <2> QED
    BY <1>2, <1>3, <2>3, <2>4, ServedStays
<1>8. perfect' => ended' = {} /\ \A i \in sent' : Served(i)'
  BY <1>3, <1>7 DEF AppearInv
<1> QED
  BY <1>6, <1>8 DEF AppearInv

\* A command that fails leaves nothing to be said of what appears.
LEMMA AppearFailed ==
    ASSUME RunInv, AppearInv, CommandFails
    PROVE  AppearInv'
<1>1. Same /\ todo # <<>> /\ todo' = Tail(todo) /\ ~perfect'
  BY DEF CommandFails, Same, Rest
<1>2. Proper(<<>>) /\ DOMAIN <<>> = {}
  BY NothingToCome
<1>3. <<>> \o Tail(todo) = Tail(todo)
  <2>1. PICK S : todo \in Seq(S)
    BY DEF RunInv, TodoInv, Proper
  <2>2. Tail(todo) \in Seq(S)
    BY <1>1, <2>1, HeadTailProperties
  <2> QED
    BY <2>2, ConcatEmptySeq
<1>4. \A k \in DOMAIN todo' :
          /\ Obtains(collector', todo'[k])
          /\ ~todo'[k].follow => Alike(todo'[k], cmds'[todo'[k].id])
  BY <1>1, <1>2, <1>3, AppearTodo
<1> QED
  BY <1>1, <1>4 DEF AppearInv

\* A command that is answered: its own metrics appear, and those of what follows it are to come.
LEMMA AppearAnswered ==
    ASSUME RunInv, AppearInv, CommandAnswered, pc' # "panicked"
    PROVE  AppearInv'
<1>1. PICK c : c = Head(todo)
  OBVIOUS
<1>2. PICK rows \in Replies(c) : Answered(c, rows)
  BY <1>1 DEF CommandAnswered
<1> DEFINE F == FollowUps(c, rows)
           i0 == c.id
<1>3. Same /\ todo # <<>> /\ Due(c) /\ sent' = sent \cup {i0}
  BY <1>1 DEF CommandAnswered, Same
<1>4. /\ todo' = F \o Tail(todo)
      /\ perfect' => /\ perfect /\ rows # <<>>
                     /\ \A k \in DOMAIN rows : rows[k].how = "fine"
  <2> DEFINE misfit == \E k \in Reached(c, rows) :
                           /\ Emissions(c, c.groups[k], rows) # {}
                           /\ Len(c.groups[k].tag) + Len(c.groups[k].labels) # c.groups[k].arity
  <2>1. /\ pc' = IF misfit THEN "panicked" ELSE pc
        /\ todo' = IF misfit THEN <<>> ELSE F \o Tail(todo)
        /\ perfect' = (perfect /\ rows # <<>> /\ \A k \in DOMAIN rows : rows[k].how = "fine")
    BY <1>2, Zenon DEF Answered, Rest
  <2> HIDE DEF misfit, F
  <2> QED
    BY <2>1
<1>5. 1 \in DOMAIN todo /\ c = todo[1] /\ Valid(cmds, sent, c)
  BY <1>1, <1>3, HeadFacts DEF RunInv
<1>6. /\ IsCommand(c) /\ i0 \in DOMAIN cmds /\ (c.follow => c.next = <<>> /\ i0 \in sent)
      /\ ~c.follow => c.next = cmds[i0].next
  BY <1>5 DEF Valid
<1>7. Obtains(collector, c) /\ (~c.follow => Alike(c, cmds[i0]))
  BY <1>5 DEF AppearInv
<1>8. c.next # <<>> => /\ IsCommand(c.next[1]) /\ c.next[1].next = <<>>
                       /\ Obtains(collector, c.next[1])
  <2>1. collector \in DOMAIN Program
    BY DEF RunInv, Shape
  <2> QED
    BY <1>6, <2>1, ProgramFacts, AskedFacts
<1>9. Proper(F) /\ \A x \in DOMAIN F : IsFollower(c, F[x])
  <2>1. \E n \in Nat : DOMAIN rows = 1..n
    BY <1>2, <1>6, RowsProper
  <2> QED
    BY <1>6, <1>8, <2>1, FollowersProper
<1>10. c.next # <<>> =>
          /\ \A x \in DOMAIN F : Alike(F[x], c.next[1])
          /\ 1 \in DOMAIN rows /\ rows[1].how = "fine" /\ On(c.next[1]) =>
                 1 \in DOMAIN F /\ On(F[1])
  BY <1>6, <1>8, FollowersAlike
<1>11. \A x \in DOMAIN F : F[x].follow /\ Obtains(collector, F[x])
  <2>1. CASE c.next = <<>>
    <3>1. DOMAIN F = {}
      BY <2>1, NothingToCome DEF FollowUps
    <3> QED
      BY <3>1
  <2>2. CASE c.next # <<>>
    BY <1>8, <1>9, <1>10, <2>2, AlikeObtains DEF IsFollower
  <2> QED
    BY <2>1, <2>2
<1> HIDE DEF F
<1>12. \A k \in DOMAIN todo' :
           /\ Obtains(collector', todo'[k])
           /\ ~todo'[k].follow => Alike(todo'[k], cmds'[todo'[k].id])
  BY <1>3, <1>4, <1>9, <1>11, AppearTodo
<1>13. ASSUME perfect' PROVE ended' = {} /\ \A i \in sent' : Served(i)'
  <2>1. 1 \in DOMAIN rows /\ \A k \in DOMAIN rows : rows[k].how = "fine"
    BY <1>2, <1>4, <1>6, <1>13, FirstRow
  <2>2. ended' = ended /\ series \subseteq series' /\ Shown(series', c)
    BY <1>2, <1>7, <2>1, AnswerShows
  <2>3. ended = {} /\ \A i \in sent : Served(i)
    BY <1>4, <1>13 DEF AppearInv
  <2>4. ASSUME NEW i \in sent PROVE Served(i)'
    <3>1. CASE Carries(c, i)
      <4>1. PICK T, d : T = series' /\ d = cmds[i].next[1]
        OBVIOUS
      <4>2. Shown(T, d)
        BY <2>2, <3>1, <4>1, AlikeShown DEF Carries
      <4> QED
        BY <1>3, <2>2, <2>3, <4>1, <4>2, ServedStays
    <3>2. CASE ~Carries(c, i)
      <4>1. Pending(i) => Pending(i)'
        BY <1>1, <1>3, <1>4, <1>9, <3>2, PendingStays
      <4> QED
        BY <1>3, <2>2, <2>3, <4>1, ServedStays
    <3> QED
      BY <3>1, <3>2
  <2>5. ASSUME ~c.follow PROVE Served(i0)'
    <3>1. PICK T, b : T = series' /\ b = cmds[i0]
      OBVIOUS
    <3>2. Shown(T, b)
      BY <1>7, <2>2, <2>5, <3>1, AlikeShown
    <3>3. ASSUME Follows(i0) PROVE Pending(i0)'
      <4>1. c.next # <<>> /\ c.next[1] = cmds[i0].next[1] /\ On(c.next[1])
        BY <1>6, <2>5, <3>3 DEF Follows
      <4>2. PICK f : f = F[1]
        OBVIOUS
      <4>3. 1 \in DOMAIN F /\ On(f) /\ Alike(f, cmds[i0].next[1]) /\ IsFollower(c, f)
        BY <1>9, <1>10, <2>1, <4>1, <4>2
      <4>4. Carries(f, i0)
        BY <4>3 DEF Carries, IsFollower
      <4>5. 1 \in DOMAIN todo' /\ todo'[1] = f
        <5>1. InPlaceOfHead(F, todo, todo')
          BY <1>3, <1>4, <1>9, Replaced DEF RunInv, TodoInv
        <5> QED
          BY <4>2, <4>3, <5>1 DEF InPlaceOfHead
      <4>6. PICK j : j = i0
        OBVIOUS
      <4>7. cmds' = cmds /\ \A e : On(e)' <=> On(e)
        BY <1>3, SameProgram, SameShown
      <4>8. Carries(f, j)' <=> Carries(f, j)
        BY <4>7 DEF Carries
      <4>9. Pending(j)'
        BY <4>4, <4>5, <4>6, <4>8 DEF Pending
      <4> QED
        BY <4>6, <4>9
    <3>4. PICK j : j = i0
      OBVIOUS
    <3>5. Follows(j) => Pending(j)'
      BY <3>3, <3>4
    <3>6. Served(j)'
      BY <1>3, <3>1, <3>2, <3>4, <3>5, ServedThen
    <3> QED
      BY <3>4, <3>6
  <2>6. \A i \in sent' : i \in sent \/ (i = i0 /\ ~c.follow)
    BY <1>3, <1>6
  <2> QED
    BY <2>2, <2>3, <2>4, <2>5, <2>6
<1> QED
  BY <1>12, <1>13 DEF AppearInv

\* Every step keeps it.
LEMMA AppearNext == RunInv /\ FitInv /\ AppearInv /\ [Next]_vars => AppearInv'
<1> SUFFICES ASSUME RunInv, FitInv, AppearInv, [Next]_vars PROVE AppearInv'
  OBVIOUS
<1>1. ASSUME Same, todo' = todo, ended' = ended, series' = series, sent' = sent,
             perfect' = perfect
      PROVE  AppearInv'
  <2>1. collector' = collector /\ cmds' = cmds
    BY <1>1, SameProgram DEF Same
  <2>2. ASSUME NEW i \in sent, Served(i) PROVE Served(i)'
    <3>1. \A e : Carries(e, i)' <=> Carries(e, i)
      BY <1>1, <2>1, SameShown DEF Carries
    <3>2. Pending(i) => Pending(i)'
      BY <1>1, <3>1 DEF Pending
    <3> QED
      BY <1>1, <2>2, <3>2, ServedStays
  <2> QED
    BY <1>1, <2>1, <2>2 DEF AppearInv
<1>2. CASE Refuse \/ Return
  <2>1. todo' = todo /\ ended' = ended /\ sent' = sent /\ series' = series /\ perfect' = perfect
    BY <1>2 DEF Refuse, Return, results, history
  <2> QED
    BY <1>1, <1>2, <2>1 DEF Refuse, Return, Same
<1>3. CASE Start
  BY <1>3, AppearStart
<1>4. CASE PassOver
  BY <1>4, AppearPassed
<1>5. CASE CommandFails
  BY <1>5, AppearFailed
<1>6. CASE CommandAnswered
  <2>1. pc' # "panicked"
    BY FitNext DEF FitInv
  <2> QED
    BY <1>6, <2>1, AppearAnswered
<1>7. CASE UNCHANGED vars
  BY <1>1, <1>7 DEF vars, Same
<1> QED
  BY <1>2, <1>3, <1>4, <1>5, <1>6, <1>7 DEF Next

\* A device that answers everything completely gets every metric a collector describes for its
\* version and configuration, also those of follow-up commands, whatever the number of rows:
\* Collect comes to each command, and each asks for what its metrics and labels read.
THEOREM DeclaredAlwaysAppear == Spec => []DeclaredAppear
<1>1. RunInv /\ AppearInv => DeclaredAppear
  <2> SUFFICES ASSUME RunInv, AppearInv, pc = "done", perfect, Supported, Configured,
                      NEW d \in Declared, <<collector, d>> \notin Silent
               PROVE  \E s \in series : s[1] = d
    BY DEF DeclaredAppear
  <2> DEFINE C == {program.cmds[i] : i \in Applicable}
             D == {c.next[1] : c \in {b \in C : b.next # <<>> /\ On(b.next[1])}}
  <2>1. DOMAIN todo = {}
    BY NothingToCome DEF RunInv, Shape
  <2>2. ended = {} /\ \A i \in sent : Served(i)
    BY DEF AppearInv
  <2>3. \A i \in Applicable : Served(i) /\ ~Pending(i)
    BY <2>1, <2>2 DEF RunInv, Covered, Started, Accounted, Pending
  <2>4. ASSUME NEW c \in C \cup D PROVE Shown(series, c)
    <3>1. CASE c \in C
      BY <2>3, <3>1 DEF Served, cmds
    <3>2. CASE c \in D
      <4>1. PICK i \in Applicable : /\ cmds[i].next # <<>> /\ On(cmds[i].next[1])
                                    /\ c = cmds[i].next[1]
        BY <3>2 DEF cmds
      <4> QED
        BY <2>3, <4>1 DEF Served, Follows
    <3> QED
      BY <3>1, <3>2
  <2>5. PICK c \in C \cup D : \E k \in GroupsOn(c) : \E m \in c.groups[k].metrics : d = m.name
    BY DEF Declared, GroupsOn
  <2> QED
    BY <2>4, <2>5 DEF Shown
<1> QED
  BY <1>1, RunInit, RunNext, FitInit, FitNext, AppearInit, AppearNext, PTL DEF Spec

----------------------------------------------------------------------------
\* Series.  A series that a command may still send, from any row it may be answered.
RowsOf(d) == {NoRow} \cup UNION {{rows[j] : j \in DOMAIN rows} : rows \in Replies(d)}
SeriesOf(d, k) ==
    UNION {{<<m.name, LabelsOf(d, d.groups[k], row)>> : m \in d.groups[k].metrics} :
               row \in RowsOf(d)}
Possible(d) == IF On(d) THEN UNION {SeriesOf(d, k) : k \in GroupsOn(d)} ELSE {}

\* A command to come tells its rows apart, and so does what follows it.
Told(c) ==
    /\ RowsTold(c)
    /\ c.next # <<>> =>
           /\ RowsTold(c.next[1])
           /\ c.then # "each" \/ c.takes # "rows" \/ Asked(c, "name")

\* It has the keys of the command it was made from, and is on only where that is.
LikeWritten(d) ==
    LET w == Written(collector, d.id, d.follow) IN
    /\ d.follow \in BOOLEAN /\ Exists(collector, d.id, d.follow)
    /\ w.when \subseteq d.when /\ DOMAIN d.groups = DOMAIN w.groups
    /\ \A k \in DOMAIN w.groups :
           /\ d.groups[k].when = w.groups[k].when /\ d.groups[k].metrics = w.groups[k].metrics
           /\ \A m \in w.groups[k].metrics : KeyOf(d, k, m) = KeyOf(w, k, m)

\* A series has the key of a metric of the command i, or of what follows it.
Belongs(s, i, f, k, m) ==
    LET w == Written(collector, i, f) IN
    /\ i \in DOMAIN cmds /\ f \in BOOLEAN /\ Exists(collector, i, f)
    /\ On(w) /\ k \in GroupsOn(w) /\ m \in w.groups[k].metrics
    /\ <<s[1], PatternOf(s[2])>> = KeyOf(w, k, m)
Ancestral(s, i) == \E f \in BOOLEAN : \E k, m : Belongs(s, i, f, k, m)

\* Nothing that was sent can be sent again, and no two commands to come send the same.
DistinctInv ==
    /\ ~twice
    /\ \A s \in series : \E i \in sent : Ancestral(s, i)
    /\ \A k \in DOMAIN todo :
           /\ Told(todo[k]) /\ LikeWritten(todo[k])
           /\ ~todo[k].follow => todo[k].then = cmds[todo[k].id].then
           /\ Possible(todo[k]) \cap series = {}
    /\ \A j, k \in DOMAIN todo : j = k \/ Possible(todo[j]) \cap Possible(todo[k]) = {}

\* What the assumption says of the program at hand.
LEMMA KeysFacts ==
    ASSUME collector \in DOMAIN Program, env \in Envs
    PROVE  KeysDiffer(collector, env) /\ \A i \in DOMAIN cmds : Told(cmds[i])
BY KeysAssumption DEF Told, cmds, program

\* A series has the key of one metric, of one command.
LEMMA KeyTells ==
    ASSUME collector \in DOMAIN Program, env \in Envs,
           NEW s, NEW i, NEW f, NEW k, NEW m, Belongs(s, i, f, k, m),
           NEW j, NEW g, NEW l, NEW n, Belongs(s, j, g, l, n)
    PROVE  i = j /\ f = g /\ k = l /\ m = n
<1> DEFINE c == Written(collector, i, f)
           d == Written(collector, j, g)
<1>1. KeysDiffer(collector, env)
  BY KeysFacts
<1>2. \A x : On(x) <=> OnIn(env, x)
  BY DEF On, OnIn, Active
<1>3. /\ i \in DOMAIN Program[collector].cmds /\ j \in DOMAIN Program[collector].cmds
      /\ f \in BOOLEAN /\ g \in BOOLEAN /\ Exists(collector, i, f) /\ Exists(collector, j, g)
      /\ OnIn(env, c) /\ OnIn(env, d) /\ k \in DOMAIN c.groups /\ l \in DOMAIN d.groups
      /\ OnIn(env, c.groups[k]) /\ OnIn(env, d.groups[l])
      /\ m \in c.groups[k].metrics /\ n \in d.groups[l].metrics
      /\ KeyOf(c, k, m) = KeyOf(d, l, n)
  BY <1>2 DEF Belongs, cmds, program, GroupsOn
<1>4. KeysApart(env, c, d, i = j /\ f = g)
  BY <1>1, <1>3 DEF KeysDiffer
<1> HIDE DEF c, d
<1> QED
  BY <1>3, <1>4 DEF KeysApart

\* A label that no property gives is the same for whatever asks.
LEMMA NoLabel ==
    ASSUME NEW c, NEW p
    PROVE  LabelOf(c, NoRow, p) = ""
BY DEF LabelOf, Value, NoRow

\* The rows of a reply: each is the one it should be, and what does not take rows gets at
\* most one.
LEMMA RowsShape ==
    ASSUME NEW c, IsCommand(c), NEW rows \in Replies(c)
    PROVE  \E n \in Nat :
               /\ DOMAIN rows = 1..n /\ n <= MaxRows /\ (c.takes # "rows" => n <= 1)
               /\ \A j \in 1..n : rows[j].id = Ids[j] /\ (j # 1 => rows[j] = Fine(j))
<1>1. PICK n \in Sizes(c), r \in FirstRows(c) :
          rows = [k \in 1..n |-> IF k = 1 THEN r ELSE Fine(k)]
  BY DEF Replies
<1>2. n \in Nat /\ n <= MaxRows /\ (c.takes # "rows" => n <= 1)
  <2>1. c.takes \in {"rows", "menu", "first", "one", "ret"}
    BY DEF IsCommand
  <2>2. CASE c.takes = "rows"
    BY <1>1, <2>2, MaxRowsAssumption, SMT DEF Sizes
  <2>3. CASE c.takes \in {"menu", "first"}
    BY <1>1, <2>3, MaxRowsAssumption, SMT DEF Sizes
  <2>4. CASE c.takes \in {"one", "ret"}
    BY <1>1, <2>4, MaxRowsAssumption, SMT DEF Sizes
  <2> QED
    BY <2>1, <2>2, <2>3, <2>4
<1>3. r.id = Ids[1]
  <2>1. \/ r \in {Fine(1), [Fine(1) EXCEPT !.how = "void"], [Fine(1) EXCEPT !.how = "skip"]}
        \/ r \in [id : {Ids[1]}, at : Read(c), how : {"missing", "empty", "bad"}]
    BY <1>1, Zenon DEF FirstRows
  <2>2. CASE r \in {Fine(1), [Fine(1) EXCEPT !.how = "void"], [Fine(1) EXCEPT !.how = "skip"]}
    <3>1. \A h : [Fine(1) EXCEPT !.how = h].id = Ids[1]
      BY DEF Fine
    <3>2. Fine(1).id = Ids[1]
      BY DEF Fine
    <3> QED
      BY <2>2, <3>1, <3>2
  <2>3. CASE r \in [id : {Ids[1]}, at : Read(c), how : {"missing", "empty", "bad"}]
    <3>1. r.id \in {Ids[1]}
      BY <2>3, Zenon
    <3> QED
      BY <3>1
  <2> QED
    BY <2>1, <2>2, <2>3
<1>4. \A j : Fine(j).id = Ids[j]
  BY DEF Fine
<1>5. DOMAIN rows = 1..n /\ \A j \in 1..n : rows[j] = IF j = 1 THEN r ELSE Fine(j)
  BY <1>1
<1>6. \A j \in 1..n : rows[j].id = Ids[j] /\ (j # 1 => rows[j] = Fine(j))
  BY <1>3, <1>4, <1>5
<1> QED
  BY <1>2, <1>5, <1>6

\* The places of rows are places of Ids.
LEMMA PlacesOfIds ==
    ASSUME NEW n \in Nat, n <= MaxRows, NEW j \in 1..n
    PROVE  j \in DOMAIN Ids
<1>1. Len(Ids) \in Nat /\ DOMAIN Ids = 1..Len(Ids) /\ MaxRows <= Len(Ids)
  BY IdsAssumption, LenProperties DEF IsSequence
<1> QED
  BY <1>1, MaxRowsAssumption, SMT

\* A label is what some row is, or "".
LEMMA RowLabel ==
    ASSUME NEW c, IsCommand(c), NEW row \in RowsOf(c), NEW d, NEW p
    PROVE  LabelOf(d, row, p) \in RowValues
<1>1. row.id \in RowValues
  <2>1. CASE row = NoRow
    BY <2>1 DEF NoRow, RowValues
  <2>2. CASE row # NoRow
    <3>1. PICK rows \in Replies(c) : \E j \in DOMAIN rows : row = rows[j]
      BY <2>2 DEF RowsOf
    <3>2. PICK j \in DOMAIN rows : row = rows[j]
      BY <3>1
    <3>3. PICK n \in Nat : /\ DOMAIN rows = 1..n /\ n <= MaxRows
                           /\ \A x \in 1..n : rows[x].id = Ids[x]
      BY RowsShape
    <3>4. j \in DOMAIN Ids /\ row.id = Ids[j]
      BY <3>2, <3>3, PlacesOfIds
    <3> QED
      BY <3>4 DEF RowValues
  <2> QED
    BY <2>1, <2>2
<1> QED
  BY <1>1 DEF LabelOf, RowValues

\* Rows differ in each property that is asked for.
LEMMA RowsDiffer ==
    ASSUME NEW c, IsCommand(c), NEW rows \in Replies(c), NEW p, Asked(c, p),
           NEW i \in DOMAIN rows, NEW j \in DOMAIN rows, i # j
    PROVE  LabelOf(c, rows[i], p) # LabelOf(c, rows[j], p)
<1>1. PICK n \in Nat :
          /\ DOMAIN rows = 1..n /\ n <= MaxRows
          /\ \A x \in 1..n : rows[x].id = Ids[x] /\ (x # 1 => rows[x] = Fine(x))
  BY RowsShape
<1>2. ASSUME NEW x \in DOMAIN rows, x # 1
      PROVE  LabelOf(c, rows[x], p) = Ids[x] /\ x \in DOMAIN Ids
  <2>1. rows[x].id = Ids[x] /\ rows[x].how = "fine"
    <3>1. rows[x].id = Ids[x] /\ rows[x] = Fine(x)
      BY <1>1, <1>2
    <3>2. Fine(x).how = "fine"
      BY DEF Fine
    <3> QED
      BY <3>1, <3>2
  <2>2. Value(c, rows[x], p) = "fine"
    BY <2>1 DEF Value
  <2>3. LabelOf(c, rows[x], p) = Ids[x]
    BY <2>1, <2>2 DEF LabelOf
  <2> QED
    BY <1>1, <2>3, PlacesOfIds
<1>3. ASSUME NEW x \in DOMAIN rows
      PROVE  LabelOf(c, rows[x], p) \in {Ids[x], ""} /\ x \in DOMAIN Ids
  <2>1. rows[x].id = Ids[x] /\ x \in DOMAIN Ids
    BY <1>1, PlacesOfIds
  <2> QED
    BY <2>1 DEF LabelOf
<1>4. \A x, y \in DOMAIN Ids : Ids[x] # "" /\ (Ids[x] = Ids[y] => x = y)
  BY IdsAssumption
<1>5. CASE i # 1
  BY <1>2, <1>3, <1>4, <1>5
<1>6. CASE j # 1
  BY <1>2, <1>3, <1>4, <1>6
<1> QED
  BY <1>5, <1>6

\* The labels of a group: first its tag, then one for each property.
Shaped(l, c, g, row) ==
    \E a, b \in Nat :
        /\ DOMAIN g.tag = 1..a /\ DOMAIN g.labels = 1..b /\ DOMAIN l = 1..(a + b)
        /\ a = Len(g.tag) /\ b = Len(g.labels)
        /\ \A p \in 1..(a + b) : l[p] = IF p <= a THEN g.tag[p]
                                      ELSE LabelOf(c, row, g.labels[p - a])

\* LabelsOf puts the tag in front of what the row has for each label.
LEMMA LabelsShape ==
    ASSUME NEW c, NEW g, IsGroup(g), NEW row
    PROVE  Shaped(LabelsOf(c, g, row), c, g, row)
<1>0. PICK a, b, l : a = Len(g.tag) /\ b = Len(g.labels) /\ l = LabelsOf(c, g, row)
  OBVIOUS
<1> DEFINE t == [i \in DOMAIN g.labels |-> LabelOf(c, row, g.labels[i])]
           T == {g.tag[i] : i \in DOMAIN g.tag}
           Z == {LabelOf(c, row, g.labels[i]) : i \in DOMAIN g.labels}
           B == T \cup Z
<1>1. g.tag \in Seq(T) /\ a \in Nat /\ b \in Nat /\ DOMAIN g.tag = 1..a /\ DOMAIN g.labels = 1..b
  BY <1>0, LenProperties DEF IsGroup, IsSequence
<1>2. t = [i \in 1..b |-> t[i]] /\ \A i \in 1..b : t[i] \in Z
  BY <1>1
<1>3. l = g.tag \o t /\ DOMAIN t = 1..b
  BY <1>0, <1>1 DEF LabelsOf
<1>4. \A i \in 1..b : t[i] = LabelOf(c, row, g.labels[i])
  BY <1>1
<1> HIDE DEF t, Z, T
<1>5. t \in Seq(Z)
  BY <1>1, <1>2, IsASeq
<1>6. g.tag \in Seq(B) /\ t \in Seq(B)
  <2>1. T \subseteq B /\ Z \subseteq B
    OBVIOUS
  <2> HIDE DEF B
  <2> QED
    BY <1>1, <1>5, <2>1, SeqMonotone
<1>7. Len(t) = b
  BY <1>1, <1>3, <1>5, LenProperties, SMT
<1> HIDE DEF B
<1>8. /\ l \in Seq(B) /\ Len(l) = a + b
      /\ \A p \in 1..(a + b) : l[p] = IF p <= a THEN g.tag[p] ELSE t[p - a]
  <2>1. /\ g.tag \o t \in Seq(B) /\ Len(g.tag \o t) = Len(g.tag) + Len(t)
        /\ \A i \in 1 .. Len(g.tag) + Len(t) :
               (g.tag \o t)[i] = IF i <= Len(g.tag) THEN g.tag[i] ELSE t[i - Len(g.tag)]
    BY <1>6, ConcatProperties, Zenon
  <2> QED
    BY <1>0, <1>3, <1>7, <2>1, Zenon
<1>9. \A p \in 1..(a + b) : p <= a \/ p - a \in 1..b
  <2>1. \A x, y \in Nat : \A p \in 1..(x + y) : p <= x \/ p - x \in 1..y
    BY SMT
  <2> QED
    BY <1>1, <2>1
<1>10. DOMAIN l = 1..(a + b)
  BY <1>8, LenProperties
<1>11. ASSUME NEW p \in 1..(a + b)
       PROVE  l[p] = IF p <= a THEN g.tag[p] ELSE LabelOf(c, row, g.labels[p - a])
  BY <1>4, <1>8, <1>9
<1>12. Shaped(l, c, g, row)
  BY <1>0, <1>1, <1>10, <1>11 DEF Shaped
<1> QED
  BY <1>0, <1>12

\* Labels that differ only in what rows give have the same pattern.
LEMMA SamePattern ==
    ASSUME NEW l, NEW t, DOMAIN l = DOMAIN t,
           \A p \in DOMAIN l : l[p] = t[p] \/ (l[p] \in RowValues /\ t[p] \in RowValues)
    PROVE  PatternOf(l) = PatternOf(t)
<1> DEFINE blank(v) == IF v \in RowValues THEN "" ELSE v
<1>1. \A p \in DOMAIN l : blank(l[p]) = blank(t[p])
  OBVIOUS
<1>2. PatternOf(l) = [p \in DOMAIN l |-> blank(l[p])]
  BY DEF PatternOf
<1>3. PatternOf(t) = [p \in DOMAIN t |-> blank(t[p])]
  BY DEF PatternOf
<1> HIDE DEF blank
<1> QED
  BY <1>1, <1>2, <1>3

\* The labels of a row have the pattern of the metric.
LEMMA RowPattern ==
    ASSUME NEW c, IsCommand(c), NEW g, IsGroup(g), NEW row \in RowsOf(c)
    PROVE  PatternOf(LabelsOf(c, g, row)) = PatternOf(LabelsOf(c, g, NoRow))
<1> DEFINE l == LabelsOf(c, g, row)
           t == LabelsOf(c, g, NoRow)
<1>1. NoRow \in RowsOf(c)
  BY DEF RowsOf
<1>2. Shaped(l, c, g, row) /\ Shaped(t, c, g, NoRow)
  BY LabelsShape
<1> HIDE DEF l, t
<1>3. PICK a, b \in Nat :
          /\ DOMAIN l = 1..(a + b) /\ a = Len(g.tag) /\ b = Len(g.labels)
          /\ \A p \in 1..(a + b) : l[p] = IF p <= a THEN g.tag[p]
                                        ELSE LabelOf(c, row, g.labels[p - a])
  BY <1>2 DEF Shaped
<1>4. /\ DOMAIN t = 1..(a + b)
      /\ \A p \in 1..(a + b) : t[p] = IF p <= a THEN g.tag[p]
                                    ELSE LabelOf(c, NoRow, g.labels[p - a])
  BY <1>2, <1>3 DEF Shaped
<1>5. \A q : LabelOf(c, row, q) \in RowValues /\ LabelOf(c, NoRow, q) \in RowValues
  BY <1>1, RowLabel
<1>6. \A p \in DOMAIN l : l[p] = t[p] \/ (l[p] \in RowValues /\ t[p] \in RowValues)
  BY <1>3, <1>5, <1>4
<1>7. PatternOf(l) = PatternOf(t)
  BY <1>3, <1>4, <1>6, SamePattern
<1> QED
  BY <1>7 DEF l, t

\* What a group emits: for a reply, or for a row that has it.
EmissionOf(c, g, rows, e, j, m, row) ==
    /\ m \in g.metrics /\ e = <<<<j, m>>, <<m.name, LabelsOf(c, g, row)>>>>
    /\ \/ g.per = "reply" /\ j = 0 /\ row = NoRow
       \/ g.per # "reply" /\ j \in DOMAIN rows /\ row = rows[j] /\ m \in Emits(c, g, row)

\* All that Emissions has is of one of these two kinds.
LEMMA EmissionMade ==
    ASSUME NEW c, NEW g, NEW rows, NEW e \in Emissions(c, g, rows)
    PROVE  \E j, m, row : EmissionOf(c, g, rows, e, j, m, row)
<1>1. CASE g.per = "reply"
  <2>1. PICK m \in g.metrics : e = <<<<0, m>>, <<m.name, LabelsOf(c, g, NoRow)>>>>
    BY <1>1, Zenon DEF Emissions
  <2>2. EmissionOf(c, g, rows, e, 0, m, NoRow)
    BY <1>1, <2>1, Zenon DEF EmissionOf
  <2> QED
    BY <2>2
<1>2. CASE g.per # "reply"
  <2>1. PICK j \in Looked(c, g, rows) :
            e \in {<<<<j, m>>, <<m.name, LabelsOf(c, g, rows[j])>>>> : m \in Emits(c, g, rows[j])}
    BY <1>2, Zenon DEF Emissions
  <2>2. PICK row : row = rows[j]
    OBVIOUS
  <2>3. PICK m \in Emits(c, g, row) : e = <<<<j, m>>, <<m.name, LabelsOf(c, g, row)>>>>
    BY <2>1, <2>2, Zenon
  <2>4. m \in g.metrics /\ j \in DOMAIN rows
    BY <2>1, <2>3, Zenon DEF Emits, Looked
  <2>5. EmissionOf(c, g, rows, e, j, m, row)
    BY <1>2, <2>2, <2>3, <2>4, Zenon DEF EmissionOf
  <2> QED
    BY <2>5
<1> QED
  BY <1>1, <1>2

\* What a command may send has the key of the metric.
LEMMA SeriesBelongs ==
    ASSUME NEW c, IsCommand(c), LikeWritten(c), c.id \in DOMAIN cmds, On(c),
           NEW k \in GroupsOn(c), NEW g, g = c.groups[k], NEW m \in g.metrics,
           NEW row \in RowsOf(c), NEW s, s = <<m.name, LabelsOf(c, g, row)>>
    PROVE  Belongs(s, c.id, c.follow, k, m)
<1> DEFINE w == Written(collector, c.id, c.follow)
<1>1. k \in DOMAIN c.groups /\ IsGroup(g) /\ On(g)
  BY DEF GroupsOn, IsCommand
<1>2. /\ c.follow \in BOOLEAN /\ Exists(collector, c.id, c.follow)
      /\ w.when \subseteq c.when /\ DOMAIN c.groups = DOMAIN w.groups
      /\ g.when = w.groups[k].when /\ g.metrics = w.groups[k].metrics
      /\ \A x \in w.groups[k].metrics : KeyOf(c, k, x) = KeyOf(w, k, x)
  BY <1>1, Zenon DEF LikeWritten
<1>3. <<s[1], PatternOf(s[2])>> = KeyOf(c, k, m)
  <2>1. PatternOf(LabelsOf(c, g, row)) = PatternOf(LabelsOf(c, g, NoRow))
    BY <1>1, RowPattern
  <2>2. KeyOf(c, k, m) = <<m.name, PatternOf(LabelsOf(c, g, NoRow))>>
    BY Zenon DEF KeyOf
  <2>3. s[1] = m.name /\ s[2] = LabelsOf(c, g, row)
    OBVIOUS
  <2> QED
    BY <2>1, <2>2, <2>3
<1> HIDE DEF w
<1>4. On(w) /\ k \in GroupsOn(w) /\ m \in w.groups[k].metrics
  BY <1>1, <1>2 DEF On, GroupsOn
<1>5. <<s[1], PatternOf(s[2])>> = KeyOf(w, k, m)
  BY <1>2, <1>3, <1>4
<1> QED
  BY <1>2, <1>4, <1>5, Zenon DEF Belongs, w

\* What a group emits is possible, and so has the key of the metric.
LEMMA EmissionPossible ==
    ASSUME NEW c, IsCommand(c), LikeWritten(c), c.id \in DOMAIN cmds, On(c),
           NEW rows \in Replies(c), NEW k \in GroupsOn(c), NEW g, g = c.groups[k],
           NEW e, NEW j, NEW m, NEW row, EmissionOf(c, g, rows, e, j, m, row)
    PROVE  /\ e[1] = <<j, m>> /\ e[2] \in Possible(c)
           /\ Belongs(e[2], c.id, c.follow, k, m)
<1>1. PICK s : s = <<m.name, LabelsOf(c, g, row)>>
  OBVIOUS
<1>2. e[1] = <<j, m>> /\ e[2] = s /\ m \in g.metrics
  BY <1>1 DEF EmissionOf
<1>3. row \in RowsOf(c)
  <2>1. CASE row = NoRow
    BY <2>1 DEF RowsOf
  <2>2. CASE row # NoRow
    BY <2>2 DEF RowsOf, EmissionOf
  <2> QED
    BY <2>1, <2>2
<1>4. s \in SeriesOf(c, k)
  <2>1. s \in {<<n.name, LabelsOf(c, c.groups[k], row)>> : n \in c.groups[k].metrics}
    BY <1>1, <1>2, Zenon
  <2> QED
    BY <1>3, <2>1, Zenon DEF SeriesOf
<1>5. s \in Possible(c)
  BY <1>4, Zenon DEF Possible
<1>6. Belongs(s, c.id, c.follow, k, m)
  BY <1>1, <1>2, <1>3, SeriesBelongs
<1> QED
  BY <1>2, <1>5, <1>6

\* What a command may send: a metric of one of its groups, with the labels of some row.
LEMMA PossibleMade ==
    ASSUME NEW c, NEW s \in Possible(c)
    PROVE  On(c) /\ \E k \in GroupsOn(c) : \E m \in c.groups[k].metrics :
               \E row \in RowsOf(c) : s = <<m.name, LabelsOf(c, c.groups[k], row)>>
<1>1. On(c)
  BY DEF Possible
<1>2. PICK k \in GroupsOn(c) : s \in SeriesOf(c, k)
  BY <1>1 DEF Possible
<1>3. PICK row \in RowsOf(c) :
          s \in {<<m.name, LabelsOf(c, c.groups[k], row)>> : m \in c.groups[k].metrics}
  BY <1>2 DEF SeriesOf
<1> QED
  BY <1>1, <1>3

\* So it belongs to the command.
LEMMA PossibleBelongs ==
    ASSUME NEW c, IsCommand(c), LikeWritten(c), c.id \in DOMAIN cmds, NEW s \in Possible(c)
    PROVE  \E k, m : Belongs(s, c.id, c.follow, k, m)
<1>1. On(c)
  BY PossibleMade
<1>2. PICK k \in GroupsOn(c) : \E m \in c.groups[k].metrics :
          \E row \in RowsOf(c) : s = <<m.name, LabelsOf(c, c.groups[k], row)>>
  BY PossibleMade
<1>3. PICK m \in c.groups[k].metrics :
          \E row \in RowsOf(c) : s = <<m.name, LabelsOf(c, c.groups[k], row)>>
  BY <1>2
<1>4. Belongs(s, c.id, c.follow, k, m)
  BY <1>1, <1>3, SeriesBelongs
<1> QED
  BY <1>4

\* A place in the second of two parts.
LEMMA PlaceAfter ==
    ASSUME NEW a \in Nat, NEW b \in Nat, NEW q \in 1..b
    PROVE  a + q \in 1..(a + b) /\ ~(a + q <= a) /\ (a + q) - a = q
OBVIOUS

\* A group emits a series for one row only.
LEMMA RowsApart ==
    ASSUME NEW c, IsCommand(c), RowsTold(c), NEW rows \in Replies(c),
           NEW k \in DOMAIN c.groups, NEW g, g = c.groups[k], NEW m,
           NEW d, NEW i, NEW x, EmissionOf(c, g, rows, d, i, m, x),
           NEW e, NEW j, NEW y, EmissionOf(c, g, rows, e, j, m, y), d[2] = e[2]
    PROVE  d = e
<1>1. /\ d = <<<<i, m>>, <<m.name, LabelsOf(c, g, x)>>>>
      /\ e = <<<<j, m>>, <<m.name, LabelsOf(c, g, y)>>>>
  BY DEF EmissionOf
<1>2. LabelsOf(c, g, x) = LabelsOf(c, g, y)
  BY <1>1
<1>3. CASE g.per = "reply"
  BY <1>1, <1>3 DEF EmissionOf
<1>4. CASE g.per # "reply"
  <2>1. /\ i \in DOMAIN rows /\ x = rows[i] /\ m \in Emits(c, g, x) /\ m \in g.metrics
        /\ j \in DOMAIN rows /\ y = rows[j]
    BY <1>4 DEF EmissionOf
  <2>2. i = j
    <3>1. SUFFICES ASSUME i # j PROVE FALSE
      OBVIOUS
    <3>2. c.takes = "rows"
      <4>1. PICK n \in Nat : DOMAIN rows = 1..n /\ (c.takes # "rows" => n <= 1)
        BY RowsShape
      <4>2. \A p, q \in 1..n : n <= 1 => p = q
        BY SMT
      <4> QED
        BY <2>1, <3>1, <4>1, <4>2
    <3>3. ~Mute(c, g)
      <4>1. SUFFICES ASSUME Mute(c, g) PROVE FALSE
        OBVIOUS
      <4>2. ~Asked(c, m.prop) /\ Emitted[m.conv] \cap {"missing", "void"} = {}
        BY <2>1, <4>1 DEF Mute
      <4>3. Value(c, x, m.prop) \in {"missing", "void"}
        <5>1. CASE x.how = "void"
          BY <5>1 DEF Value
        <5>2. CASE x.how # "void"
          BY <4>2, <5>2 DEF Value
        <5> QED
          BY <5>1, <5>2
      <4> QED
        BY <2>1, <4>2, <4>3 DEF Emits
    <3>4. PICK q \in DOMAIN g.labels : Asked(c, g.labels[q])
      BY <1>4, <3>2, <3>3 DEF RowsTold
    <3>5. LabelOf(c, x, g.labels[q]) # LabelOf(c, y, g.labels[q])
      BY <2>1, <3>1, <3>4, RowsDiffer
    <3>6. IsGroup(g)
      BY DEF IsCommand
    <3>7. PICK l : l = LabelsOf(c, g, x) /\ Shaped(l, c, g, x) /\ Shaped(l, c, g, y)
      BY <1>2, <3>6, LabelsShape
    <3>8. PICK a, b \in Nat :
              /\ DOMAIN g.labels = 1..b /\ a = Len(g.tag) /\ b = Len(g.labels)
              /\ \A p \in 1..(a + b) : l[p] = IF p <= a THEN g.tag[p]
                                            ELSE LabelOf(c, x, g.labels[p - a])
      BY <3>7 DEF Shaped
    <3>9. \A p \in 1..(a + b) : l[p] = IF p <= a THEN g.tag[p]
                                     ELSE LabelOf(c, y, g.labels[p - a])
      BY <3>7, <3>8 DEF Shaped
    <3>10. PICK p \in 1..(a + b) : ~(p <= a) /\ p - a = q
      <4>1. a \in Nat /\ b \in Nat /\ q \in 1..b
        BY <3>4, <3>8
      <4>2. a + q \in 1..(a + b) /\ ~(a + q <= a) /\ (a + q) - a = q
        BY <4>1, PlaceAfter
      <4> QED
        BY <4>2
    <3>11. l[p] = LabelOf(c, x, g.labels[q]) /\ l[p] = LabelOf(c, y, g.labels[q])
      BY <3>8, <3>9, <3>10
    <3> QED
      BY <3>5, <3>11
  <2> QED
    BY <1>1, <2>1, <2>2
<1> QED
  BY <1>3, <1>4

\* The image of a finite set has as many elements if no two of its elements have the same.
LEMMA ImageSize ==
    ASSUME NEW S, IsFiniteSet(S), NEW f, DOMAIN f = S, f = [x \in S |-> f[x]],
           \A x, y \in S : f[x] = f[y] => x = y, NEW T, T = {f[x] : x \in S}
    PROVE  Cardinality(T) = Cardinality(S)
<1>1. f \in Surjection(S, T)
  BY DEF Surjection
<1>2. f \in Injection(S, T)
  BY <1>1 DEF Surjection, Injection, IsInjective
<1> QED
  BY <1>1, <1>2, FS_Surjection

\* The metrics of a command are finite in number, and so are the rows they are emitted for.
LEMMA FiniteParts ==
    ASSUME NEW c, IsCommand(c), NEW rows \in Replies(c), NEW G, G = c.groups
    PROVE  /\ IsFiniteSet(DOMAIN G) /\ IsFiniteSet(UNION {G[k].metrics : k \in DOMAIN G})
           /\ IsFiniteSet(DOMAIN rows \cup {0})
<1>1. IsFiniteSet(DOMAIN G) /\ \A k \in DOMAIN G : IsFiniteSet(G[k].metrics)
  BY DEF IsCommand, IsGroup
<1>2. IsFiniteSet(DOMAIN rows \cup {0})
  <2>1. PICK n \in Nat : DOMAIN rows = 1..n
    BY RowsProper
  <2>2. IsFiniteSet(1..n)
    BY FS_Interval
  <2> QED
    BY <2>1, <2>2, FS_AddElement
<1>3. IsFiniteSet(UNION {G[k].metrics : k \in DOMAIN G})
  <2> DEFINE f == [k \in DOMAIN G |-> G[k].metrics]
             T == {G[k].metrics : k \in DOMAIN G}
  <2>1. f \in Surjection(DOMAIN G, T)
    BY DEF Surjection
  <2>2. IsFiniteSet(T)
    <3> HIDE DEF f, T
    <3> QED
      BY <1>1, <2>1, FS_Surjection
  <2>3. \A M \in T : IsFiniteSet(M)
    BY <1>1
  <2> HIDE DEF T
  <2>4. IsFiniteSet(UNION T)
    BY <2>2, <2>3, FS_UNION
  <2> QED
    BY <2>4 DEF T
<1> QED
  BY <1>1, <1>2, <1>3

\* All that the answer to a command makes its groups emit.
OutOf(c, rows) ==
    UNION {{<<k, e>> : e \in Emissions(c, c.groups[k], rows)} : k \in Reached(c, rows)}

\* Each of it is what a group that is on emits.
LEMMA OutMade ==
    ASSUME NEW c, NEW rows, NEW o \in OutOf(c, rows)
    PROVE  \E k \in GroupsOn(c) : \E e, j, m, row :
               o = <<k, e>> /\ EmissionOf(c, c.groups[k], rows, e, j, m, row)
<1>1. PICK k \in Reached(c, rows) : o \in {<<k, e>> : e \in Emissions(c, c.groups[k], rows)}
  BY DEF OutOf
<1>2. PICK e \in Emissions(c, c.groups[k], rows) : o = <<k, e>>
  BY <1>1
<1>3. k \in GroupsOn(c)
  BY DEF Reached
<1>4. PICK j, m, row : EmissionOf(c, c.groups[k], rows, e, j, m, row)
  BY EmissionMade
<1> QED
  BY <1>2, <1>3, <1>4

\* It is finite: a group emits a metric once for a row.
LEMMA OutFinite ==
    ASSUME NEW c, IsCommand(c), NEW rows \in Replies(c)
    PROVE  IsFiniteSet(OutOf(c, rows))
<1> DEFINE G == c.groups
           K == DOMAIN G
           J == DOMAIN rows \cup {0}
           M == UNION {G[k].metrics : k \in DOMAIN G}
           O == OutOf(c, rows)
           f == [o \in O |-> <<o[1], o[2][1]>>]
<1>1. IsFiniteSet(K) /\ IsFiniteSet(J) /\ IsFiniteSet(M)
  BY FiniteParts
<1>2. IsFiniteSet(K \X (J \X M))
  <2> HIDE DEF K, J, M
  <2>1. IsFiniteSet(J \X M)
    BY <1>1, FS_Product
  <2> QED
    BY <1>1, <2>1, FS_Product
<1>3. ASSUME NEW o \in O
      PROVE  \E k \in K : \E e, j, m, row :
                 /\ o = <<k, e>> /\ o[1] = k /\ o[2] = e /\ e[1] = <<j, m>>
                 /\ k \in GroupsOn(c) /\ j \in J /\ m \in M
                 /\ EmissionOf(c, G[k], rows, e, j, m, row)
  <2>1. PICK k \in GroupsOn(c) : \E e, j, m, row :
            o = <<k, e>> /\ EmissionOf(c, c.groups[k], rows, e, j, m, row)
    BY OutMade
  <2>2. PICK e, j, m, row : o = <<k, e>> /\ EmissionOf(c, c.groups[k], rows, e, j, m, row)
    BY <2>1
  <2>3. k \in K
    BY DEF GroupsOn
  <2>4. j \in J /\ m \in M /\ e[1] = <<j, m>>
    BY <2>2, <2>3 DEF EmissionOf
  <2> QED
    BY <2>2, <2>3, <2>4
<1>4. f \in [O -> K \X (J \X M)]
  <2>1. ASSUME NEW o \in O PROVE <<o[1], o[2][1]>> \in K \X (J \X M)
    BY <1>3
  <2> QED
    BY <2>1
<1>5. ASSUME NEW o \in O, NEW p \in O, f[o] = f[p] PROVE o = p
  <2>1. o[1] = p[1] /\ o[2][1] = p[2][1]
    BY <1>5
  <2>2. PICK k \in K : \E e, j, m, row :
            o = <<k, e>> /\ o[1] = k /\ o[2] = e /\ e[1] = <<j, m>>
            /\ EmissionOf(c, G[k], rows, e, j, m, row)
    BY <1>3
  <2>3. PICK e, j, m, row :
            o = <<k, e>> /\ o[1] = k /\ o[2] = e /\ e[1] = <<j, m>>
            /\ EmissionOf(c, G[k], rows, e, j, m, row)
    BY <2>2
  <2>4. PICK l \in K : \E d, i, n, y :
            p = <<l, d>> /\ p[1] = l /\ p[2] = d /\ d[1] = <<i, n>>
            /\ EmissionOf(c, G[l], rows, d, i, n, y)
    BY <1>3
  <2>5. PICK d, i, n, y :
            p = <<l, d>> /\ p[1] = l /\ p[2] = d /\ d[1] = <<i, n>>
            /\ EmissionOf(c, G[l], rows, d, i, n, y)
    BY <2>4
  <2>6. k = l /\ <<j, m>> = <<i, n>>
    BY <2>1, <2>3, <2>5
  <2>7. j = i /\ m = n
    BY <2>6
  <2>8. row = y
    BY <2>3, <2>5, <2>6, <2>7 DEF EmissionOf
  <2>9. e = d
    BY <2>3, <2>5, <2>6, <2>7, <2>8 DEF EmissionOf
  <2> QED
    BY <2>3, <2>5, <2>6, <2>9
<1>6. f \in Injection(O, K \X (J \X M))
  BY <1>4, <1>5 DEF Injection, IsInjective
<1> HIDE DEF f, K, J, M
<1> QED
  BY <1>2, <1>6, FS_Injection DEF O

\* No two of it are the same series.
LEMMA OutDistinct ==
    ASSUME collector \in DOMAIN Program, env \in Envs,
           NEW c, IsCommand(c), RowsTold(c), LikeWritten(c), c.id \in DOMAIN cmds, On(c),
           NEW rows \in Replies(c),
           NEW o \in OutOf(c, rows), NEW p \in OutOf(c, rows), o[2][2] = p[2][2]
    PROVE  o = p
<1>1. PICK k \in GroupsOn(c) : \E e, j, m, row :
          o = <<k, e>> /\ EmissionOf(c, c.groups[k], rows, e, j, m, row)
  BY OutMade
<1>2. PICK e, j, m, row : o = <<k, e>> /\ EmissionOf(c, c.groups[k], rows, e, j, m, row)
  BY <1>1
<1>3. PICK l \in GroupsOn(c) : \E d, i, n, y :
          p = <<l, d>> /\ EmissionOf(c, c.groups[l], rows, d, i, n, y)
  BY OutMade
<1>4. PICK d, i, n, y : p = <<l, d>> /\ EmissionOf(c, c.groups[l], rows, d, i, n, y)
  BY <1>3
<1>5. Belongs(e[2], c.id, c.follow, k, m)
  BY <1>2, EmissionPossible
<1>6. Belongs(d[2], c.id, c.follow, l, n)
  BY <1>4, EmissionPossible
<1>7. d[2] = e[2]
  BY <1>2, <1>4
<1>8. k = l /\ m = n
  BY <1>5, <1>6, <1>7, KeyTells
<1>9. k \in DOMAIN c.groups
  BY DEF GroupsOn
<1>10. PICK g : g = c.groups[k]
  OBVIOUS
<1>11. EmissionOf(c, g, rows, e, j, m, row) /\ EmissionOf(c, g, rows, d, i, m, y)
  BY <1>2, <1>4, <1>8, <1>10
<1>12. d = e
  BY <1>7, <1>9, <1>10, <1>11, RowsApart
<1> QED
  BY <1>2, <1>4, <1>8, <1>12

\* What the answer to the first command adds to the series.
LEMMA AnswerDistinct ==
    ASSUME RunInv, DistinctInv, todo # <<>>, NEW c, c = Head(todo), On(c),
           NEW rows \in Replies(c), Answered(c, rows)
    PROVE  \E new :
               /\ new \subseteq Possible(c) /\ series' = series \cup new /\ ~twice'
               /\ \A s \in new : Ancestral(s, c.id) /\ (~c.follow =>
                      \E k, m : Belongs(s, c.id, FALSE, k, m))
<1> DEFINE out == OutOf(c, rows)
           new == {o[2][2] : o \in out}
           f == [o \in out |-> o[2][2]]
<1>1. /\ series' = series \cup new
      /\ twice' = (twice \/ new \cap series # {} \/ Cardinality(new) # Cardinality(out))
  BY Zenon DEF Answered, OutOf
<1>2. /\ collector \in DOMAIN Program /\ env \in Envs
      /\ 1 \in DOMAIN todo /\ c = todo[1] /\ Valid(cmds, sent, c)
  BY HeadFacts DEF RunInv, Shape
<1>3. /\ IsCommand(c) /\ c.id \in DOMAIN cmds /\ RowsTold(c) /\ LikeWritten(c)
      /\ Possible(c) \cap series = {} /\ ~twice /\ c.follow \in BOOLEAN
  BY <1>2 DEF DistinctInv, Valid, Told
<1>4. ASSUME NEW o \in out
      PROVE  /\ o[2][2] \in Possible(c)
             /\ \E k, m : Belongs(o[2][2], c.id, c.follow, k, m)
  <2>1. PICK k \in GroupsOn(c) : \E e, j, m, row :
            o = <<k, e>> /\ EmissionOf(c, c.groups[k], rows, e, j, m, row)
    BY OutMade
  <2>2. PICK e, j, m, row : o = <<k, e>> /\ EmissionOf(c, c.groups[k], rows, e, j, m, row)
    BY <2>1
  <2>3. e[2] \in Possible(c) /\ Belongs(e[2], c.id, c.follow, k, m)
    BY <1>3, <2>2, EmissionPossible
  <2> QED
    BY <2>2, <2>3
<1>5. Cardinality(new) = Cardinality(out)
  <2>1. IsFiniteSet(out)
    BY <1>3, OutFinite
  <2>2. \A o, p \in out : o[2][2] = p[2][2] => o = p
    BY <1>2, <1>3, OutDistinct
  <2> HIDE DEF out
  <2>3. DOMAIN f = out /\ f = [o \in out |-> f[o]] /\ \A o \in out : f[o] = o[2][2]
    OBVIOUS
  <2>4. new = {f[o] : o \in out}
    BY <2>3
  <2> HIDE DEF f, new
  <2> QED
    BY <2>1, <2>2, <2>3, <2>4, ImageSize
<1> HIDE DEF out, f
<1>6. new \subseteq Possible(c)
  BY <1>4
<1>7. ~twice'
  BY <1>1, <1>3, <1>5, <1>6
<1>8. ASSUME NEW s \in new
      PROVE  Ancestral(s, c.id) /\ (~c.follow => \E k, m : Belongs(s, c.id, FALSE, k, m))
  <2>1. PICK k, m : Belongs(s, c.id, c.follow, k, m)
    BY <1>4, <1>8
  <2>2. Ancestral(s, c.id)
    BY <1>3, <2>1 DEF Ancestral
  <2>3. ASSUME ~c.follow PROVE Belongs(s, c.id, FALSE, k, m)
    <3>1. c.follow = FALSE
      BY <1>3, <2>3
    <3> QED
      BY <2>1, <3>1
  <2> QED
    BY <2>2, <2>3
<1> QED
  BY <1>1, <1>6, <1>7, <1>8

----------------------------------------------------------------------------
\* A command has its labels where none are given from the groups alone.
LEMMA KeySame ==
    ASSUME NEW c, NEW d, NEW k, d.groups[k] = c.groups[k], NEW m
    PROVE  KeyOf(d, k, m) = KeyOf(c, k, m)
<1> DEFINE g == c.groups[k]
<1>1. [i \in DOMAIN g.labels |-> LabelOf(c, NoRow, g.labels[i])]
          = [i \in DOMAIN g.labels |-> LabelOf(d, NoRow, g.labels[i])]
  BY NoLabel
<1>2. LabelsOf(c, g, NoRow) = LabelsOf(d, g, NoRow)
  BY <1>1 DEF LabelsOf
<1> QED
  BY <1>2 DEF KeyOf

\* One that has the keys of what it is written as, and is on nowhere else, is like it.
LEMMA LikeIs ==
    ASSUME NEW d, NEW i, NEW f \in BOOLEAN, d.id = i, d.follow = f, Exists(collector, i, f),
           NEW w, w = Written(collector, i, f),
           w.when \subseteq d.when, DOMAIN d.groups = DOMAIN w.groups,
           \A k \in DOMAIN w.groups : /\ d.groups[k].when = w.groups[k].when
                                      /\ d.groups[k].metrics = w.groups[k].metrics
                                      /\ \A m : KeyOf(d, k, m) = KeyOf(w, k, m)
    PROVE  LikeWritten(d)
BY DEF LikeWritten

\* So is one with the same groups.
LEMMA LikeSame ==
    ASSUME NEW d, NEW i, NEW f \in BOOLEAN, d.id = i, d.follow = f, Exists(collector, i, f),
           NEW w, w = Written(collector, i, f), d.groups = w.groups, w.when \subseteq d.when
    PROVE  LikeWritten(d)
<1>1. \A k \in DOMAIN w.groups : \A m : KeyOf(d, k, m) = KeyOf(w, k, m)
  BY KeySame
<1> QED
  BY <1>1, LikeIs

\* Groups that are the same but for their tags.
SameParts(H, G) ==
    /\ DOMAIN H = DOMAIN G
    /\ \A k \in DOMAIN G : /\ H[k].when = G[k].when /\ H[k].per = G[k].per
                           /\ H[k].metrics = G[k].metrics /\ H[k].labels = G[k].labels

\* Naming a row changes the tags only.
LEMMA NamedParts ==
    ASSUME NEW c, NEW b, b = c.next[1], IsCommand(b), NEW row
    PROVE  SameParts(Named(c, row), b.groups)
<1>1. DOMAIN Named(c, row) = DOMAIN b.groups
  BY DEF Named
<1> QED
  BY <1>1, NamedGroups DEF SameParts

\* What tells the rows of a command apart does so for one with the same labels.
LEMMA ToldSame ==
    ASSUME NEW c, NEW d, RowsTold(c), d.asks = c.asks, d.takes = c.takes,
           SameParts(d.groups, c.groups)
    PROVE  RowsTold(d)
<1>1. \A p : Asked(d, p) <=> Asked(c, p)
  BY DEF Asked
<1>2. \A k \in DOMAIN c.groups : Mute(d, d.groups[k]) <=> Mute(c, c.groups[k])
  BY <1>1 DEF Mute, SameParts
<1> QED
  BY <1>1, <1>2 DEF RowsTold, SameParts

\* Two sequences that have the same behind their first element.
LEMMA FrontsDiffer ==
    ASSUME NEW s, IsSequence(s), NEW x, NEW y, NEW t, t = <<x>> \o s, NEW u, u = <<y>> \o s
    PROVE  /\ DOMAIN t = DOMAIN u /\ 1 \in DOMAIN t /\ t[1] = x /\ u[1] = y
           /\ \A p \in DOMAIN t : p # 1 => t[p] = u[p]
<1> DEFINE S == {s[i] : i \in DOMAIN s}
           B == S \cup {x, y}
<1>1. s \in Seq(S)
  BY DEF IsSequence
<1>2. s \in Seq(B) /\ <<x>> \in Seq(B) /\ <<y>> \in Seq(B)
  <2>1. x \in B /\ y \in B /\ S \subseteq B
    OBVIOUS
  <2> HIDE DEF S, B
  <2> QED
    BY <1>1, <2>1, SeqMonotone
<1> HIDE DEF S, B
<1>3. Len(<<x>>) = 1 /\ Len(<<y>>) = 1 /\ <<x>>[1] = x /\ <<y>>[1] = y
  OBVIOUS
<1>4. PICK n \in Nat : n = Len(s)
  BY <1>2, LenProperties
<1>5. /\ t \in Seq(B) /\ Len(t) = 1 + n
      /\ \A p \in 1..(1 + n) : t[p] = IF p <= 1 THEN <<x>>[p] ELSE s[p - 1]
  <2>1. /\ <<x>> \o s \in Seq(B) /\ Len(<<x>> \o s) = Len(<<x>>) + Len(s)
        /\ \A i \in 1 .. Len(<<x>>) + Len(s) :
               (<<x>> \o s)[i] = IF i <= Len(<<x>>) THEN <<x>>[i] ELSE s[i - Len(<<x>>)]
    BY <1>2, ConcatProperties, Zenon
  <2> QED
    BY <1>3, <1>4, <2>1, Zenon
<1>6. /\ u \in Seq(B) /\ Len(u) = 1 + n
      /\ \A p \in 1..(1 + n) : u[p] = IF p <= 1 THEN <<y>>[p] ELSE s[p - 1]
  <2>1. /\ <<y>> \o s \in Seq(B) /\ Len(<<y>> \o s) = Len(<<y>>) + Len(s)
        /\ \A i \in 1 .. Len(<<y>>) + Len(s) :
               (<<y>> \o s)[i] = IF i <= Len(<<y>>) THEN <<y>>[i] ELSE s[i - Len(<<y>>)]
    BY <1>2, ConcatProperties, Zenon
  <2> QED
    BY <1>3, <1>4, <2>1, Zenon
<1>7. DOMAIN t = 1..(1 + n) /\ DOMAIN u = 1..(1 + n)
  BY <1>5, <1>6, LenProperties
<1>8. 1 \in 1..(1 + n) /\ 1 <= 1 /\ \A p \in 1..(1 + n) : p # 1 => ~(p <= 1)
  OBVIOUS
<1> QED
  BY <1>3, <1>5, <1>6, <1>7, <1>8

\* The tag of a follow-up begins with the name of the row.
NamedLike(h, g, name) ==
    /\ IsGroup(g) /\ IsGroup(h) /\ h.labels = g.labels
    /\ h.tag = <<name>> \o g.tag /\ Len(h.tag) = 1 + Len(g.tag)

\* Named puts the name there.
LEMMA NamedTag ==
    ASSUME NEW c, NEW b, b = c.next[1], IsCommand(b), NEW row, NEW k \in DOMAIN b.groups
    PROVE  NamedLike(Named(c, row)[k], b.groups[k], NameOf(c, row))
<1>1. IsGroup(b.groups[k])
  BY DEF IsCommand
<1>2. Named(c, row)[k].tag = <<NameOf(c, row)>> \o b.groups[k].tag
  BY <1>1, Zenon DEF Named, IsGroup
<1> QED
  BY <1>1, <1>2, NamedGroups DEF NamedLike

\* The metrics of a follow-up have the keys they are written with, whatever the name.
LEMMA NamedKey ==
    ASSUME NEW c, IsCommand(c), NEW row \in RowsOf(c),
           NEW b, b = c.next[1], IsCommand(b), NEW k \in DOMAIN b.groups,
           NEW d, d.groups[k] = Named(c, row)[k], NEW w, w.groups[k] = Named(c, NoRow)[k],
           NEW m
    PROVE  KeyOf(d, k, m) = KeyOf(w, k, m)
<1> DEFINE g == Named(c, row)[k]
           h == Named(c, NoRow)[k]
           x == NameOf(c, row)
           y == NameOf(c, NoRow)
           l == LabelsOf(d, g, NoRow)
           t == LabelsOf(w, h, NoRow)
<1>1. x \in RowValues /\ y \in RowValues
  BY RowLabel, NoLabel DEF NameOf, RowValues
<1>2. NamedLike(g, b.groups[k], x) /\ NamedLike(h, b.groups[k], y)
  BY NamedTag
<1> HIDE DEF g, h, x, y
<1>3. PICK v : v = b.groups[k].tag
  OBVIOUS
<1>4. /\ IsGroup(g) /\ g.labels = b.groups[k].labels
      /\ Len(g.tag) = 1 + Len(v) /\ g.tag = <<x>> \o v /\ IsSequence(v)
  BY <1>2, <1>3 DEF NamedLike, IsGroup
<1>5. /\ IsGroup(h) /\ h.labels = b.groups[k].labels
      /\ Len(h.tag) = 1 + Len(v) /\ h.tag = <<y>> \o v
  BY <1>2, <1>3 DEF NamedLike
<1>6. /\ DOMAIN g.tag = DOMAIN h.tag /\ g.tag[1] = x /\ h.tag[1] = y
      /\ \A p \in DOMAIN g.tag : p # 1 => g.tag[p] = h.tag[p]
  BY <1>4, <1>5, FrontsDiffer
<1>7. Shaped(l, d, g, NoRow) /\ Shaped(t, w, h, NoRow)
  BY <1>4, <1>5, LabelsShape
<1> HIDE DEF l, t
<1>8. PICK a, z \in Nat :
          /\ DOMAIN l = 1..(a + z) /\ a = Len(g.tag) /\ z = Len(g.labels) /\ DOMAIN g.tag = 1..a
          /\ \A p \in 1..(a + z) : l[p] = IF p <= a THEN g.tag[p]
                                        ELSE LabelOf(d, NoRow, g.labels[p - a])
  BY <1>7 DEF Shaped
<1>9. /\ DOMAIN t = 1..(a + z)
       /\ \A p \in 1..(a + z) : t[p] = IF p <= a THEN h.tag[p]
                                     ELSE LabelOf(w, NoRow, h.labels[p - a])
  <2>1. a = Len(h.tag) /\ z = Len(h.labels)
    BY <1>4, <1>5, <1>8
  <2> QED
    BY <1>7, <2>1 DEF Shaped
<1>10. ASSUME NEW p \in DOMAIN l PROVE l[p] = t[p] \/ (l[p] \in RowValues /\ t[p] \in RowValues)
  <2>1. CASE p <= a
    <3>1. l[p] = g.tag[p] /\ t[p] = h.tag[p]
      BY <1>8, <1>9, <2>1
    <3>2. p \in DOMAIN g.tag
      BY <1>8, <2>1
    <3> QED
      BY <1>1, <1>6, <3>1, <3>2
  <2>2. CASE ~(p <= a)
    <3>1. l[p] = LabelOf(d, NoRow, g.labels[p - a]) /\ t[p] = LabelOf(w, NoRow, h.labels[p - a])
      BY <1>8, <1>9, <2>2
    <3> QED
      BY <3>1, NoLabel
  <2> QED
    BY <2>1, <2>2
<1>11. PatternOf(l) = PatternOf(t)
  BY <1>8, <1>9, <1>10, SamePattern
<1>12. KeyOf(d, k, m) = <<m.name, PatternOf(l)>> /\ KeyOf(w, k, m) = <<m.name, PatternOf(t)>>
  BY Zenon DEF KeyOf, l, t, g, h
<1> QED
  BY <1>11, <1>12

\* A name that no row gives does not depend on what is asked for.
LEMMA NamedNoRow ==
    ASSUME NEW c, NEW e, e.next = c.next
    PROVE  Named(e, NoRow) = Named(c, NoRow)
BY NoLabel DEF Named, NameOf

\* The first label of what a follow-up sends is the name of the row it follows.
LEMMA FirstLabel ==
    ASSUME NEW c, NEW b, b = c.next[1], IsCommand(b), NEW row, NEW d, d.groups = Named(c, row),
           NEW s \in Possible(d)
    PROVE  s[2][1] = NameOf(c, row)
<1>1. PICK k \in GroupsOn(d) : \E m \in d.groups[k].metrics :
          \E r \in RowsOf(d) : s = <<m.name, LabelsOf(d, d.groups[k], r)>>
  BY PossibleMade
<1>2. k \in DOMAIN b.groups
  BY DEF GroupsOn, Named
<1>3. PICK g, m, r, l : /\ g = Named(c, row)[k] /\ l = LabelsOf(d, g, r)
                        /\ s = <<m.name, l>>
  BY <1>1
<1>4. NamedLike(g, b.groups[k], NameOf(c, row))
  BY <1>2, <1>3, NamedTag
<1>5. IsGroup(g)
  BY <1>4 DEF NamedLike
<1>6. 1 \in DOMAIN g.tag /\ g.tag[1] = NameOf(c, row)
  <2>1. PICK v, t, n : v = b.groups[k].tag /\ t = g.tag /\ n = NameOf(c, row)
    OBVIOUS
  <2>2. IsSequence(v) /\ t = <<n>> \o v
    BY <1>4, <2>1 DEF NamedLike, IsGroup
  <2>3. 1 \in DOMAIN t /\ t[1] = n
    BY <2>2, FrontsDiffer
  <2> QED
    BY <2>1, <2>3
<1>7. Shaped(l, d, g, r)
  BY <1>3, <1>5, LabelsShape
<1>8. PICK a, z \in Nat :
          /\ DOMAIN g.tag = 1..a
          /\ \A p \in 1..(a + z) : l[p] = IF p <= a THEN g.tag[p]
                                        ELSE LabelOf(d, r, g.labels[p - a])
  BY <1>7 DEF Shaped
<1>9. 1 \in 1..(a + z) /\ 1 <= a
  BY <1>6, <1>8
<1>10. l[1] = g.tag[1]
  BY <1>8, <1>9
<1> QED
  BY <1>3, <1>6, <1>10

\* A command of the program that others follow.
Leads(c) ==
    /\ IsCommand(c) /\ c.follow = FALSE /\ c.next # <<>> /\ c.id \in DOMAIN cmds
    /\ c.next = cmds[c.id].next /\ c.then = cmds[c.id].then /\ Told(c)
    /\ IsCommand(c.next[1]) /\ c.next[1].next = <<>>

\* What follows a command can be told apart and has the keys it is written with.
LEMMA ChildDistinct ==
    ASSUME NEW c, Leads(c), c.then # "each", NEW d, d = Child(c, c.next[1])
    PROVE  Told(d) /\ LikeWritten(d)
<1>0. PICK b : b = c.next[1]
  OBVIOUS
<1>1. /\ d.groups = b.groups /\ d.when = b.when /\ d.asks = b.asks /\ d.takes = b.takes
      /\ d.id = c.id /\ d.follow = TRUE /\ d.next = <<>>
  BY <1>0 DEF Leads, Child, IsCommand, Fields
<1>2. Told(d)
  <2>1. RowsTold(b)
    BY <1>0 DEF Leads, Told
  <2>2. SameParts(d.groups, b.groups)
    BY <1>1 DEF SameParts
  <2>3. RowsTold(d)
    BY <1>1, <2>1, <2>2, ToldSame
  <2> QED
    BY <1>1, <2>3 DEF Told
<1>3. Written(collector, c.id, TRUE) = b /\ Exists(collector, c.id, TRUE)
  BY <1>0 DEF Leads, Written, Exists, cmds, program
<1>4. LikeWritten(d)
  <2>1. PICK i, w : i = c.id /\ w = Written(collector, i, TRUE)
    OBVIOUS
  <2> QED
    BY <1>1, <1>3, <2>1, LikeSame
<1> QED
  BY <1>2, <1>4

\* So does what follows a row.
LEMMA NamedDistinct ==
    ASSUME NEW c, Leads(c), c.then = "each", NEW row \in RowsOf(c),
           NEW d, d = Child(c, Asking(c.next[1], Named(c, row), Passed(row)))
    PROVE  Told(d) /\ LikeWritten(d) /\ d.groups = Named(c, row)
<1>0. PICK b : b = c.next[1] /\ IsCommand(b) /\ b.next = <<>>
  BY DEF Leads
<1>1. PICK a : a = Asking(b, Named(c, row), Passed(row))
  OBVIOUS
<1>2. /\ IsCommand(a) /\ a.next = <<>> /\ a.asks = b.asks /\ a.takes = b.takes
      /\ a.groups = Named(c, row) /\ b.when \subseteq a.when
  <2>1. IsCommand(a) /\ a.next = <<>> /\ a.asks = b.asks /\ a.groups = Named(c, row)
    BY <1>0, <1>1, NamedFields
  <2>2. a.takes = b.takes /\ b.when \subseteq a.when
    BY <1>0, <1>1 DEF Asking, IsCommand, Fields
  <2> QED
    BY <2>1, <2>2
<1>3. /\ d.groups = Named(c, row) /\ d.asks = b.asks /\ d.takes = b.takes /\ d.next = <<>>
      /\ d.id = c.id /\ d.follow = TRUE /\ b.when \subseteq d.when
  BY <1>0, <1>1, <1>2 DEF Child, IsCommand, Fields
<1>4. SameParts(d.groups, b.groups)
  BY <1>0, <1>3, NamedParts
<1>5. Told(d)
  <2>1. RowsTold(b)
    BY <1>0 DEF Leads, Told
  <2>2. RowsTold(d)
    BY <1>3, <1>4, <2>1, ToldSame
  <2> QED
    BY <1>3, <2>2 DEF Told
<1>6. PICK w, i : i = c.id /\ w = Written(collector, i, TRUE)
  OBVIOUS
<1>7. w.groups = Named(c, NoRow) /\ w.when = b.when /\ Exists(collector, i, TRUE)
  <2>1. PICK e : e = cmds[i]
    OBVIOUS
  <2>2. e.next = c.next /\ e.then = "each" /\ c.next # <<>>
    BY <1>6, <2>1 DEF Leads
  <2>3. w = [b EXCEPT !.groups = Named(e, NoRow)] /\ Exists(collector, i, TRUE)
    BY <1>0, <1>6, <2>1, <2>2 DEF Written, Exists, cmds, program
  <2>4. Named(e, NoRow) = Named(c, NoRow)
    BY <2>2, NamedNoRow
  <2> QED
    BY <1>0, <2>3, <2>4 DEF IsCommand, Fields
<1>8. SameParts(w.groups, b.groups)
  BY <1>0, <1>7, NamedParts
<1>9. ASSUME NEW k \in DOMAIN b.groups, NEW m PROVE KeyOf(d, k, m) = KeyOf(w, k, m)
  <2>1. IsCommand(c)
    BY DEF Leads
  <2> QED
    BY <1>0, <1>3, <1>7, <2>1, NamedKey
<1>10. DOMAIN d.groups = DOMAIN w.groups /\ DOMAIN w.groups = DOMAIN b.groups
  BY <1>4, <1>8 DEF SameParts
<1>11. ASSUME NEW k \in DOMAIN w.groups
       PROVE  d.groups[k].when = w.groups[k].when /\ d.groups[k].metrics = w.groups[k].metrics
  BY <1>4, <1>8, <1>10, <1>11 DEF SameParts
<1>12. LikeWritten(d)
  <2>1. PICK f \in BOOLEAN : f = TRUE
    OBVIOUS
  <2>2. /\ d.id = i /\ d.follow = f /\ w.when \subseteq d.when
        /\ Exists(collector, i, f) /\ w = Written(collector, i, f)
    BY <1>3, <1>6, <1>7, <2>1
  <2>3. ASSUME NEW k \in DOMAIN w.groups
        PROVE  /\ d.groups[k].when = w.groups[k].when
               /\ d.groups[k].metrics = w.groups[k].metrics
               /\ \A m : KeyOf(d, k, m) = KeyOf(w, k, m)
    BY <1>9, <1>10, <1>11
  <2> QED
    BY <1>10, <2>2, <2>3, LikeIs
<1> QED
  BY <1>3, <1>5, <1>12

\* All that FollowUps makes is so, and no two of it can send the same.
LEMMA FollowersDistinct ==
    ASSUME NEW c, Leads(c), NEW rows \in Replies(c)
    PROVE  LET F == FollowUps(c, rows) IN
           /\ \A x \in DOMAIN F : Told(F[x]) /\ LikeWritten(F[x])
           /\ \A x, y \in DOMAIN F : x = y \/ Possible(F[x]) \cap Possible(F[y]) = {}
<1> DEFINE F == FollowUps(c, rows)
           b == c.next[1]
<1>0. IsCommand(c) /\ IsCommand(b) /\ c.next # <<>> /\ Told(c)
  BY DEF Leads
<1>1. CASE c.then # "each" /\ F = <<Child(c, b)>>
  <2>1. DOMAIN F = {1} /\ F[1] = Child(c, b)
    BY <1>1, SMT
  <2>2. Told(Child(c, b)) /\ LikeWritten(Child(c, b))
    BY <1>1, ChildDistinct
  <2> HIDE DEF F
  <2>3. \A x, y \in DOMAIN F : x = y
    BY <2>1
  <2>4. \A x \in DOMAIN F : Told(F[x]) /\ LikeWritten(F[x])
    BY <2>1, <2>2
  <2> QED
    BY <2>3, <2>4 DEF F
<1>2. CASE F = <<>>
  <2>1. DOMAIN F = {}
    BY <1>2, SMT
  <2> QED
    BY <2>1
<1>3. CASE c.then = "each"
  <2> DEFINE made(k) == Child(c, Asking(b, Named(c, rows[k]), Passed(rows[k])))
  <2>1. F = [k \in DOMAIN rows |-> made(k)]
    BY <1>0, <1>3 DEF FollowUps, Asking
  <2>2. ASSUME NEW k \in DOMAIN rows
        PROVE  Told(made(k)) /\ LikeWritten(made(k)) /\ made(k).groups = Named(c, rows[k])
    <3>1. PICK row, d : row = rows[k] /\ d = Child(c, Asking(b, Named(c, row), Passed(row)))
      OBVIOUS
    <3>2. row \in RowsOf(c)
      BY <3>1 DEF RowsOf
    <3>3. Told(d) /\ LikeWritten(d) /\ d.groups = Named(c, row)
      BY <1>3, <3>1, <3>2, NamedDistinct
    <3> QED
      BY <3>1, <3>3
  <2> HIDE DEF made
  <2>3. ASSUME NEW x \in DOMAIN rows, NEW y \in DOMAIN rows, x # y,
               NEW s \in Possible(made(x)), s \in Possible(made(y))
        PROVE  FALSE
    <3>1. PICK p, q, d, e : p = rows[x] /\ q = rows[y] /\ d = made(x) /\ e = made(y)
      OBVIOUS
    <3>2. d.groups = Named(c, p) /\ e.groups = Named(c, q) /\ s \in Possible(d) /\ s \in Possible(e)
      BY <2>2, <2>3, <3>1
    <3>3. s[2][1] = NameOf(c, p) /\ s[2][1] = NameOf(c, q)
      BY <1>0, <3>2, FirstLabel
    <3>4. c.takes = "rows"
      <4>1. PICK n \in Nat : DOMAIN rows = 1..n /\ (c.takes # "rows" => n <= 1)
        BY <1>0, RowsShape
      <4>2. \A i, j \in 1..n : n <= 1 => i = j
        BY SMT
      <4> QED
        BY <2>3, <4>1, <4>2
    <3>5. Asked(c, "name")
      BY <1>0, <1>3, <3>4 DEF Told
    <3>6. LabelOf(c, rows[x], "name") # LabelOf(c, rows[y], "name")
      BY <1>0, <2>3, <3>5, RowsDiffer
    <3> QED
      BY <3>1, <3>3, <3>6 DEF NameOf
  <2> HIDE DEF F
  <2> QED
    BY <2>1, <2>2, <2>3 DEF F
<1>4. \/ c.then # "each" /\ F = <<Child(c, b)>>
      \/ F = <<>> \/ c.then = "each"
  <2>1. c.then \in {"each", "some", "all"}
    BY <1>0 DEF IsCommand
  <2>2. CASE c.then = "some"
    BY <1>0, <2>2 DEF FollowUps
  <2>3. CASE c.then = "all"
    BY <1>0, <2>3 DEF FollowUps
  <2> QED
    BY <2>1, <2>2, <2>3
<1> QED
  BY <1>1, <1>2, <1>3, <1>4

----------------------------------------------------------------------------
\* Nothing has been sent: the invariant holds before Collect begins.
LEMMA DistinctInit == Init => DistinctInv
<1> SUFFICES ASSUME Init PROVE DistinctInv
  OBVIOUS
<1>1. todo = <<>> /\ series = {} /\ ~twice
  BY DEF Init
<1>2. DOMAIN todo = {}
  BY <1>1, NothingToCome
<1> QED
  BY <1>1, <1>2 DEF DistinctInv

\* Steps of one scrape agree on what a command may send, and on what sent a series.
LEMMA SameDistinct ==
    ASSUME Same
    PROVE  \A e : /\ Possible(e)' = Possible(e) /\ (LikeWritten(e)' <=> LikeWritten(e))
                  /\ \A i : Ancestral(e, i)' <=> Ancestral(e, i)
<1>1. Active' = Active
  BY DEF Same, Active, ActiveIn
<1>2. \A c : On(c)' <=> On(c)
  BY <1>1 DEF On
<1>3. \A c : GroupsOn(c)' = GroupsOn(c)
  BY <1>1 DEF GroupsOn, On
<1>4. collector' = collector /\ cmds' = cmds
  BY SameProgram DEF Same
<1>5. \A e : Possible(e)' = Possible(e)
  BY <1>2, <1>3 DEF Possible
<1>6. \A e : LikeWritten(e)' <=> LikeWritten(e)
  BY <1>4 DEF LikeWritten
<1>7. \A s, i, f, k, m : Belongs(s, i, f, k, m)' <=> Belongs(s, i, f, k, m)
  BY <1>2, <1>3, <1>4 DEF Belongs
<1>8. \A s, i : Ancestral(s, i)' <=> Ancestral(s, i)
  BY <1>7 DEF Ancestral
<1> QED
  BY <1>5, <1>6, <1>8

\* What comes next can send nothing of S, and nothing that the others to come can send.
Fresh(d, S) ==
    /\ d.follow /\ Told(d) /\ LikeWritten(d) /\ Possible(d) \cap S = {}
    /\ \A k \in DOMAIN todo : k # 1 => Possible(d) \cap Possible(todo[k]) = {}

\* The first command has sent what it could, and others take its place.
LEMMA DistinctStep ==
    ASSUME RunInv, DistinctInv, Same, todo # <<>>, NEW c, c = Head(todo),
           NEW new, new \subseteq Possible(c), series' = series \cup new, ~twice',
           sent \subseteq sent', \A s \in new : \E i \in sent' : Ancestral(s, i),
           NEW F, Proper(F), todo' = F \o Tail(todo),
           \A x \in DOMAIN F : Fresh(F[x], series \cup new),
           \A x, y \in DOMAIN F : x = y \/ Possible(F[x]) \cap Possible(F[y]) = {}
    PROVE  DistinctInv'
<1> DEFINE T == series \cup new
           tells(d) == /\ Told(d) /\ LikeWritten(d) /\ Possible(d) \cap T = {}
                       /\ ~d.follow => d.then = cmds[d.id].then
<1>1. InPlaceOfHead(F, todo, todo') /\ 1 \in DOMAIN todo /\ c = todo[1]
  BY Replaced DEF RunInv, TodoInv
<1>2. PICK m \in Nat :
          \A k \in DOMAIN todo' :
              \/ \E x \in DOMAIN F : x = k /\ todo'[k] = F[x]
              \/ \E j \in DOMAIN todo : j # 1 /\ k = m + j - 1 /\ todo'[k] = todo[j]
  BY <1>1 DEF InPlaceOfHead
<1>3. ASSUME NEW k \in DOMAIN todo' PROVE tells(todo'[k])
  <2>1. CASE \E x \in DOMAIN F : todo'[k] = F[x]
    <3>1. Fresh(todo'[k], T)
      BY <2>1
    <3> QED
      BY <3>1 DEF Fresh
  <2>2. CASE \E j \in DOMAIN todo : j # 1 /\ todo'[k] = todo[j]
    <3>1. PICK j \in DOMAIN todo : j # 1 /\ todo'[k] = todo[j]
      BY <2>2
    <3>2. /\ Told(todo[j]) /\ LikeWritten(todo[j]) /\ Possible(todo[j]) \cap series = {}
          /\ ~todo[j].follow => todo[j].then = cmds[todo[j].id].then
          /\ Possible(todo[j]) \cap Possible(c) = {}
      BY <1>1, <3>1 DEF DistinctInv
    <3> QED
      BY <3>1, <3>2
  <2> QED
    BY <1>2, <2>1, <2>2
<1>4. ASSUME NEW j \in DOMAIN todo', NEW k \in DOMAIN todo', j # k
      PROVE  Possible(todo'[j]) \cap Possible(todo'[k]) = {}
  <2>1. CASE \E x, y \in DOMAIN F : x = j /\ y = k /\ todo'[j] = F[x] /\ todo'[k] = F[y]
    BY <1>4, <2>1
  <2>2. CASE /\ \E x \in DOMAIN F : todo'[j] = F[x]
             /\ \E y \in DOMAIN todo : y # 1 /\ todo'[k] = todo[y]
    <3>1. Fresh(todo'[j], T)
      BY <2>2
    <3> QED
      BY <2>2, <3>1 DEF Fresh
  <2>3. CASE /\ \E x \in DOMAIN F : todo'[k] = F[x]
             /\ \E y \in DOMAIN todo : y # 1 /\ todo'[j] = todo[y]
    <3>1. Fresh(todo'[k], T)
      BY <2>3
    <3> QED
      BY <2>3, <3>1 DEF Fresh
  <2>4. CASE \E x, y \in DOMAIN todo : /\ j = m + x - 1 /\ k = m + y - 1
                                       /\ todo'[j] = todo[x] /\ todo'[k] = todo[y]
    <3>1. PICK x \in DOMAIN todo, y \in DOMAIN todo :
              /\ j = m + x - 1 /\ k = m + y - 1 /\ todo'[j] = todo[x] /\ todo'[k] = todo[y]
      BY <2>4
    <3>2. x # y
      BY <1>4, <3>1
    <3> QED
      BY <3>1, <3>2 DEF DistinctInv
  <2> QED
    BY <1>2, <2>1, <2>2, <2>3, <2>4
<1>5. \A s \in T : \E i \in sent' : Ancestral(s, i)
  BY DEF DistinctInv
<1>6. cmds' = cmds /\ series' = T
  BY SameProgram
<1>7. \A e : /\ Possible(e)' = Possible(e) /\ (LikeWritten(e)' <=> LikeWritten(e))
             /\ \A i : Ancestral(e, i)' <=> Ancestral(e, i)
  BY SameDistinct
<1> HIDE DEF T
<1>8. \A s \in series' : \E i \in sent' : Ancestral(s, i)'
  BY <1>5, <1>6, <1>7
<1>9. ASSUME NEW k \in DOMAIN todo'
      PROVE  /\ Told(todo'[k]) /\ LikeWritten(todo[k])'
             /\ ~todo'[k].follow => todo'[k].then = cmds'[todo'[k].id].then
             /\ Possible(todo[k])' \cap series' = {}
  <2>1. PICK d : d = todo'[k]
    OBVIOUS
  <2>2. tells(d)
    BY <1>3, <2>1
  <2>3. LikeWritten(d)' /\ Possible(d)' \cap series' = {}
    BY <1>6, <1>7, <2>2
  <2>4. LikeWritten(todo[k])' /\ Possible(todo[k])' \cap series' = {}
    BY <2>1, <2>3
  <2> QED
    BY <1>6, <2>1, <2>2, <2>4
<1>10. ASSUME NEW j \in DOMAIN todo', NEW k \in DOMAIN todo', j # k
       PROVE  Possible(todo[j])' \cap Possible(todo[k])' = {}
  <2>1. PICK d, e : d = todo'[j] /\ e = todo'[k]
    OBVIOUS
  <2>2. Possible(d) \cap Possible(e) = {}
    BY <1>4, <1>10, <2>1
  <2>3. Possible(d)' \cap Possible(e)' = {}
    BY <1>7, <2>2
  <2> QED
    BY <2>1, <2>3
<1> QED
  BY <1>8, <1>9, <1>10 DEF DistinctInv

\* Collect begins: no two commands of the program send the same.
LEMMA DistinctStart ==
    ASSUME RunInv, DistinctInv, Start
    PROVE  DistinctInv'
<1>1. /\ Same /\ todo' = Commands /\ series' = series /\ sent' = sent /\ twice' = twice
      /\ pc = "idle"
  BY DEF Start, Same, results, history
<1>2. sent = {} /\ series = {} /\ ~twice /\ collector \in DOMAIN Program /\ env \in Envs
  BY <1>1 DEF RunInv, Shape, DistinctInv
<1>3. cmds' = cmds /\ Commands = [i \in DOMAIN cmds |-> [cmds[i] EXCEPT !.id = i]]
  BY <1>1, SameProgram DEF Commands, cmds
<1>4. ASSUME NEW i \in DOMAIN cmds, NEW d, d = Commands[i]
      PROVE  /\ IsCommand(d) /\ d.id = i /\ d.follow = FALSE
             /\ Told(d) /\ LikeWritten(d) /\ d.then = cmds[i].then
  <2>1. PICK c : c = cmds[i] /\ IsCommand(c) /\ c.follow = FALSE /\ Told(c)
    BY <1>2, ProgramFacts, KeysFacts
  <2>2. d = [c EXCEPT !.id = i]
    BY <1>3, <1>4, <2>1
  <2>3. /\ d.id = i /\ d.follow = FALSE /\ d.asks = c.asks /\ d.takes = c.takes
        /\ d.groups = c.groups /\ d.next = c.next /\ d.then = c.then /\ d.when = c.when
    BY <2>1, <2>2 DEF IsCommand, Fields
  <2>4. IsCommand(d)
    BY <2>1, <2>2, SetId
  <2>5. Told(d)
    <3>1. SameParts(d.groups, c.groups)
      BY <2>3 DEF SameParts
    <3>2. RowsTold(d)
      BY <2>1, <2>3, <3>1, ToldSame DEF Told
    <3>3. \A p : Asked(d, p) <=> Asked(c, p)
      BY <2>3 DEF Asked
    <3> QED
      BY <2>1, <2>3, <3>2, <3>3 DEF Told
  <2>6. LikeWritten(d)
    <3>1. PICK f \in BOOLEAN : f = FALSE
      OBVIOUS
    <3>2. Exists(collector, i, f) /\ c = Written(collector, i, f)
      BY <2>1, <3>1 DEF Exists, Written, cmds, program
    <3> QED
      BY <2>3, <3>1, <3>2, LikeSame
  <2> QED
    BY <2>1, <2>3, <2>4, <2>5, <2>6
<1>5. ASSUME NEW i \in DOMAIN cmds, NEW j \in DOMAIN cmds, i # j,
             NEW s \in Possible(Commands[i]), s \in Possible(Commands[j])
      PROVE  FALSE
  <2>1. PICK d, e : d = Commands[i] /\ e = Commands[j]
    OBVIOUS
  <2>2. /\ IsCommand(d) /\ LikeWritten(d) /\ d.id = i /\ s \in Possible(d)
        /\ IsCommand(e) /\ LikeWritten(e) /\ e.id = j /\ s \in Possible(e)
    BY <1>4, <1>5, <2>1
  <2>3. PICK k, m : Belongs(s, d.id, d.follow, k, m)
    BY <2>2, PossibleBelongs
  <2>4. PICK l, n : Belongs(s, e.id, e.follow, l, n)
    BY <2>2, PossibleBelongs
  <2>5. d.id = e.id
    BY <1>2, <2>3, <2>4, KeyTells
  <2> QED
    BY <1>5, <2>2, <2>5
<1>6. DOMAIN todo' = DOMAIN cmds /\ \A i \in DOMAIN cmds : todo'[i] = Commands[i]
  BY <1>1, <1>3
<1>7. \A e : Possible(e)' = Possible(e) /\ (LikeWritten(e)' <=> LikeWritten(e))
  BY <1>1, SameDistinct
<1>8. ASSUME NEW k \in DOMAIN todo'
      PROVE  /\ Told(todo'[k]) /\ LikeWritten(todo[k])'
             /\ ~todo'[k].follow => todo'[k].then = cmds'[todo'[k].id].then
             /\ Possible(todo[k])' \cap series' = {}
  <2>1. PICK d : d = todo'[k]
    OBVIOUS
  <2>2. Told(d) /\ LikeWritten(d) /\ d.then = cmds[d.id].then
    <3>1. k \in DOMAIN cmds /\ d = Commands[k]
      BY <1>6, <2>1
    <3>2. Told(d) /\ LikeWritten(d) /\ d.id = k /\ d.then = cmds[k].then
      BY <1>4, <3>1
    <3> QED
      BY <3>2
  <2>3. LikeWritten(d)'
    BY <1>7, <2>2
  <2> QED
    BY <1>1, <1>2, <1>3, <2>1, <2>2, <2>3
<1>9. ASSUME NEW j \in DOMAIN todo', NEW k \in DOMAIN todo', j # k
      PROVE  Possible(todo[j])' \cap Possible(todo[k])' = {}
  <2>1. PICK d, e : d = todo'[j] /\ e = todo'[k]
    OBVIOUS
  <2>2. Possible(d) \cap Possible(e) = {}
    BY <1>5, <1>6, <1>9, <2>1
  <2>3. Possible(d)' \cap Possible(e)' = {}
    BY <1>7, <2>2
  <2> QED
    BY <2>1, <2>3
<1> QED
  BY <1>1, <1>2, <1>8, <1>9 DEF DistinctInv

\* What follows a command can send nothing that was sent, the command's own series included.
LEMMA FollowersFresh ==
    ASSUME RunInv, DistinctInv, 1 \in DOMAIN todo, NEW c, c = todo[1], c.next # <<>>,
           NEW rows \in Replies(c), NEW new, \A s \in new : \E k, m : Belongs(s, c.id, FALSE, k, m)
    PROVE  LET F == FollowUps(c, rows) IN
           /\ \A x \in DOMAIN F : Fresh(F[x], series \cup new)
           /\ \A x, y \in DOMAIN F : x = y \/ Possible(F[x]) \cap Possible(F[y]) = {}
<1> DEFINE F == FollowUps(c, rows)
<1>1. collector \in DOMAIN Program /\ env \in Envs /\ Valid(cmds, sent, c)
  BY DEF RunInv, Shape, TodoInv
<1>2. c.follow = FALSE /\ c.id \in DOMAIN cmds /\ c.id \notin sent /\ IsCommand(c)
  BY <1>1 DEF Valid
<1>3. Leads(c)
  <2>1. c.next = cmds[c.id].next /\ c.then = cmds[c.id].then /\ Told(c)
    BY <1>1, <1>2 DEF Valid, DistinctInv
  <2>2. IsCommand(c.next[1]) /\ c.next[1].next = <<>>
    BY <1>1, <1>2, <2>1, ProgramFacts
  <2> QED
    BY <1>2, <2>1, <2>2 DEF Leads
<1>4. \A x \in DOMAIN F : IsFollower(c, F[x])
  <2>1. \E n \in Nat : DOMAIN rows = 1..n
    BY <1>2, RowsProper
  <2> QED
    BY <1>2, <1>3, <2>1, FollowersProper DEF Leads
<1>5. /\ \A x \in DOMAIN F : Told(F[x]) /\ LikeWritten(F[x])
      /\ \A x, y \in DOMAIN F : x = y \/ Possible(F[x]) \cap Possible(F[y]) = {}
  BY <1>3, FollowersDistinct
<1> HIDE DEF F
<1>6. ASSUME NEW x \in DOMAIN F PROVE Fresh(F[x], series \cup new)
  <2>1. PICK d : d = F[x]
    OBVIOUS
  <2>2. /\ IsCommand(d) /\ d.id = c.id /\ d.follow = TRUE /\ Told(d) /\ LikeWritten(d)
    BY <1>4, <1>5, <2>1 DEF IsFollower
  <2>3. ASSUME NEW s \in Possible(d) PROVE \E k, m : Belongs(s, c.id, TRUE, k, m)
    BY <1>2, <2>2, <2>3, PossibleBelongs
  <2>4. ASSUME NEW s \in Possible(d), NEW j, NEW f, NEW l, NEW n, Belongs(s, j, f, l, n)
        PROVE  j = c.id /\ f = TRUE
    BY <1>1, <2>3, <2>4, KeyTells
  <2>5. ASSUME NEW s \in Possible(d), s \in series PROVE FALSE
    <3>1. PICK j \in sent : Ancestral(s, j)
      BY <2>5 DEF DistinctInv
    <3>2. PICK f, l, n : Belongs(s, j, f, l, n)
      BY <3>1 DEF Ancestral
    <3> QED
      BY <1>2, <2>4, <3>1, <3>2
  <2>6. ASSUME NEW s \in Possible(d), s \in new PROVE FALSE
    <3>1. PICK l, n : Belongs(s, c.id, FALSE, l, n)
      BY <2>6
    <3> QED
      BY <2>4, <3>1
  <2>7. ASSUME NEW k \in DOMAIN todo, k # 1, NEW s \in Possible(d), s \in Possible(todo[k])
        PROVE  FALSE
    <3>1. PICK e : e = todo[k]
      OBVIOUS
    <3>2. Valid(cmds, sent, e) /\ LikeWritten(e) /\ s \in Possible(e)
      BY <2>7, <3>1 DEF RunInv, TodoInv, DistinctInv
    <3>3. IsCommand(e) /\ e.id \in DOMAIN cmds /\ (e.follow <=> e.id \in sent)
      BY <3>2 DEF Valid
    <3>4. PICK l, n : Belongs(s, e.id, e.follow, l, n)
      BY <3>2, <3>3, PossibleBelongs
    <3>5. e.id = c.id /\ e.follow = TRUE
      BY <2>4, <3>4
    <3> QED
      BY <1>2, <3>3, <3>5
  <2>8. Possible(d) \cap (series \cup new) = {}
    BY <2>5, <2>6
  <2>9. \A k \in DOMAIN todo : k # 1 => Possible(d) \cap Possible(todo[k]) = {}
    BY <2>7
  <2> QED
    BY <2>1, <2>2, <2>8, <2>9 DEF Fresh
<1> QED
  BY <1>5, <1>6 DEF F

\* A command is left out, or fails: nothing is sent.
LEMMA DistinctLeft ==
    ASSUME RunInv, DistinctInv, PassOver \/ CommandFails
    PROVE  DistinctInv'
<1>1. PICK c : c = Head(todo)
  OBVIOUS
<1>2. /\ Same /\ todo # <<>> /\ todo' = Tail(todo) /\ series' = series /\ twice' = twice
      /\ sent \subseteq sent'
  BY DEF PassOver, CommandFails, Same, Rest, results, history
<1>3. PICK F : F = <<>> /\ Proper(F) /\ DOMAIN F = {}
  BY NothingToCome
<1>4. todo' = F \o Tail(todo)
  <2>1. PICK S : todo \in Seq(S)
    BY DEF RunInv, TodoInv, Proper
  <2>2. Tail(todo) \in Seq(S)
    BY <1>2, <2>1, HeadTailProperties
  <2> QED
    BY <1>2, <1>3, <2>2, ConcatEmptySeq
<1>5. PICK new : new = {}
  OBVIOUS
<1>6. ~twice' /\ series' = series \cup new /\ new \subseteq Possible(c)
  BY <1>2, <1>5 DEF DistinctInv
<1>7. \A s \in new : \E i \in sent' : Ancestral(s, i)
  BY <1>5
<1> QED
  BY <1>1, <1>2, <1>3, <1>4, <1>6, <1>7, DistinctStep

\* A command is answered: what it sends is new, and so is what follows it.
LEMMA DistinctAnswered ==
    ASSUME RunInv, DistinctInv, CommandAnswered, pc' # "panicked"
    PROVE  DistinctInv'
<1>1. PICK c : c = Head(todo)
  OBVIOUS
<1>2. PICK rows \in Replies(c) : Answered(c, rows)
  BY <1>1 DEF CommandAnswered
<1>3. Same /\ todo # <<>> /\ Due(c) /\ sent' = sent \cup {c.id}
  BY <1>1 DEF CommandAnswered, Same
<1>4. PICK F : F = FollowUps(c, rows) /\ todo' = F \o Tail(todo)
  <2> DEFINE misfit == \E k \in Reached(c, rows) :
                           /\ Emissions(c, c.groups[k], rows) # {}
                           /\ Len(c.groups[k].tag) + Len(c.groups[k].labels) # c.groups[k].arity
             G == FollowUps(c, rows)
  <2>1. /\ pc' = IF misfit THEN "panicked" ELSE pc
        /\ todo' = IF misfit THEN <<>> ELSE G \o Tail(todo)
    BY <1>2, Zenon DEF Answered, Rest
  <2> HIDE DEF misfit, G
  <2>2. todo' = G \o Tail(todo)
    BY <2>1
  <2> QED
    BY <2>2 DEF G
<1>5. PICK new :
          /\ new \subseteq Possible(c) /\ series' = series \cup new /\ ~twice'
          /\ \A s \in new : Ancestral(s, c.id) /\ (~c.follow => \E k, m : Belongs(s, c.id, FALSE, k, m))
  BY <1>1, <1>2, <1>3, AnswerDistinct DEF Due
<1>6. 1 \in DOMAIN todo /\ c = todo[1] /\ Valid(cmds, sent, c)
  BY <1>1, <1>3, HeadFacts DEF RunInv
<1>7. IsCommand(c) /\ (c.next # <<>> => ~c.follow /\ IsCommand(c.next[1]) /\ c.next[1].next = <<>>)
  <2>1. collector \in DOMAIN Program
    BY DEF RunInv, Shape
  <2> QED
    BY <1>6, <2>1, ProgramFacts DEF Valid
<1>8. Proper(F)
  <2>1. \E n \in Nat : DOMAIN rows = 1..n
    BY <1>2, <1>7, RowsProper
  <2> QED
    BY <1>4, <1>7, <2>1, FollowersProper
<1>9. /\ \A x \in DOMAIN F : Fresh(F[x], series \cup new)
      /\ \A x, y \in DOMAIN F : x = y \/ Possible(F[x]) \cap Possible(F[y]) = {}
  <2>1. CASE c.next = <<>>
    <3>1. DOMAIN F = {}
      BY <1>4, <2>1, NothingToCome DEF FollowUps
    <3> QED
      BY <3>1
  <2>2. CASE c.next # <<>>
    <3>1. \A s \in new : \E k, m : Belongs(s, c.id, FALSE, k, m)
      BY <1>5, <1>7, <2>2
    <3> QED
      BY <1>2, <1>4, <1>6, <2>2, <3>1, FollowersFresh
  <2> QED
    BY <2>1, <2>2
<1>10. \A s \in new : \E i \in sent' : Ancestral(s, i)
  BY <1>3, <1>5
<1>11. sent \subseteq sent'
  BY <1>3
<1> QED
  BY <1>1, <1>3, <1>4, <1>5, <1>8, <1>9, <1>10, <1>11, DistinctStep

\* Every step keeps it.
LEMMA DistinctNext == RunInv /\ FitInv /\ DistinctInv /\ [Next]_vars => DistinctInv'
<1> SUFFICES ASSUME RunInv, FitInv, DistinctInv, [Next]_vars PROVE DistinctInv'
  OBVIOUS
<1>1. ASSUME Same, todo' = todo, series' = series, sent' = sent, twice' = twice
      PROVE  DistinctInv'
  <2>1. cmds' = cmds
    BY <1>1, SameProgram
  <2>2. \A e : /\ Possible(e)' = Possible(e) /\ (LikeWritten(e)' <=> LikeWritten(e))
               /\ \A i : Ancestral(e, i)' <=> Ancestral(e, i)
    BY <1>1, SameDistinct
  <2> QED
    BY <1>1, <2>1, <2>2 DEF DistinctInv
<1>2. CASE Refuse \/ Return
  <2>1. todo' = todo /\ sent' = sent /\ series' = series /\ twice' = twice
    BY <1>2 DEF Refuse, Return, results, history
  <2> QED
    BY <1>1, <1>2, <2>1 DEF Refuse, Return, Same
<1>3. CASE Start
  BY <1>3, DistinctStart
<1>4. CASE PassOver \/ CommandFails
  BY <1>4, DistinctLeft
<1>5. CASE CommandAnswered
  <2>1. pc' # "panicked"
    BY FitNext DEF FitInv
  <2> QED
    BY <1>5, <2>1, DistinctAnswered
<1>6. CASE UNCHANGED vars
  BY <1>1, <1>6 DEF vars, Same
<1> QED
  BY <1>2, <1>3, <1>4, <1>5, <1>6 DEF Next

\* No collector sends a series a second time in a scrape, which the registry would drop, over
\* all the commands it sends, whatever the number of rows and whatever they lack: as long as
\* rows differ in each property they have, an answer has each series once, and the commands
\* to come, follow-ups for each row among them, can send none that was sent.
THEOREM SeriesAlwaysDistinct == Spec => []SeriesDistinct
<1>1. DistinctInv => SeriesDistinct
  BY DEF DistinctInv, SeriesDistinct
<1> QED
  BY <1>1, RunInit, RunNext, FitInit, FitNext, DistinctInit, DistinctNext, PTL DEF Spec

=============================================================================
