--------------------------- MODULE ExporterProofs ---------------------------
(***************************************************************************)
(* Proofs about Exporter, for any HTTP clients, configured devices, SRV    *)
(* records and DNS answers: one goroutine at a time inside the collector   *)
(* of a device, Collect's WaitGroup, and what a response shows.            *)
(***************************************************************************)
EXTENDS Exporter, FiniteSetTheorems, TLAPS

\* What belongs to a scrape is kept for every client.
Kept ==
    /\ DOMAIN jobs = Scrapers /\ DOMAIN at = Scrapers /\ DOMAIN how = Scrapers
    /\ DOMAIN called = Scrapers /\ DOMAIN series = Scrapers /\ DOMAIN counters = Scrapers

Shape == TypeOK /\ Kept

\* One client at most is served; goroutines and what they sent exist only while Collect runs.
Collects(p) == pc[p] \in {"collect", "gathered"}
SlotInv ==
    /\ \A p, q \in Scrapers : pc[p] \in Serving /\ pc[q] \in Serving => p = q
    /\ \A p \in Scrapers :
           /\ pc[p] \in Idle => DOMAIN jobs[p] = {} /\ next[p] = 1
           /\ ~Collects(p) => DOMAIN at[p] = {} /\ series[p] = {} /\ counters[p] = {}
           /\ Collects(p) => DOMAIN at[p] = DOMAIN jobs[p] /\ next[p] = Len(devices) + 1

\* The goroutines of a scrape are finitely many, there is one for each configured device that
\* was passed, and it collects from that device; the others collect from targets.
JobsInv ==
    \A p \in Scrapers :
        /\ IsFiniteSet(DOMAIN jobs[p])
        /\ \A i \in 1..(next[p] - 1) : devices[i] \in Static => <<devices[i], 1>> \in DOMAIN jobs[p]
        /\ \A j \in DOMAIN jobs[p] : IF Own(j) THEN jobs[p][j] \in Targets ELSE jobs[p][j] = j[1]

\* The WaitGroup counts, so all goroutines are done when Wait returns.
CountInv == WaitGroupCounts /\ NoLateSend

\* The collector of a configured device is in use exactly when a goroutine is inside it.
DeviceFits(d) ==
    /\ \A p \in Scrapers :
           /\ IsAt(p, <<d, 1>>, "collecting") \/ IsAt(p, <<d, 1>>, "hung") => phase[d] = "running"
           /\ IsAt(p, <<d, 1>>, "ended") => phase[d] = "ended" /\ verdict[d] = how[p][<<d, 1>>]
    /\ phase[d] # "idle" => \E p \in Scrapers : Inside(p, d)
DeviceInv == \A d \in Static : DeviceFits(d)

\* A goroutine that is over has named its device as its verdict allows; what has been sent is
\* what the goroutines sent that have published and did not panic.
Sent(p, j) == j \in DOMAIN at[p] /\ at[p][j] \in {"published", "done"} /\ how[p][j] # "panic"
NamedOf(p) ==
    \A j \in DOMAIN at[p] :
        at[p][j] \in {"ended", "published", "done"} => called[p][j] \in NamesAfter(j, how[p][j])
SeriesOf(p) ==
    /\ \A s, r \in series[p] : s.target = r.target => s.value = r.value
    /\ \A s \in series[p] : \E j \in DOMAIN at[p] :
           Sent(p, j) /\ s.target = jobs[p][j] /\ s.value = Value(how[p][j])
    /\ \A j \in DOMAIN at[p] : Sent(p, j) => Known(p, jobs[p][j])
CountersOf(p) ==
    /\ \A c \in counters[p] : \E j \in DOMAIN at[p] :
           Sent(p, j) /\ c[1] = jobs[p][j] /\ c[2] = called[p][j]
    /\ \A j \in DOMAIN at[p] : Sent(p, j) => <<jobs[p][j], called[p][j]>> \in counters[p]
SentInv == \A p \in Scrapers : NamedOf(p) /\ SeriesOf(p) /\ CountersOf(p)

Inv == Shape /\ SlotInv /\ JobsInv /\ CountInv /\ DeviceInv /\ SentInv

----------------------------------------------------------------------------
\* Positions in the list of devices, and what a goroutine is.
LEMMA Constants ==
    /\ Len(devices) \in Nat /\ DOMAIN devices = 1..Len(devices)
    /\ \A i \in DOMAIN devices : devices[i] \in Static \/ devices[i] \in SrvRecords
    /\ Static \cap SrvRecords = {}
    /\ \A a \in Answers : DOMAIN a = 1..Len(a) /\ Len(a) \in Nat /\ \A k \in DOMAIN a : a[k] \in Targets
BY DevicesAssumption, TargetsAssumption DEF Static

\* The goroutine of a configured device is known by the device.
LEMMA JobOf ==
    ASSUME NEW j \in Job
    PROVE  /\ ~Own(j) => j[1] \in Static /\ j = <<j[1], 1>>
           /\ Own(j) => j[1] \in SrvRecords
BY DEF Job, Own, Static

\* A field of one goroutine is assigned: all others keep theirs.
LEMMA Assign ==
    ASSUME NEW S, NEW f, DOMAIN f = S, NEW p \in S, NEW j \in DOMAIN f[p], NEW x,
           NEW g, g = [f EXCEPT ![p][j] = x]
    PROVE  /\ DOMAIN g = S /\ \A q \in S : DOMAIN g[q] = DOMAIN f[q] /\ (q # p => g[q] = f[q])
           /\ g[p][j] = x
           /\ \A q \in S : \A i \in DOMAIN f[q] : q # p \/ i # j => g[q][i] = f[q][i]
OBVIOUS

\* What a step of a goroutine leaves alone.
Elsewhere(p, j) ==
    /\ UNCHANGED <<pc, next, jobs>>
    /\ DOMAIN at' = Scrapers /\ DOMAIN how' = Scrapers /\ DOMAIN called' = Scrapers
    /\ \A q \in Scrapers : /\ DOMAIN at'[q] = DOMAIN at[q] /\ DOMAIN how'[q] = DOMAIN how[q]
                           /\ DOMAIN called'[q] = DOMAIN called[q]
    /\ \A q \in Scrapers : q # p => at'[q] = at[q] /\ how'[q] = how[q] /\ called'[q] = called[q]
    /\ \A q \in Scrapers : \A i \in DOMAIN at[q] : q # p \/ i # j =>
           at'[q][i] = at[q][i] /\ how'[q][i] = how[q][i] /\ called'[q][i] = called[q][i]

\* How far such a step brings the goroutine, and what it changes of its own.
Moves(p, j) ==
    \/ at[p][j] = "ready" /\ at'[p][j] = "collecting" /\ UNCHANGED <<how, called>>
    \/ at[p][j] = "collecting" /\ at'[p][j] = "hung" /\ UNCHANGED <<how, called>>
    \/ at[p][j] = "hung" /\ at'[p][j] = "collecting" /\ UNCHANGED <<how, called>>
    \/ /\ at[p][j] = "collecting" /\ at'[p][j] = "ended" /\ how'[p][j] \in Verdicts
       /\ called'[p][j] \in NamesAfter(j, how'[p][j])
    \/ at[p][j] = "ended" /\ at'[p][j] = "published" /\ UNCHANGED <<how, called>>
    \/ at[p][j] = "published" /\ at'[p][j] = "done" /\ UNCHANGED <<how, called>>

Goroutine(p, j) == Run(p, j) \/ Hang(p, j) \/ Resume(p, j)

\* A step of a goroutine is one of these moves and changes no other goroutine.
LEMMA GoroutineStep ==
    ASSUME Shape, NEW p \in Scrapers, NEW j \in DOMAIN at[p], Goroutine(p, j)
    PROVE  Elsewhere(p, j) /\ Moves(p, j)
<1>1. /\ DOMAIN at = Scrapers /\ DOMAIN how = Scrapers /\ DOMAIN called = Scrapers
      /\ \A q \in Scrapers : DOMAIN how[q] = DOMAIN at[q] /\ DOMAIN called[q] = DOMAIN at[q]
  BY DEF Shape, Kept, TypeOK
<1>2. ASSUME NEW s, Goes(p, j, s)
      PROVE  /\ DOMAIN at' = Scrapers
             /\ \A q \in Scrapers : DOMAIN at'[q] = DOMAIN at[q] /\ (q # p => at'[q] = at[q])
             /\ at'[p][j] = s
             /\ \A q \in Scrapers : \A i \in DOMAIN at[q] : q # p \/ i # j => at'[q][i] = at[q][i]
  <2>1. at' = [at EXCEPT ![p][j] = s]
    BY <1>2 DEF Goes
  <2> QED
    BY <1>1, <2>1, Assign
<1>3. CASE Start(p, j) \/ Hang(p, j) \/ Resume(p, j) \/ Publish(p, j) \/ Done(p, j)
  <2>1. PICK s : Goes(p, j, s)
    BY <1>3 DEF Start, Hang, Resume, Publish, Done
  <2>2. UNCHANGED <<pc, next, jobs, how, called>>
    BY <1>3 DEF Start, Hang, Resume, Publish, Done, request
  <2>3. Elsewhere(p, j)
    BY <1>1, <1>2, <2>1, <2>2 DEF Elsewhere
  <2>4. Moves(p, j)
    <3>1. CASE Start(p, j)
      BY <1>2, <2>2, <3>1 DEF Start, IsAt, Moves
    <3>2. CASE Hang(p, j)
      BY <1>2, <2>2, <3>2 DEF Hang, IsAt, Moves
    <3>3. CASE Resume(p, j)
      BY <1>2, <2>2, <3>3 DEF Resume, IsAt, Moves
    <3>4. CASE Publish(p, j)
      BY <1>2, <2>2, <3>4 DEF Publish, IsAt, Moves
    <3>5. CASE Done(p, j)
      BY <1>2, <2>2, <3>5 DEF Done, MayBeDone, IsAt, Moves
    <3> QED
      BY <1>3, <3>1, <3>2, <3>3, <3>4, <3>5
  <2> QED
    BY <2>3, <2>4
<1>4. ASSUME NEW v \in Verdicts, Finish(p, j, v) PROVE Elsewhere(p, j) /\ Moves(p, j)
  <2>1. Goes(p, j, "ended") /\ at[p][j] = "collecting" /\ UNCHANGED <<pc, next, jobs>>
    BY <1>4 DEF Finish, IsAt, request
  <2>2. /\ DOMAIN how' = Scrapers
        /\ \A q \in Scrapers : DOMAIN how'[q] = DOMAIN how[q] /\ (q # p => how'[q] = how[q])
        /\ how'[p][j] = v
        /\ \A q \in Scrapers : \A i \in DOMAIN how[q] : q # p \/ i # j => how'[q][i] = how[q][i]
    <3>1. how' = [how EXCEPT ![p][j] = v]
      BY <1>4 DEF Finish
    <3> QED
      BY <1>1, <3>1, Assign
  <2>3. PICK n \in NamesAfter(j, v) : called' = [called EXCEPT ![p][j] = n]
    BY <1>4 DEF Finish
  <2>4. /\ DOMAIN called' = Scrapers
        /\ \A q \in Scrapers : DOMAIN called'[q] = DOMAIN called[q] /\ (q # p => called'[q] = called[q])
        /\ called'[p][j] = n
        /\ \A q \in Scrapers : \A i \in DOMAIN called[q] : q # p \/ i # j => called'[q][i] = called[q][i]
    BY <1>1, <2>3, Assign
  <2>5. Elsewhere(p, j)
    BY <1>1, <1>2, <2>1, <2>2, <2>4 DEF Elsewhere
  <2>6. Moves(p, j)
    BY <1>2, <2>1, <2>2, <2>3, <2>4 DEF Moves
  <2> QED
    BY <2>5, <2>6
<1> QED
  BY <1>3, <1>4 DEF Goroutine, Run

\* collectFromDevice sends one series and one counter, or nothing after a panic.
LEMMA PublishSends ==
    ASSUME Shape, NEW p \in Scrapers, NEW j \in DOMAIN at[p], Publish(p, j)
    PROVE  /\ DOMAIN series' = Scrapers /\ DOMAIN counters' = Scrapers
           /\ \A q \in Scrapers : q # p => series'[q] = series[q] /\ counters'[q] = counters[q]
           /\ how[p][j] = "panic" => series'[p] = series[p] /\ counters'[p] = counters[p]
           /\ how[p][j] # "panic" =>
                  counters'[p] = counters[p] \cup {<<jobs[p][j], called[p][j]>>}
           /\ how[p][j] # "panic" /\ Known(p, jobs[p][j]) => series'[p] = series[p]
           /\ how[p][j] # "panic" /\ ~Known(p, jobs[p][j]) =>
                  series'[p] = series[p] \cup {[target |-> jobs[p][j], value |-> Value(how[p][j])]}
<1>1. DOMAIN series = Scrapers /\ DOMAIN counters = Scrapers
  BY DEF Shape, Kept
<1>2. /\ how[p][j] = "panic" => Reported(how[p][j]) = {}
      /\ how[p][j] # "panic" => Reported(how[p][j]) = {Value(how[p][j])}
  BY DEF Reported
<1> DEFINE new == {[target |-> jobs[p][j], value |-> x] : x \in Reported(how[p][j])}
<1> DEFINE counted == {<<jobs[p][j], called[p][j]>> : x \in Reported(how[p][j])}
<1>3. /\ how[p][j] = "panic" => new = {} /\ counted = {}
      /\ how[p][j] # "panic" => /\ new = {[target |-> jobs[p][j], value |-> Value(how[p][j])]}
                                /\ counted = {<<jobs[p][j], called[p][j]>>}
  BY <1>2
<1>4. /\ series' = [series EXCEPT ![p] = IF Known(p, jobs[p][j]) THEN @ ELSE @ \cup new]
      /\ counters' = [counters EXCEPT ![p] = @ \cup counted]
  BY DEF Publish
<1> HIDE DEF new, counted
<1> QED
  BY <1>1, <1>3, <1>4

\* The collector of a configured device stays well formed.
DevicesTyped ==
    /\ phase \in [Static -> {"idle", "running", "ended"}]
    /\ errs \in [Static -> 0..MaxErrors] /\ exported \in [Static -> 0..MaxErrors]
    /\ verdict \in [Static -> Verdicts]
    /\ success \in [Static -> {"0", "1", "absent"}]

\* Steps of goroutines keep it so.
LEMMA DevicesTypedStep ==
    ASSUME Shape, NEW p \in Scrapers, NEW j \in DOMAIN at[p], Goroutine(p, j)
    PROVE  DevicesTyped'
<1>1. DevicesTyped /\ j \in Job
  BY DEF Shape, TypeOK, DevicesTyped
<1>2. ~Own(j) => j[1] \in Static
  BY <1>1, JobOf
<1>3. CASE Start(p, j)
  BY <1>1, <1>2, <1>3 DEF Start, DevicesTyped
<1>4. CASE Hang(p, j) \/ Resume(p, j) \/ Done(p, j)
  BY <1>1, <1>4 DEF Hang, Resume, Done, dc, DevicesTyped
<1>5. ASSUME NEW v \in Verdicts, Finish(p, j, v) PROVE DevicesTyped'
  <2>1. CASE Own(j)
    BY <1>1, <1>5, <2>1 DEF Finish, DevicesTyped
  <2>2. CASE ~Own(j)
    <3> DEFINE d == j[1]
    <3>1. d \in Static
      BY <1>2, <2>2
    <3>2. PICK k \in Dev(d)!ErrorsOf(v) : /\ errs[d] + k <= MaxErrors
                                          /\ errs' = [errs EXCEPT ![d] = @ + k]
      BY <1>5, <2>2 DEF Finish
    <3>3. k \in Nat
      BY NumbersAssumption DEF Dev!ErrorsOf, Verdicts
    <3>4. errs' \in [Static -> 0..MaxErrors]
      BY <1>1, <3>1, <3>2, <3>3, NumbersAssumption DEF DevicesTyped
    <3> QED
      BY <1>1, <1>5, <2>2, <3>1, <3>4 DEF Finish, DevicesTyped
  <2> QED
    BY <2>1, <2>2
<1>6. CASE Publish(p, j)
  BY <1>1, <1>2, <1>6 DEF Publish, dc, Value, DevicesTyped
<1> QED
  BY <1>3, <1>4, <1>5, <1>6 DEF Goroutine, Run

----------------------------------------------------------------------------
\* A step of the handler or of Collect itself, goroutines apart.
Serve(p) == Accept(p) \/ Refuse(p) \/ Collect(p)

\* All steps are of these two kinds.
LEMMA StepKinds ==
    ASSUME [Next]_vars
    PROVE  \/ UNCHANGED vars
           \/ \E p \in Scrapers : Serve(p) \/ \E j \in DOMAIN at[p] : Goroutine(p, j)
BY DEF Next, Serve, Goroutine

\* Collect expands one more entry of c.devices: js are the goroutines it adds.
Expands(p, js) ==
    /\ Expanding(p)
    /\ next' = [next EXCEPT ![p] = @ + 1]
    /\ DOMAIN jobs' = Scrapers /\ \A q \in Scrapers : q # p => jobs'[q] = jobs[q]
    /\ DOMAIN jobs'[p] = DOMAIN jobs[p] \cup DOMAIN js
    /\ \A j \in DOMAIN jobs'[p] : jobs'[p][j] = IF j \in DOMAIN js THEN js[j] ELSE jobs[p][j]
    /\ DOMAIN js \subseteq Job /\ IsFiniteSet(DOMAIN js)
    /\ \A j \in DOMAIN js : IF Own(j) THEN js[j] \in Targets ELSE js[j] = j[1]
    /\ Current(p) \in Static => <<Current(p), 1>> \in DOMAIN js
    /\ UNCHANGED <<pc, at, how, called, wg, series, counters, phase, errs, verdict, success, exported>>

\* A configured device is taken, a record is resolved, or its lookup fails.
LEMMA ExpandStep ==
    ASSUME Shape, NEW p \in Scrapers,
           AddConfigured(p) \/ LookupFails(p) \/ \E a \in Answers : AddResolved(p, a)
    PROVE  \E js : Expands(p, js)
<1>1. DOMAIN jobs = Scrapers /\ Expanding(p) /\ Current(p) = devices[next[p]]
  BY DEF Shape, Kept, AddConfigured, LookupFails, AddResolved, Current
<1>2. Current(p) \in Static \/ Current(p) \in SrvRecords
  BY <1>1, Constants DEF Expanding
<1>3. ASSUME NEW js, Extend(p, js)
      PROVE  /\ next' = [next EXCEPT ![p] = @ + 1]
             /\ DOMAIN jobs' = Scrapers /\ \A q \in Scrapers : q # p => jobs'[q] = jobs[q]
             /\ DOMAIN jobs'[p] = DOMAIN jobs[p] \cup DOMAIN js
             /\ \A j \in DOMAIN jobs'[p] : jobs'[p][j] = IF j \in DOMAIN js THEN js[j] ELSE jobs[p][j]
             /\ UNCHANGED <<pc, at, how, called, wg, series, counters, phase, errs, verdict,
                            success, exported>>
  BY <1>1, <1>3 DEF Extend, job, gathered, dc
<1>4. CASE AddConfigured(p)
  <2> DEFINE c == Current(p)
  <2> DEFINE js == [j \in {<<c, 1>>} |-> c]
  <2>1. c \in Static /\ Extend(p, js)
    BY <1>2, <1>4 DEF AddConfigured
  <2>2. DOMAIN js = {<<c, 1>>} /\ IsFiniteSet(DOMAIN js)
    BY FS_Singleton
  <2>3. <<c, 1>> \in Job /\ ~Own(<<c, 1>>) /\ js[<<c, 1>>] = c
    BY <2>1 DEF Job, Own
  <2> HIDE DEF c, js
  <2>4. Expands(p, js)
    BY <1>1, <1>3, <2>1, <2>2, <2>3 DEF Expands, c
  <2> QED
    BY <2>4
<1>5. CASE LookupFails(p)
  <2> DEFINE js == [j \in {} |-> 0]
  <2>1. DOMAIN js = {} /\ IsFiniteSet(DOMAIN js) /\ Current(p) \notin Static
    BY <1>5, FS_EmptySet DEF LookupFails, Static
  <2>2. Expands(p, js)
    BY <1>1, <1>5, <2>1 DEF LookupFails, AfterLookup, Expands, job, gathered, dc
  <2> QED
    BY <2>2
<1>6. ASSUME NEW a \in Answers, AddResolved(p, a) PROVE \E js : Expands(p, js)
  <2> DEFINE c == Current(p)
  <2> DEFINE js == [j \in {c} \X DOMAIN a |-> a[j[2]]]
  <2>1. c \in SrvRecords /\ c \notin Static /\ Extend(p, js)
    BY <1>6 DEF AddResolved, Static
  <2>2. DOMAIN a = 1..Len(a) /\ Len(a) \in Nat /\ \A k \in DOMAIN a : a[k] \in Targets
    BY Constants
  <2>3. DOMAIN js = {c} \X DOMAIN a /\ DOMAIN js \subseteq Job
    BY <2>1, <2>2 DEF Job
  <2>4. IsFiniteSet(DOMAIN js)
    <3>1. 1 \in Int /\ Len(a) \in Int
      BY <2>2
    <3>2. IsFiniteSet({c}) /\ IsFiniteSet(1..Len(a))
      BY <3>1, FS_Singleton, FS_Interval, Zenon
    <3> QED
      BY <2>2, <2>3, <3>2, FS_Product
  <2>5. \A j \in DOMAIN js : Own(j) /\ js[j] \in Targets
    BY <2>1, <2>2, <2>3 DEF Own
  <2>6. Current(p) \notin Static
    BY <2>1
  <2> HIDE DEF c, js
  <2>7. Expands(p, js)
    BY <1>1, <1>3, <2>1, <2>3, <2>4, <2>5, <2>6 DEF Expands
  <2> QED
    BY <2>7
<1> QED
  BY <1>4, <1>5, <1>6

\* The handler admits a client, refuses it, starts the goroutines, stops waiting, answers:
\* only what is kept for this client changes.
LEMMA ServeStep ==
    ASSUME Shape, NEW p \in Scrapers, Serve(p)
    PROVE  \/ /\ Accept(p) \/ Refuse(p) \/ Wait(p)
              /\ UNCHANGED <<next, jobs, at, how, called, wg, series, counters, phase, errs, verdict,
                             success, exported>>
           \/ \E js : Expands(p, js)
           \/ Launch(p)
           \/ Answer(p)
<1>1. CASE Accept(p) \/ Refuse(p) \/ Wait(p)
  BY <1>1 DEF Accept, Refuse, Wait, request, job, gathered, dc
<1>2. CASE AddConfigured(p) \/ LookupFails(p) \/ \E a \in Answers : AddResolved(p, a)
  BY <1>2, ExpandStep
<1> QED
  BY <1>1, <1>2 DEF Serve, Collect

\* Launch starts a goroutine for each device found.
LEMMA LaunchStep ==
    ASSUME Shape, NEW p \in Scrapers, Launch(p)
    PROVE  /\ pc[p] = "expand" /\ next[p] = Len(devices) + 1
           /\ pc' = [pc EXCEPT ![p] = "collect"] /\ wg' = [wg EXCEPT ![p] = Cardinality(DOMAIN jobs[p])]
           /\ DOMAIN at' = Scrapers /\ DOMAIN how' = Scrapers /\ DOMAIN called' = Scrapers
           /\ \A q \in Scrapers : q # p => at'[q] = at[q] /\ how'[q] = how[q] /\ called'[q] = called[q]
           /\ DOMAIN at'[p] = DOMAIN jobs[p] /\ DOMAIN how'[p] = DOMAIN jobs[p]
           /\ DOMAIN called'[p] = DOMAIN jobs[p]
           /\ \A j \in DOMAIN jobs[p] : at'[p][j] = "ready" /\ how'[p][j] = "success" /\ called'[p][j] = "own"
           /\ UNCHANGED <<next, jobs, series, counters, phase, errs, verdict, success, exported>>
BY DEF Launch, Added, Shape, Kept, gathered, dc

\* Answer drops Collect's locals.
LEMMA AnswerStep ==
    ASSUME Shape, NEW p \in Scrapers, Answer(p)
    PROVE  /\ pc[p] = "gathered" /\ pc' = [pc EXCEPT ![p] = "200"] /\ next' = [next EXCEPT ![p] = 1]
           /\ DOMAIN jobs' = Scrapers /\ DOMAIN at' = Scrapers /\ DOMAIN how' = Scrapers
           /\ DOMAIN called' = Scrapers /\ DOMAIN series' = Scrapers /\ DOMAIN counters' = Scrapers
           /\ \A q \in Scrapers : q # p => /\ jobs'[q] = jobs[q] /\ at'[q] = at[q] /\ how'[q] = how[q]
                                           /\ called'[q] = called[q] /\ series'[q] = series[q]
                                           /\ counters'[q] = counters[q]
           /\ DOMAIN jobs'[p] = {} /\ DOMAIN at'[p] = {} /\ DOMAIN how'[p] = {} /\ DOMAIN called'[p] = {}
           /\ series'[p] = {} /\ counters'[p] = {}
           /\ UNCHANGED <<wg, phase, errs, verdict, success, exported>>
BY DEF Answer, None, Shape, Kept, dc

----------------------------------------------------------------------------
\* At most one client is served, and what is kept for a client follows its request.
LEMMA SlotStep ==
    ASSUME Shape, SlotInv, [Next]_vars
    PROVE  SlotInv'
<1>1. DOMAIN pc = Scrapers /\ DOMAIN next = Scrapers /\ \A p \in Scrapers : pc[p] \in Idle \cup Serving
  BY DEF Shape, TypeOK
<1>2. CASE UNCHANGED vars
  BY <1>2 DEF vars, SlotInv, Collects
<1>3. ASSUME NEW p \in Scrapers, NEW j \in DOMAIN at[p], Goroutine(p, j) PROVE SlotInv'
  <2>1. /\ UNCHANGED <<pc, next, jobs>>
        /\ \A q \in Scrapers : DOMAIN at'[q] = DOMAIN at[q] /\ (q # p => at'[q] = at[q])
    BY <1>3, GoroutineStep DEF Elsewhere
  <2>2. pc[p] \in {"collect", "gathered"}
    BY DEF SlotInv, Collects
  <2>3. \A q \in Scrapers : q # p => series'[q] = series[q] /\ counters'[q] = counters[q]
    <3>1. CASE Publish(p, j)
      BY <3>1, PublishSends
    <3>2. CASE ~Publish(p, j)
      BY <1>3, <3>2 DEF Goroutine, Run, Start, Hang, Resume, Finish, Done, gathered
    <3> QED
      BY <3>1, <3>2
  <2> QED
    BY <2>1, <2>2, <2>3 DEF SlotInv, Collects
<1>4. ASSUME NEW p \in Scrapers, Serve(p) PROVE SlotInv'
  <2>1. CASE Accept(p)
    BY <1>1, <2>1 DEF Accept, SlotFree, SlotInv, Collects, Idle, Serving, request, job, gathered
  <2>2. CASE Refuse(p)
    BY <1>1, <2>2 DEF Refuse, SlotInv, Collects, Idle, Serving, request, job, gathered
  <2>3. CASE Wait(p)
    BY <1>1, <2>3 DEF Wait, SlotInv, Collects, Idle, Serving, request, job, gathered
  <2>4. ASSUME NEW js, Expands(p, js) PROVE SlotInv'
    BY <1>1, <2>4 DEF Expands, Expanding, SlotInv, Collects, Idle, Serving
  <2>5. CASE Launch(p)
    BY <1>1, <2>5, LaunchStep DEF SlotInv, Collects, Idle, Serving
  <2>6. CASE Answer(p)
    BY <1>1, <2>6, AnswerStep DEF SlotInv, Collects, Idle, Serving
  <2> QED
    BY <1>4, <2>1, <2>2, <2>3, <2>4, <2>5, <2>6, ServeStep
<1> QED
  BY <1>2, <1>3, <1>4, StepKinds

\* The loop over c.devices leaves no configured device out and adds finitely many targets.
LEMMA JobsStep ==
    ASSUME Shape, JobsInv, [Next]_vars
    PROVE  JobsInv'
<1>1. /\ DOMAIN next = Scrapers
      /\ \A p \in Scrapers : next[p] \in Nat /\ DOMAIN jobs[p] \subseteq Job
  BY Constants DEF Shape, TypeOK
<1>2. CASE UNCHANGED <<next, jobs>>
  BY <1>2 DEF JobsInv
<1>3. ASSUME NEW p \in Scrapers, NEW js, Expands(p, js) PROVE JobsInv'
  <2> SUFFICES ASSUME NEW q \in Scrapers
               PROVE  /\ IsFiniteSet(DOMAIN jobs'[q])
                      /\ \A i \in 1..(next'[q] - 1) :
                             devices[i] \in Static => <<devices[i], 1>> \in DOMAIN jobs'[q]
                      /\ \A j \in DOMAIN jobs'[q] :
                             IF Own(j) THEN jobs'[q][j] \in Targets ELSE jobs'[q][j] = j[1]
    BY DEF JobsInv
  <2>1. CASE q # p
    BY <1>1, <1>3, <2>1 DEF Expands, JobsInv
  <2>2. CASE q = p
    <3>1. IsFiniteSet(DOMAIN jobs'[p])
      <4>1. IsFiniteSet(DOMAIN jobs[p]) /\ IsFiniteSet(DOMAIN js)
        BY <1>3 DEF Expands, JobsInv
      <4>2. IsFiniteSet(DOMAIN jobs[p] \cup DOMAIN js)
        BY <4>1, FS_Union, Zenon
      <4> QED
        BY <1>3, <4>2 DEF Expands
    <3>2. ASSUME NEW i \in 1..(next'[p] - 1), devices[i] \in Static
          PROVE  <<devices[i], 1>> \in DOMAIN jobs'[p]
      <4>1. next'[p] = next[p] + 1 /\ (i = next[p] \/ i \in 1..(next[p] - 1))
        BY <1>1, <1>3 DEF Expands
      <4> QED
        BY <1>3, <3>2, <4>1 DEF Expands, Current, JobsInv
    <3>3. ASSUME NEW j \in DOMAIN jobs'[p]
          PROVE  IF Own(j) THEN jobs'[p][j] \in Targets ELSE jobs'[p][j] = j[1]
      BY <1>3 DEF Expands, JobsInv
    <3> QED
      BY <2>2, <3>1, <3>2, <3>3
  <2> QED
    BY <2>1, <2>2
<1>4. ASSUME NEW p \in Scrapers, Answer(p) PROVE JobsInv'
  <2>1. IsFiniteSet({})
    BY FS_EmptySet
  <2>2. DOMAIN jobs'[p] = {} /\ next'[p] = 1
    BY <1>1, <1>4, AnswerStep
  <2>3. \A q \in Scrapers : q # p => jobs'[q] = jobs[q] /\ next'[q] = next[q]
    BY <1>1, <1>4, AnswerStep
  <2>4. IsFiniteSet(DOMAIN jobs'[p])
    BY <2>1, <2>2, Zenon
  <2>5. \A i \in 1..(next'[p] - 1) : FALSE
    BY <2>2
  <2> SUFFICES ASSUME NEW q \in Scrapers
               PROVE  /\ IsFiniteSet(DOMAIN jobs'[q])
                      /\ \A i \in 1..(next'[q] - 1) :
                             devices[i] \in Static => <<devices[i], 1>> \in DOMAIN jobs'[q]
                      /\ \A j \in DOMAIN jobs'[q] :
                             IF Own(j) THEN jobs'[q][j] \in Targets ELSE jobs'[q][j] = j[1]
    BY DEF JobsInv
  <2>6. CASE q # p
    BY <2>3, <2>6 DEF JobsInv
  <2>7. CASE q = p
    BY <2>2, <2>4, <2>5, <2>7
  <2> QED
    BY <2>6, <2>7
<1>5. ASSUME NEW p \in Scrapers, Serve(p) PROVE JobsInv'
  BY <1>2, <1>3, <1>4, <1>5, ServeStep, LaunchStep
<1>6. ASSUME NEW p \in Scrapers, NEW j \in DOMAIN at[p], Goroutine(p, j) PROVE JobsInv'
  BY <1>2, <1>6, GoroutineStep DEF Elsewhere
<1> QED
  BY <1>2, <1>5, <1>6, StepKinds DEF vars

----------------------------------------------------------------------------
\* The goroutines that have not called wg.Done.
Running(p) == {j \in DOMAIN at[p] : at[p][j] # "done"}

\* They are finitely many.
LEMMA RunningFinite ==
    ASSUME Shape, JobsInv, NEW p \in Scrapers
    PROVE  IsFiniteSet(Running(p))
<1>1. Running(p) \subseteq DOMAIN jobs[p] /\ IsFiniteSet(DOMAIN jobs[p])
  BY DEF Running, Shape, TypeOK, JobsInv
<1> QED
  BY <1>1, FS_Subset

\* wg.Add counts all goroutines and wg.Done each of them once.
LEMMA CountStep ==
    ASSUME Shape, SlotInv, JobsInv, CountInv, [Next]_vars
    PROVE  CountInv' /\ wg' \in [Scrapers -> Nat]
<1>1. wg \in [Scrapers -> Nat] /\ DOMAIN pc = Scrapers /\ DOMAIN at = Scrapers
  BY DEF Shape, TypeOK, Kept
<1>2. \A p \in Scrapers : wg[p] = Cardinality(Running(p)) /\ IsFiniteSet(Running(p))
  BY RunningFinite DEF CountInv, WaitGroupCounts, Running
<1>3. ASSUME \A p \in Scrapers : wg'[p] = Cardinality(Running(p)') /\ wg'[p] \in Nat,
             DOMAIN wg' = Scrapers, wg' = [p \in Scrapers |-> wg'[p]],
             \A p \in Scrapers : pc'[p] = "gathered" => Running(p)' = {}
      PROVE  CountInv' /\ wg' \in [Scrapers -> Nat]
  <2>1. WaitGroupCounts'
    BY <1>3 DEF WaitGroupCounts, Running
  <2>2. NoLateSend'
    BY <1>3 DEF NoLateSend, Running
  <2> QED
    BY <1>3, <2>1, <2>2 DEF CountInv
<1>4. CASE UNCHANGED <<wg, at, pc>>
  BY <1>1, <1>4 DEF CountInv, WaitGroupCounts, NoLateSend
<1>5. \A p \in Scrapers : pc[p] = "gathered" => Running(p) = {}
  BY DEF CountInv, NoLateSend, Running
<1>6. ASSUME NEW p \in Scrapers, Accept(p) \/ Refuse(p) \/ Wait(p)
      PROVE  CountInv' /\ wg' \in [Scrapers -> Nat]
  <2>1. UNCHANGED <<wg, at>> /\ \A q \in Scrapers : Running(q)' = Running(q)
    BY <1>6 DEF Accept, Refuse, Wait, request, job, Running
  <2>2. \A q \in Scrapers : pc'[q] = "gathered" => pc[q] = "gathered" \/ (q = p /\ Wait(p))
    BY <1>1, <1>6 DEF Accept, Refuse, Wait
  <2>3. Wait(p) => Running(p) = {}
    <3>1. Wait(p) => wg[p] = 0
      BY DEF Wait, WaitedFor
    <3> QED
      BY <1>2, <3>1, FS_EmptySet
  <2> QED
    BY <1>1, <1>2, <1>3, <1>5, <2>1, <2>2, <2>3
<1>7. ASSUME NEW p \in Scrapers, Launch(p) PROVE CountInv' /\ wg' \in [Scrapers -> Nat]
  <2>1. Running(p)' = DOMAIN jobs[p] /\ \A q \in Scrapers : q # p => Running(q)' = Running(q)
    BY <1>7, LaunchStep DEF Running
  <2>2. Cardinality(DOMAIN jobs[p]) \in Nat
    BY FS_CardinalityType DEF JobsInv
  <2>3. wg' = [wg EXCEPT ![p] = Cardinality(DOMAIN jobs[p])] /\ pc' = [pc EXCEPT ![p] = "collect"]
    BY <1>7, LaunchStep
  <2> QED
    BY <1>1, <1>2, <1>3, <1>5, <2>1, <2>2, <2>3
<1>8. ASSUME NEW p \in Scrapers, Answer(p) PROVE CountInv' /\ wg' \in [Scrapers -> Nat]
  <2>1. Running(p)' = {} /\ \A q \in Scrapers : q # p => Running(q)' = Running(q)
    BY <1>8, AnswerStep DEF Running
  <2>2. wg' = wg /\ pc' = [pc EXCEPT ![p] = "200"] /\ Running(p) = {}
    BY <1>5, <1>8, AnswerStep
  <2> QED
    BY <1>1, <1>2, <1>3, <1>5, <2>1, <2>2
<1>9. ASSUME NEW p \in Scrapers, NEW j \in DOMAIN at[p], Goroutine(p, j)
      PROVE  CountInv' /\ wg' \in [Scrapers -> Nat]
  <2>1. Elsewhere(p, j) /\ Moves(p, j)
    BY <1>9, GoroutineStep
  <2>2. \A q \in Scrapers : q # p => Running(q)' = Running(q)
    BY <2>1 DEF Elsewhere, Running
  <2>3. j \in Running(p) /\ pc' = pc
    BY <2>1 DEF Moves, Elsewhere, Running
  <2>4. CASE Done(p, j)
    <3>1. Running(p)' = Running(p) \ {j}
      <4>1. at'[p][j] = "done"
        BY <1>1, <2>4 DEF Done, Goes
      <4> QED
        BY <2>1, <4>1 DEF Elsewhere, Running
    <3>2. Cardinality(Running(p) \ {j}) = Cardinality(Running(p)) - 1
      BY <1>2, <2>3, FS_RemoveElement
    <3>3. Cardinality(Running(p) \ {j}) \in Nat
      BY <1>2, FS_Difference, FS_CardinalityType, FS_RemoveElement
    <3>4. wg' = [wg EXCEPT ![p] = wg[p] - 1]
      BY <2>4 DEF Done
    <3> QED
      BY <1>1, <1>2, <1>3, <1>5, <2>2, <2>3, <3>1, <3>2, <3>3, <3>4
  <2>5. CASE ~Done(p, j)
    <3>1. wg' = wg /\ at'[p][j] # "done"
      <4>1. CASE Start(p, j)
        BY <1>1, <4>1 DEF Start, Goes, request
      <4>2. CASE Hang(p, j) \/ Resume(p, j)
        BY <1>1, <4>2 DEF Hang, Resume, Goes, request
      <4>3. CASE Publish(p, j)
        BY <1>1, <4>3 DEF Publish, Goes, request
      <4>4. ASSUME NEW v \in Verdicts, Finish(p, j, v) PROVE wg' = wg /\ at'[p][j] # "done"
        BY <1>1, <4>4 DEF Finish, Goes, request
      <4> QED
        BY <1>9, <2>5, <4>1, <4>2, <4>3, <4>4 DEF Goroutine, Run
    <3>2. Running(p)' = Running(p)
      BY <2>1, <2>3, <3>1 DEF Elsewhere, Running
    <3> QED
      BY <1>1, <1>2, <1>3, <1>5, <2>2, <2>3, <3>1, <3>2
  <2> QED
    BY <2>4, <2>5
<1>10. ASSUME NEW p \in Scrapers, NEW js, Expands(p, js) PROVE UNCHANGED <<wg, at, pc>>
  BY <1>10 DEF Expands
<1> QED
  BY <1>4, <1>6, <1>7, <1>8, <1>9, <1>10, StepKinds, ServeStep DEF vars

----------------------------------------------------------------------------
\* What is kept for one client is well formed.
ScrapeTyped(p) ==
    /\ pc[p] \in Idle \cup Serving /\ next[p] \in 1..Len(devices) + 1
    /\ DOMAIN jobs[p] \subseteq Job
    /\ \A j \in DOMAIN jobs[p] : jobs[p][j] \in Static \cup Targets
    /\ DOMAIN at[p] \subseteq DOMAIN jobs[p]
    /\ DOMAIN how[p] = DOMAIN at[p] /\ DOMAIN called[p] = DOMAIN at[p]
    /\ \A j \in DOMAIN at[p] :
           at[p][j] \in JobStates /\ how[p][j] \in Verdicts /\ called[p][j] \in Names
    /\ counters[p] \subseteq (Static \cup Targets) \X Names
    /\ \A s \in series[p] : s.target \in Static \cup Targets /\ s.value \in {"0", "1"}

\* The types, client by client.
LEMMA ScrapeTypedAll == Shape => \A p \in Scrapers : ScrapeTyped(p)
BY DEF Shape, TypeOK, ScrapeTyped

\* Names a goroutine may give its device are names.
LEMMA NamesTyped == ASSUME NEW j, NEW v PROVE NamesAfter(j, v) \subseteq Names
BY DEF NamesAfter, Names

\* Every step keeps the types; for the counter of the WaitGroup see CountStep.
LEMMA ShapeStep ==
    ASSUME Inv, [Next]_vars
    PROVE  Shape'
<1> USE DEF Inv
<1>1. /\ DOMAIN pc = Scrapers /\ DOMAIN next = Scrapers /\ DevicesTyped /\ Kept
      /\ \A p \in Scrapers : ScrapeTyped(p)
  BY ScrapeTypedAll DEF Shape, TypeOK, DevicesTyped
<1>2. wg' \in [Scrapers -> Nat]
  BY CountStep
<1>3. ASSUME Kept', DevicesTyped', pc' = [p \in Scrapers |-> pc'[p]],
             next' = [p \in Scrapers |-> next'[p]], \A p \in Scrapers : ScrapeTyped(p)'
      PROVE  Shape'
  <2>1. pc' \in [Scrapers -> Idle \cup Serving] /\ next' \in [Scrapers -> 1..Len(devices) + 1]
    BY <1>3 DEF ScrapeTyped
  <2> QED
    BY <1>2, <1>3, <2>1 DEF Shape, TypeOK, DevicesTyped, ScrapeTyped
<1>4. CASE UNCHANGED vars
  BY <1>4 DEF vars, Shape, TypeOK, Kept
<1>5. pc = [p \in Scrapers |-> pc[p]] /\ next = [p \in Scrapers |-> next[p]]
  BY DEF Shape, TypeOK
<1>6. ASSUME NEW p \in Scrapers, Accept(p) \/ Refuse(p) \/ Wait(p) PROVE Shape'
  <2>1. UNCHANGED <<next, jobs, at, how, called, series, counters, phase, errs, verdict, success, exported>>
    BY <1>6 DEF Accept, Refuse, Wait, request, job, gathered, dc
  <2>2. PICK x \in Idle \cup Serving : pc' = [pc EXCEPT ![p] = x]
    BY <1>6 DEF Accept, Refuse, Wait, Idle, Serving
  <2>3. Kept' /\ DevicesTyped'
    BY <1>1, <2>1 DEF Kept, DevicesTyped
  <2>4. \A q \in Scrapers : ScrapeTyped(q)'
    BY <1>1, <2>1, <2>2 DEF ScrapeTyped
  <2> QED
    BY <1>1, <1>3, <1>5, <2>1, <2>2, <2>3, <2>4
<1>7. ASSUME NEW p \in Scrapers, NEW js, Expands(p, js) PROVE Shape'
  <2>1. Kept' /\ DevicesTyped'
    BY <1>1, <1>7 DEF Expands, Kept, DevicesTyped
  <2>2. ASSUME NEW q \in Scrapers, q # p PROVE ScrapeTyped(q)'
    BY <1>1, <1>7, <2>2 DEF Expands, ScrapeTyped
  <2>3. ScrapeTyped(p)'
    <3>1. next'[p] \in 1..Len(devices) + 1
      BY <1>1, <1>7, Constants DEF Expands, Expanding
    <3>2. \A j \in DOMAIN js : js[j] \in Static \cup Targets
      <4>1. \A j \in DOMAIN js : j \in Job /\ IF Own(j) THEN js[j] \in Targets ELSE js[j] = j[1]
        BY <1>7 DEF Expands
      <4> QED
        BY <4>1, JobOf
    <3> QED
      BY <1>1, <1>7, <3>1, <3>2 DEF Expands, ScrapeTyped
  <2>4. pc' = pc /\ next' = [q \in Scrapers |-> next'[q]]
    BY <1>1, <1>7 DEF Expands
  <2> QED
    BY <1>3, <1>5, <2>1, <2>2, <2>3, <2>4
<1>8. ASSUME NEW p \in Scrapers, Launch(p) PROVE Shape'
  <2>1. Kept' /\ DevicesTyped'
    BY <1>1, <1>8, LaunchStep DEF Kept, DevicesTyped
  <2>2. ASSUME NEW q \in Scrapers, q # p PROVE ScrapeTyped(q)'
    BY <1>1, <1>8, <2>2, LaunchStep DEF ScrapeTyped
  <2>3. ScrapeTyped(p)'
    <3>1. "collect" \in Serving /\ "ready" \in JobStates /\ "success" \in Verdicts /\ "own" \in Names
      BY DEF Serving, JobStates, Verdicts, Names
    <3> QED
      BY <1>1, <1>8, <3>1, LaunchStep DEF ScrapeTyped
  <2>4. pc' = [q \in Scrapers |-> pc'[q]] /\ next' = next
    BY <1>1, <1>8, LaunchStep
  <2> QED
    BY <1>3, <1>5, <2>1, <2>2, <2>3, <2>4
<1>9. ASSUME NEW p \in Scrapers, Answer(p) PROVE Shape'
  <2>1. Kept' /\ DevicesTyped'
    BY <1>1, <1>9, AnswerStep DEF Kept, DevicesTyped
  <2>2. ASSUME NEW q \in Scrapers, q # p PROVE ScrapeTyped(q)'
    <3>1. /\ UNCHANGED <<pc[q], next[q], jobs[q], at[q], how[q], called[q], series[q], counters[q]>>
      BY <1>1, <1>9, <2>2, AnswerStep
    <3> QED
      BY <1>1, <3>1 DEF ScrapeTyped
  <2>3. ScrapeTyped(p)'
    <3>1. "200" \in Idle /\ 1 \in 1..Len(devices) + 1
      BY Constants DEF Idle
    <3> QED
      BY <1>1, <1>9, <3>1, AnswerStep DEF ScrapeTyped
  <2>4. pc' = [q \in Scrapers |-> pc'[q]] /\ next' = [q \in Scrapers |-> next'[q]]
    BY <1>1, <1>9, AnswerStep
  <2> QED
    BY <1>3, <2>1, <2>2, <2>3, <2>4
<1>10. ASSUME NEW p \in Scrapers, NEW j \in DOMAIN at[p], Goroutine(p, j) PROVE Shape'
  <2>1. Elsewhere(p, j) /\ Moves(p, j) /\ DevicesTyped'
    BY <1>10, GoroutineStep, DevicesTypedStep
  <2>2. /\ DOMAIN series' = Scrapers /\ DOMAIN counters' = Scrapers
        /\ \A q \in Scrapers : q # p => series'[q] = series[q] /\ counters'[q] = counters[q]
        /\ counters'[p] \subseteq (Static \cup Targets) \X Names
        /\ \A s \in series'[p] : s.target \in Static \cup Targets /\ s.value \in {"0", "1"}
    <3>1. CASE Publish(p, j)
      <4>1. <<jobs[p][j], called[p][j]>> \in (Static \cup Targets) \X Names
        BY <1>1 DEF ScrapeTyped
      <4>2. Value(how[p][j]) \in {"0", "1"}
        BY DEF Value
      <4>3. counters'[p] \subseteq (Static \cup Targets) \X Names
        BY <1>1, <3>1, <4>1, PublishSends DEF ScrapeTyped
      <4>4. ASSUME NEW s \in series'[p] PROVE s.target \in Static \cup Targets /\ s.value \in {"0", "1"}
        <5>1. s \in series[p] \/ s = [target |-> jobs[p][j], value |-> Value(how[p][j])]
          BY <3>1, <4>4, PublishSends
        <5>2. jobs[p][j] \in Static \cup Targets
          BY <1>1 DEF ScrapeTyped
        <5> QED
          BY <1>1, <4>2, <5>1, <5>2 DEF ScrapeTyped
      <4> QED
        BY <3>1, <4>3, <4>4, PublishSends
    <3>2. CASE ~Publish(p, j)
      <4>1. UNCHANGED <<series, counters>>
        BY <1>10, <3>2 DEF Goroutine, Run, Start, Hang, Resume, Finish, Done, gathered
      <4> QED
        BY <1>1, <4>1 DEF Kept, ScrapeTyped
    <3> QED
      BY <3>1, <3>2
  <2>3. Kept'
    BY <1>1, <2>1, <2>2 DEF Kept, Elsewhere
  <2>4. ASSUME NEW q \in Scrapers, q # p PROVE ScrapeTyped(q)'
    BY <1>1, <2>1, <2>2, <2>4 DEF Elsewhere, ScrapeTyped
  <2>5. ScrapeTyped(p)'
    <3>1. at'[p][j] \in JobStates /\ how'[p][j] \in Verdicts /\ called'[p][j] \in Names
      BY <1>1, <2>1, NamesTyped DEF Moves, JobStates, ScrapeTyped
    <3> QED
      BY <1>1, <2>1, <2>2, <3>1 DEF Elsewhere, ScrapeTyped
  <2> QED
    BY <1>3, <1>5, <2>1, <2>3, <2>4, <2>5 DEF Elsewhere
<1> QED
  BY <1>4, <1>6, <1>7, <1>8, <1>9, <1>10, StepKinds, ServeStep

----------------------------------------------------------------------------
\* Only the scrape that is being served has goroutines.
LEMMA OthersIdle ==
    ASSUME Shape, SlotInv, NEW p \in Scrapers, DOMAIN at[p] # {}, NEW q \in Scrapers, q # p
    PROVE  DOMAIN at[q] = {}
<1>1. pc[p] \in Serving
  BY DEF SlotInv, Collects, Serving
<1>2. pc[q] \notin Serving
  BY <1>1 DEF SlotInv
<1> QED
  BY <1>2 DEF SlotInv, Collects, Serving

\* A goroutine that is not inside finds the collector of its device idle.
LEMMA IdleOutside ==
    ASSUME Shape, SlotInv, NEW d \in Static, DeviceFits(d), NEW p \in Scrapers,
           <<d, 1>> \in DOMAIN at[p], at[p][<<d, 1>>] \in {"ready", "published", "done"}
    PROVE  phase[d] = "idle"
<1> SUFFICES ASSUME phase[d] # "idle" PROVE FALSE
  OBVIOUS
<1>1. PICK q \in Scrapers : Inside(q, d)
  BY DEF DeviceFits
<1>2. <<d, 1>> \in DOMAIN at[q] /\ at[q][<<d, 1>>] \in {"collecting", "hung", "ended"}
  BY <1>1 DEF Inside, IsAt
<1>3. q = p
  BY <1>2, OthersIdle
<1> QED
  BY <1>2, <1>3

\* A device nobody moves to, in or out of keeps its relation to the goroutines.
LEMMA DeviceKept ==
    ASSUME NEW d \in Static, DeviceFits(d), UNCHANGED <<phase[d], verdict[d]>>,
           \A q \in Scrapers : \A s \in {"collecting", "hung", "ended"} :
               IsAt(q, <<d, 1>>, s)' <=> IsAt(q, <<d, 1>>, s),
           \A q \in Scrapers : IsAt(q, <<d, 1>>, "ended") => how'[q][<<d, 1>>] = how[q][<<d, 1>>]
    PROVE  DeviceFits(d)'
<1>1. \A q \in Scrapers : Inside(q, d)' <=> Inside(q, d)
  BY DEF Inside
<1>2. \A q \in Scrapers :
          /\ (IsAt(q, <<d, 1>>, "collecting") \/ IsAt(q, <<d, 1>>, "hung"))' => phase'[d] = "running"
          /\ IsAt(q, <<d, 1>>, "ended")' => phase'[d] = "ended" /\ verdict'[d] = how'[q][<<d, 1>>]
  BY DEF DeviceFits
<1>3. phase'[d] # "idle" => \E q \in Scrapers : Inside(q, d)'
  BY <1>1 DEF DeviceFits
<1> QED
  BY <1>2, <1>3 DEF DeviceFits

\* A goroutine changes the collector of its own device only.
LEMMA OtherDevice ==
    ASSUME Shape, NEW p \in Scrapers, NEW j \in DOMAIN at[p], Goroutine(p, j),
           NEW d \in Static, j # <<d, 1>>
    PROVE  UNCHANGED <<phase[d], errs[d], verdict[d], success[d], exported[d]>>
<1>1. j \in Job /\ DevicesTyped
  BY DEF Shape, TypeOK, DevicesTyped
<1>2. ~Own(j) => j[1] \in Static /\ j[1] # d
  BY <1>1, JobOf
<1>3. CASE Start(p, j)
  BY <1>1, <1>2, <1>3 DEF Start, DevicesTyped
<1>4. CASE Hang(p, j) \/ Resume(p, j) \/ Done(p, j)
  BY <1>4 DEF Hang, Resume, Done, dc
<1>5. ASSUME NEW v \in Verdicts, Finish(p, j, v)
      PROVE  UNCHANGED <<phase[d], errs[d], verdict[d], success[d], exported[d]>>
  BY <1>1, <1>2, <1>5 DEF Finish, DevicesTyped
<1>6. CASE Publish(p, j)
  BY <1>1, <1>2, <1>6 DEF Publish, dc, DevicesTyped
<1> QED
  BY <1>3, <1>4, <1>5, <1>6 DEF Goroutine, Run

\* Its own device goes through the phases with the goroutine.
LEMMA OwnDevice ==
    ASSUME Shape, SlotInv, NEW p \in Scrapers, NEW d \in Static, DeviceFits(d),
           <<d, 1>> \in DOMAIN at[p], Goroutine(p, <<d, 1>>)
    PROVE  DeviceFits(d)' /\ (Dev(d)!Next \/ UNCHANGED Dev(d)!vars)
<1> DEFINE j == <<d, 1>>
<1>1. ~Own(j) /\ j[1] = d /\ DevicesTyped /\ how[p][j] \in Verdicts /\ DOMAIN at = Scrapers
  BY DEF Own, Shape, Kept, TypeOK, DevicesTyped
<1>2. Elsewhere(p, j) /\ Moves(p, j)
  BY GoroutineStep
<1>3. \A q \in Scrapers : q # p => j \notin DOMAIN at'[q]
  BY <1>2, OthersIdle DEF Elsewhere
<1>4. j \in DOMAIN at'[p]
  BY <1>2 DEF Elsewhere
<1>5. ASSUME \/ at'[p][j] \in {"collecting", "hung"} /\ phase'[d] = "running"
             \/ at'[p][j] = "ended" /\ phase'[d] = "ended" /\ verdict'[d] = how'[p][j]
             \/ at'[p][j] \in {"published", "done"} /\ phase'[d] = "idle"
      PROVE  DeviceFits(d)'
  <2>1. \A q \in Scrapers : \A s : IsAt(q, j, s)' <=> q = p /\ at'[p][j] = s
    BY <1>3, <1>4 DEF IsAt
  <2>2. Inside(p, d)' <=> at'[p][j] \in {"collecting", "hung", "ended"}
    BY <2>1 DEF Inside
  <2> HIDE DEF j
  <2>3. \A q \in Scrapers :
            /\ (IsAt(q, j, "collecting") \/ IsAt(q, j, "hung"))' => phase'[d] = "running"
            /\ IsAt(q, j, "ended")' => phase'[d] = "ended" /\ verdict'[d] = how'[q][j]
    BY <1>5, <2>1
  <2>4. phase'[d] # "idle" => Inside(p, d)'
    BY <1>5, <2>2
  <2> QED
    BY <2>3, <2>4 DEF DeviceFits, j
<1> USE DEF Dev!Next, Dev!vars, Dev!Start, Dev!Publish, Dev!Finish
<1>6. CASE Start(p, j)
  <2>1. phase[d] = "idle"
    BY <1>6, IdleOutside DEF Start, IsAt
  <2>2. phase'[d] = "running" /\ at'[p][j] = "collecting" /\ UNCHANGED <<errs, verdict, success, exported>>
    BY <1>1, <1>6 DEF Start, Goes, DevicesTyped
  <2> QED
    BY <1>5, <2>1, <2>2
<1>7. CASE Hang(p, j) \/ Resume(p, j)
  <2>1. phase[d] = "running"
    BY <1>7 DEF Hang, Resume, IsAt, DeviceFits
  <2>2. at'[p][j] \in {"collecting", "hung"} /\ UNCHANGED <<phase, errs, verdict, success, exported>>
    BY <1>1, <1>7 DEF Hang, Resume, Goes, dc
  <2> QED
    BY <1>5, <2>1, <2>2
<1>8. ASSUME NEW v \in Verdicts, Finish(p, j, v)
      PROVE  DeviceFits(d)' /\ (Dev(d)!Next \/ UNCHANGED Dev(d)!vars)
  <2>1. phase[d] = "running"
    BY <1>8 DEF Finish, IsAt, DeviceFits
  <2>2. phase'[d] = "ended" /\ verdict'[d] = v /\ at'[p][j] = "ended" /\ UNCHANGED <<success, exported>>
    BY <1>1, <1>8 DEF Finish, Goes, DevicesTyped
  <2>3. how'[p][j] = v
    <3>1. how' = [how EXCEPT ![p][j] = v] /\ DOMAIN how = Scrapers /\ j \in DOMAIN how[p]
      BY <1>8 DEF Finish, Shape, Kept, TypeOK
    <3> QED
      BY <3>1, Assign
  <2>4. \E k \in Dev(d)!ErrorsOf(v) : errs'[d] = errs[d] + k
    BY <1>1, <1>8 DEF Finish, DevicesTyped
  <2>5. Dev(d)!Finish(v)
    BY <2>1, <2>2, <2>4
  <2>6. v \in Dev(d)!Verdicts
    BY DEF Verdicts, Dev!Verdicts
  <2> QED
    BY <1>5, <2>2, <2>3, <2>5, <2>6
<1>9. CASE Publish(p, j)
  <2>1. phase[d] = "ended" /\ verdict[d] = how[p][j]
    BY <1>9 DEF Publish, IsAt, DeviceFits
  <2>2. /\ phase'[d] = "idle" /\ at'[p][j] = "published" /\ UNCHANGED <<errs, verdict>>
        /\ success'[d] = IF how[p][j] = "panic" THEN "absent" ELSE Value(how[p][j])
        /\ exported'[d] = IF how[p][j] = "panic" THEN exported[d] ELSE errs[d]
    BY <1>1, <1>9 DEF Publish, Goes, DevicesTyped
  <2>3. Dev(d)!Publish
    BY <1>1, <2>1, <2>2 DEF Value, Verdicts
  <2> QED
    BY <1>5, <2>2, <2>3
<1>10. CASE Done(p, j)
  <2>1. phase[d] = "idle"
    BY <1>10, IdleOutside DEF Done, MayBeDone, IsAt
  <2>2. at'[p][j] = "done" /\ UNCHANGED <<phase, errs, verdict, success, exported>>
    BY <1>1, <1>10 DEF Done, Goes, dc
  <2> QED
    BY <1>5, <2>1, <2>2
<1> QED
  BY <1>6, <1>7, <1>8, <1>9, <1>10 DEF Goroutine, Run

\* Handler and Collect leave the collectors of the devices alone; a goroutine is not inside one
\* when it is launched or when the scrape is over.
LEMMA ServeDevices ==
    ASSUME Inv, NEW p \in Scrapers, Serve(p), NEW d \in Static
    PROVE  DeviceFits(d)' /\ UNCHANGED Dev(d)!vars
<1> USE DEF Inv
<1>1. UNCHANGED <<phase, errs, verdict, success, exported>>
  BY ServeStep, LaunchStep, AnswerStep DEF Expands
<1>2. UNCHANGED Dev(d)!vars
  BY <1>1 DEF Dev!vars
<1>3. /\ \A q \in Scrapers : \A s \in {"collecting", "hung", "ended"} :
             IsAt(q, <<d, 1>>, s)' <=> IsAt(q, <<d, 1>>, s)
      /\ \A q \in Scrapers : IsAt(q, <<d, 1>>, "ended") => how'[q][<<d, 1>>] = how[q][<<d, 1>>]
  <2>1. CASE UNCHANGED <<at, how>>
    BY <2>1 DEF IsAt
  <2>2. CASE Launch(p)
    <3>1. DOMAIN at[p] = {} /\ \A j \in DOMAIN at'[p] : at'[p][j] = "ready"
      BY <2>2, LaunchStep DEF SlotInv, Collects
    <3>2. \A q \in Scrapers : q # p => at'[q] = at[q] /\ how'[q] = how[q]
      BY <2>2, LaunchStep
    <3> QED
      BY <3>1, <3>2 DEF IsAt
  <2>3. CASE Answer(p)
    <3>1. DOMAIN at'[p] = {} /\ \A j \in DOMAIN at[p] : at[p][j] = "done"
      BY <2>3, AnswerStep DEF CountInv, NoLateSend
    <3>2. \A q \in Scrapers : q # p => at'[q] = at[q] /\ how'[q] = how[q]
      BY <2>3, AnswerStep
    <3> QED
      BY <3>1, <3>2 DEF IsAt
  <2> QED
    BY <2>1, <2>2, <2>3, ServeStep DEF Expands
<1>4. DeviceFits(d)'
  BY <1>1, <1>3, DeviceKept DEF DeviceInv
<1> QED
  BY <1>2, <1>4

\* Every step keeps the relation, and is for each device a step its contract knows, or none.
LEMMA DeviceStep ==
    ASSUME Inv, [Next]_vars, NEW d \in Static
    PROVE  DeviceFits(d)' /\ (Dev(d)!Next \/ UNCHANGED Dev(d)!vars)
<1> USE DEF Inv
<1>1. DeviceFits(d)
  BY DEF DeviceInv
<1>2. CASE UNCHANGED vars
  BY <1>1, <1>2 DEF vars, DeviceFits, Inside, IsAt, Dev!vars
<1>3. ASSUME NEW p \in Scrapers, Serve(p) PROVE DeviceFits(d)' /\ UNCHANGED Dev(d)!vars
  BY <1>3, ServeDevices
<1>4. ASSUME NEW p \in Scrapers, NEW j \in DOMAIN at[p], Goroutine(p, j)
      PROVE  DeviceFits(d)' /\ (Dev(d)!Next \/ UNCHANGED Dev(d)!vars)
  <2>1. CASE j = <<d, 1>>
    BY <1>1, <1>4, <2>1, OwnDevice
  <2>2. CASE j # <<d, 1>>
    <3>1. UNCHANGED <<phase[d], errs[d], verdict[d], success[d], exported[d]>>
      BY <1>4, <2>2, OtherDevice
    <3>2. \A q \in Scrapers : /\ DOMAIN at'[q] = DOMAIN at[q]
                              /\ \A i \in DOMAIN at[q] : i # j => /\ at'[q][i] = at[q][i]
                                                                  /\ how'[q][i] = how[q][i]
      BY <1>4, GoroutineStep DEF Elsewhere
    <3>3. /\ \A q \in Scrapers : \A s \in {"collecting", "hung", "ended"} :
                 IsAt(q, <<d, 1>>, s)' <=> IsAt(q, <<d, 1>>, s)
          /\ \A q \in Scrapers : IsAt(q, <<d, 1>>, "ended") => how'[q][<<d, 1>>] = how[q][<<d, 1>>]
      BY <2>2, <3>2 DEF IsAt
    <3>4. DeviceFits(d)'
      BY <1>1, <3>1, <3>3, DeviceKept
    <3> QED
      BY <3>1, <3>4 DEF Dev!vars
  <2> QED
    BY <2>1, <2>2
<1> QED
  BY <1>2, <1>3, <1>4, StepKinds

----------------------------------------------------------------------------
\* A scrape in which nothing is published, and nobody who has published moves but to be done.
LEMMA SentKept ==
    ASSUME NEW p \in Scrapers, SeriesOf(p), CountersOf(p),
           UNCHANGED <<series[p], counters[p], jobs[p]>>, DOMAIN at'[p] = DOMAIN at[p],
           \A j \in DOMAIN at[p] : Sent(p, j)' <=> Sent(p, j),
           \A j \in DOMAIN at[p] : Sent(p, j) => how'[p][j] = how[p][j] /\ called'[p][j] = called[p][j]
    PROVE  SeriesOf(p)' /\ CountersOf(p)'
<1>1. \A t : Known(p, t)' <=> Known(p, t)
  BY DEF Known
<1>2. \A s \in series'[p] : \E j \in DOMAIN at'[p] :
          Sent(p, j)' /\ s.target = jobs'[p][j] /\ s.value = Value(how'[p][j])
  BY DEF SeriesOf
<1>3. SeriesOf(p)'
  BY <1>1, <1>2 DEF SeriesOf, Value
<1>4. CountersOf(p)'
  BY DEF CountersOf
<1> QED
  BY <1>3, <1>4

\* A goroutine publishes: its series is the first of its target or left out.
LEMMA PublishSent ==
    ASSUME Shape, NEW p \in Scrapers, NEW j \in DOMAIN at[p], Publish(p, j), SeriesOf(p), CountersOf(p)
    PROVE  SeriesOf(p)' /\ CountersOf(p)'
<1>1. /\ UNCHANGED <<jobs, how, called>> /\ DOMAIN at'[p] = DOMAIN at[p]
      /\ at[p][j] = "ended" /\ at'[p][j] = "published"
      /\ \A i \in DOMAIN at[p] : i # j => at'[p][i] = at[p][i]
  <2>1. Elsewhere(p, j)
    BY GoroutineStep DEF Goroutine, Run
  <2>2. at'[p][j] = "published" /\ at[p][j] = "ended"
    BY DEF Publish, Goes, IsAt, Shape, Kept
  <2> QED
    BY <2>1, <2>2 DEF Elsewhere, Publish, request
<1>2. /\ \A i \in DOMAIN at[p] : i # j => (Sent(p, i)' <=> Sent(p, i))
      /\ ~Sent(p, j) /\ (Sent(p, j)' <=> how[p][j] # "panic")
  BY <1>1 DEF Sent
<1>3. CASE how[p][j] = "panic"
  BY <1>1, <1>2, <1>3, SentKept, PublishSends
<1>4. CASE how[p][j] # "panic"
  <2> DEFINE t == jobs[p][j]
  <2> DEFINE new == [target |-> t, value |-> Value(how[p][j])]
  <2>1. /\ counters'[p] = counters[p] \cup {<<t, called[p][j]>>}
        /\ Known(p, t) => series'[p] = series[p]
        /\ ~Known(p, t) => series'[p] = series[p] \cup {new}
    BY <1>4, PublishSends
  <2>2. new.target = t /\ new.value = Value(how[p][j])
    OBVIOUS
  <2> HIDE DEF new, t
  <2>3. \A x : Known(p, x)' <=> Known(p, x) \/ x = t
    BY <2>1, <2>2 DEF Known
  <2>4. \A s, r \in series'[p] : s.target = r.target => s.value = r.value
    BY <2>1, <2>2 DEF SeriesOf, Known
  <2>5. ASSUME NEW s \in series'[p]
        PROVE  \E i \in DOMAIN at'[p] :
                   Sent(p, i)' /\ s.target = jobs'[p][i] /\ s.value = Value(how'[p][i])
    <3>1. CASE s \in series[p]
      <4>1. PICK i \in DOMAIN at[p] : Sent(p, i) /\ s.target = jobs[p][i] /\ s.value = Value(how[p][i])
        BY <3>1 DEF SeriesOf
      <4>2. i # j
        BY <1>2, <4>1
      <4> QED
        BY <1>1, <1>2, <4>1, <4>2
    <3>2. CASE s = new
      BY <1>1, <1>2, <1>4, <2>2, <3>2 DEF t
    <3> QED
      BY <2>1, <2>5, <3>1, <3>2
  <2>6. \A i \in DOMAIN at'[p] : Sent(p, i)' => Known(p, jobs[p][i])'
    BY <1>1, <1>2, <2>3 DEF SeriesOf, t
  <2>7. SeriesOf(p)'
    BY <2>4, <2>5, <2>6 DEF SeriesOf, Value
  <2>8. ASSUME NEW c \in counters'[p]
        PROVE  \E i \in DOMAIN at'[p] : Sent(p, i)' /\ c[1] = jobs'[p][i] /\ c[2] = called'[p][i]
    <3>1. CASE c \in counters[p]
      <4>1. PICK i \in DOMAIN at[p] : Sent(p, i) /\ c[1] = jobs[p][i] /\ c[2] = called[p][i]
        BY <3>1 DEF CountersOf
      <4>2. i # j
        BY <1>2, <4>1
      <4> QED
        BY <1>1, <1>2, <4>1, <4>2
    <3>2. CASE c = <<t, called[p][j]>>
      BY <1>1, <1>2, <1>4, <3>2 DEF t
    <3> QED
      BY <2>1, <2>8, <3>1, <3>2
  <2>9. \A i \in DOMAIN at'[p] : Sent(p, i)' => <<jobs'[p][i], called'[p][i]>> \in counters'[p]
    BY <1>1, <1>2, <2>1 DEF CountersOf, t
  <2> QED
    BY <2>7, <2>8, <2>9 DEF CountersOf
<1> QED
  BY <1>3, <1>4

\* Every step keeps what was sent in line with who sent it.
LEMMA SentStep ==
    ASSUME Inv, [Next]_vars
    PROVE  SentInv'
<1> USE DEF Inv
<1> SUFFICES ASSUME NEW q \in Scrapers PROVE NamedOf(q)' /\ SeriesOf(q)' /\ CountersOf(q)'
  BY DEF SentInv
<1>1. NamedOf(q) /\ SeriesOf(q) /\ CountersOf(q)
  BY DEF SentInv
<1>2. CASE UNCHANGED <<at[q], how[q], called[q], jobs[q], series[q], counters[q]>>
  <2>1. \A j \in DOMAIN at[q] : Sent(q, j)' <=> Sent(q, j)
    BY <1>2 DEF Sent
  <2>2. SeriesOf(q)' /\ CountersOf(q)'
    BY <1>1, <1>2, <2>1, SentKept
  <2>3. NamedOf(q)'
    BY <1>1, <1>2 DEF NamedOf, NamesAfter, Own
  <2> QED
    BY <2>2, <2>3
<1>3. ASSUME series'[q] = {}, counters'[q] = {}, \A j \in DOMAIN at'[q] : at'[q][j] = "ready"
      PROVE  NamedOf(q)' /\ SeriesOf(q)' /\ CountersOf(q)'
  BY <1>3 DEF NamedOf, SeriesOf, CountersOf, Sent
<1>4. ASSUME NEW p \in Scrapers, Serve(p)
      PROVE  NamedOf(q)' /\ SeriesOf(q)' /\ CountersOf(q)'
  <2>1. ASSUME NEW js, Expands(p, js) PROVE NamedOf(q)' /\ SeriesOf(q)' /\ CountersOf(q)'
    <3>1. CASE q # p
      BY <1>2, <2>1, <3>1 DEF Expands
    <3>2. CASE q = p
      <4>1. DOMAIN at[p] = {} /\ series[p] = {} /\ counters[p] = {}
        BY <2>1 DEF Expands, Expanding, SlotInv, Collects
      <4> QED
        BY <1>3, <2>1, <3>2, <4>1 DEF Expands
    <3> QED
      BY <3>1, <3>2
  <2>2. CASE Launch(p)
    <3>1. CASE q # p
      BY <1>2, <2>2, <3>1, LaunchStep
    <3>2. CASE q = p
      <4>1. series[p] = {} /\ counters[p] = {}
        BY <2>2, LaunchStep DEF SlotInv, Collects
      <4> QED
        BY <1>3, <2>2, <3>2, <4>1, LaunchStep
    <3> QED
      BY <3>1, <3>2
  <2>3. CASE Answer(p)
    <3>1. CASE q # p
      BY <1>2, <2>3, <3>1, AnswerStep
    <3>2. CASE q = p
      BY <1>3, <2>3, <3>2, AnswerStep
    <3> QED
      BY <3>1, <3>2
  <2> QED
    BY <1>2, <1>4, <2>1, <2>2, <2>3, ServeStep
<1>5. ASSUME NEW p \in Scrapers, NEW j \in DOMAIN at[p], Goroutine(p, j)
      PROVE  NamedOf(q)' /\ SeriesOf(q)' /\ CountersOf(q)'
  <2>1. Elsewhere(p, j) /\ Moves(p, j)
    BY <1>5, GoroutineStep
  <2>2. CASE q # p
    <3>1. series'[q] = series[q] /\ counters'[q] = counters[q]
      <4>1. CASE Publish(p, j)
        BY <2>2, <4>1, PublishSends
      <4>2. CASE ~Publish(p, j)
        BY <1>5, <4>2 DEF Goroutine, Run, Start, Hang, Resume, Finish, Done, gathered
      <4> QED
        BY <4>1, <4>2
    <3> QED
      BY <1>2, <2>1, <2>2, <3>1 DEF Elsewhere
  <2>3. CASE q = p
    <3>1. NamedOf(p)'
      <4> SUFFICES ASSUME NEW i \in DOMAIN at'[p], at'[p][i] \in {"ended", "published", "done"}
                   PROVE  called'[p][i] \in NamesAfter(i, how'[p][i])
        BY DEF NamedOf, NamesAfter, Own
      <4>1. i \in DOMAIN at[p]
        BY <2>1 DEF Elsewhere
      <4>2. CASE i # j
        BY <1>1, <2>1, <2>3, <4>1, <4>2 DEF Elsewhere, NamedOf
      <4>3. CASE i = j
        BY <1>1, <2>1, <2>3, <4>1, <4>3 DEF Moves, NamedOf
      <4> QED
        BY <4>2, <4>3
    <3>2. CASE Publish(p, j)
      BY <1>1, <2>3, <3>1, <3>2, PublishSent
    <3>3. CASE ~Publish(p, j)
      <4>1. UNCHANGED <<series, counters>>
        BY <1>5, <3>3 DEF Goroutine, Run, Start, Hang, Resume, Finish, Done, gathered
      <4>2. at[p][j] # "ended"
        <5>1. DOMAIN at = Scrapers
          BY DEF Shape, Kept
        <5> QED
          BY <1>5, <3>3, <5>1
             DEF Goroutine, Run, Start, Hang, Resume, Finish, Done, MayBeDone, IsAt
      <4>3. /\ Sent(p, j)' <=> Sent(p, j)
            /\ Sent(p, j) => how'[p][j] = how[p][j] /\ called'[p][j] = called[p][j]
        BY <2>1, <4>2 DEF Moves, Elsewhere, Sent
      <4>4. /\ \A i \in DOMAIN at[p] : Sent(p, i)' <=> Sent(p, i)
            /\ \A i \in DOMAIN at[p] : Sent(p, i) => how'[p][i] = how[p][i] /\ called'[p][i] = called[p][i]
        BY <2>1, <4>3 DEF Elsewhere, Sent
      <4>5. SeriesOf(p)' /\ CountersOf(p)'
        BY <1>1, <2>1, <2>3, <4>1, <4>4, SentKept DEF Elsewhere
      <4> QED
        BY <2>3, <3>1, <4>5
    <3> QED
      BY <3>2, <3>3
  <2> QED
    BY <2>2, <2>3
<1> QED
  BY <1>2, <1>4, <1>5, StepKinds DEF vars

----------------------------------------------------------------------------
\* Before the first request nothing runs.
LEMMA InitInv == Init => Inv
<1> SUFFICES ASSUME Init PROVE Inv
  OBVIOUS
<1>1. DOMAIN None = {}
  BY DEF None
<1>2. Shape
  BY <1>1, Constants, NumbersAssumption DEF Init, Shape, TypeOK, Kept, Idle, Verdicts
<1>3. SlotInv
  BY <1>1 DEF Init, SlotInv, Collects, Serving
<1>4. JobsInv
  <2>1. IsFiniteSet({})
    BY FS_EmptySet
  <2>2. \A p \in Scrapers : DOMAIN jobs[p] = {} /\ next[p] = 1
    BY <1>1 DEF Init
  <2>3. \A i \in 1..(1 - 1) : FALSE
    OBVIOUS
  <2> QED
    BY <2>1, <2>2, <2>3 DEF JobsInv
<1>5. CountInv
  <2>1. \A p \in Scrapers : {j \in DOMAIN at[p] : at[p][j] # "done"} = {}
    BY <1>1 DEF Init
  <2>2. Cardinality({}) = 0
    BY FS_EmptySet
  <2> QED
    BY <1>1, <2>1, <2>2 DEF Init, CountInv, WaitGroupCounts, NoLateSend
<1>6. DeviceInv
  BY <1>1 DEF Init, DeviceInv, DeviceFits, IsAt
<1>7. SentInv
  BY <1>1 DEF Init, SentInv, NamedOf, SeriesOf, CountersOf
<1> QED
  BY <1>2, <1>3, <1>4, <1>5, <1>6, <1>7 DEF Inv

\* The invariant is inductive.
LEMMA InvAlways == Spec => []Inv
<1>1. Inv /\ [Next]_vars => Inv'
  <2> SUFFICES ASSUME Inv, [Next]_vars PROVE Inv'
    OBVIOUS
  <2>1. Shape' /\ SlotInv' /\ JobsInv' /\ CountInv' /\ SentInv'
    BY ShapeStep, SlotStep, JobsStep, CountStep, SentStep DEF Inv
  <2>2. DeviceInv'
    BY DeviceStep DEF DeviceInv
  <2> QED
    BY <2>1, <2>2 DEF Inv
<1> QED
  BY <1>1, InitInv, PTL DEF Spec

----------------------------------------------------------------------------
\* The state of the handler, of Collect and of the collectors it uses is well formed.
THEOREM TypeCorrect == Spec => []TypeOK
<1>1. Inv => TypeOK
  BY DEF Inv, Shape
<1> QED
  BY <1>1, InvAlways, PTL

\* deviceCollector has no lock: with one request in flight (createMetricsHandler), and a
\* collector for each configured device, no two goroutines of Collect are ever inside the same one.
THEOREM OneUserAlways == Spec => []SoleUser
<1>1. Inv => SoleUser
  <2> SUFFICES ASSUME Inv, NEW d \in Static
               PROVE  /\ \A p, q \in Scrapers : Inside(p, d) /\ Inside(q, d) => p = q
                      /\ phase[d] # "idle" <=> \E p \in Scrapers : Inside(p, d)
    BY DEF SoleUser
  <2>1. ASSUME NEW p \in Scrapers, NEW q \in Scrapers, Inside(p, d), Inside(q, d) PROVE p = q
    BY <2>1, OthersIdle DEF Inside, IsAt, Inv
  <2>2. ASSUME NEW p \in Scrapers, Inside(p, d) PROVE phase[d] # "idle"
    BY <2>2 DEF Inside, Inv, DeviceInv, DeviceFits
  <2>3. phase[d] # "idle" => \E p \in Scrapers : Inside(p, d)
    BY DEF Inv, DeviceInv, DeviceFits
  <2> QED
    BY <2>1, <2>2, <2>3
<1> QED
  BY <1>1, InvAlways, PTL

\* However many targets DNS answers with and whichever goroutines panic, the counter of the
\* WaitGroup is the number of goroutines that have not called Done.
THEOREM WaitGroupAlways == Spec => []WaitGroupCounts
<1>1. Inv => WaitGroupCounts
  BY DEF Inv, CountInv
<1> QED
  BY <1>1, InvAlways, PTL

\* Collect returns, and the registry closes the channel, only after the last goroutine has sent.
THEOREM NoLateSendAlways == Spec => []NoLateSend
<1>1. Inv => NoLateSend
  BY DEF Inv, CountInv
<1> QED
  BY <1>1, InvAlways, PTL

\* Every step of the exporter uses the collector of a configured device as ScrapeContract says,
\* the contract KeepsContract of ScrapeAccountingProofs shows deviceCollector to keep.
THEOREM UsesContract == Spec => ContractUsed
<1>1. Inv /\ [Next]_vars => [\A d \in Static : Dev(d)!Next \/ UNCHANGED Dev(d)!vars]_vars
  BY DeviceStep
<1> QED
  BY <1>1, InvAlways, PTL DEF Spec, ContractUsed

----------------------------------------------------------------------------
\* Whoever collects from the same target has the same kind of device.
LEMMA SameKind ==
    ASSUME Inv, NEW p \in Scrapers, NEW j \in DOMAIN jobs[p], NEW i \in DOMAIN jobs[p],
           jobs[p][i] = jobs[p][j]
    PROVE  Own(i) <=> Own(j)
<1>1. \A k \in DOMAIN jobs[p] : k \in Job /\ IF Own(k) THEN jobs[p][k] \in Targets ELSE jobs[p][k] = k[1]
  BY DEF Inv, JobsInv, Shape, TypeOK
<1>2. \A k \in DOMAIN jobs[p] : ~Own(k) => jobs[p][k] \in Static
  BY <1>1, JobOf
<1> QED
  BY <1>1, <1>2, TargetsAssumption

\* A response shows every configured device and every resolved target by a verdict of its own,
\* and its error counter under the names its goroutines had for it, whatever the others did.
THEOREM ResponseCompleteAlways == Spec => []ResponseComplete
<1>1. Inv => ResponseComplete
  <2> SUFFICES ASSUME Inv, NEW p \in Scrapers, pc[p] = "gathered"
               PROVE  /\ \A d \in Static : <<d, 1>> \in DOMAIN jobs[p]
                      /\ \A j \in DOMAIN jobs[p] :
                           LET t == jobs[p][j]
                               same == {i \in DOMAIN jobs[p] : jobs[p][i] = t}
                               heard == {Value(how[p][i]) : i \in {k \in same : how[p][k] # "panic"}}
                           IN  /\ IF heard = {} THEN Shown(p, t) = {} /\ Counted(p, t) = {}
                                  ELSE /\ \E x \in heard : Shown(p, t) = {x}
                                       /\ Counted(p, t) # {} /\ (~Own(j) => Counted(p, t) = {"own"})
                               /\ Own(j) /\ "1" \in heard => "identity" \in Counted(p, t)
                               /\ "" \in Counted(p, t) => "0" \in heard
    BY Zenon DEF ResponseComplete
  <2>1. DOMAIN at[p] = DOMAIN jobs[p] /\ next[p] = Len(devices) + 1
    BY DEF Inv, SlotInv, Collects
  <2>2. \A j \in DOMAIN jobs[p] : at[p][j] = "done" /\ (Sent(p, j) <=> how[p][j] # "panic")
    BY <2>1 DEF Inv, CountInv, NoLateSend, Sent
  <2>3. \A j \in DOMAIN jobs[p] : called[p][j] \in NamesAfter(j, how[p][j]) /\ how[p][j] \in Verdicts
    BY <2>1, <2>2 DEF Inv, SentInv, NamedOf, Shape, TypeOK
  <2>4. ASSUME NEW d \in Static PROVE <<d, 1>> \in DOMAIN jobs[p]
    <3>1. PICK i \in DOMAIN devices : devices[i] = d
      BY DEF Static
    <3>2. i \in 1..(next[p] - 1)
      BY <2>1, Constants
    <3> QED
      BY <3>1, <3>2 DEF Inv, JobsInv
  <2>5. ASSUME NEW j \in DOMAIN jobs[p]
        PROVE  LET t == jobs[p][j]
                   same == {i \in DOMAIN jobs[p] : jobs[p][i] = t}
                   heard == {Value(how[p][i]) : i \in {k \in same : how[p][k] # "panic"}}
               IN  /\ IF heard = {} THEN Shown(p, t) = {} /\ Counted(p, t) = {}
                      ELSE /\ \E x \in heard : Shown(p, t) = {x}
                           /\ Counted(p, t) # {} /\ (~Own(j) => Counted(p, t) = {"own"})
                   /\ Own(j) /\ "1" \in heard => "identity" \in Counted(p, t)
                   /\ "" \in Counted(p, t) => "0" \in heard
    <3> DEFINE t == jobs[p][j]
               same == {i \in DOMAIN jobs[p] : jobs[p][i] = t}
               heard == {Value(how[p][i]) : i \in {k \in same : how[p][k] # "panic"}}
               tells(i) == i \in DOMAIN jobs[p] /\ jobs[p][i] = t /\ how[p][i] # "panic"
    <3>1. \A x : x \in heard <=> \E i : tells(i) /\ x = Value(how[p][i])
      OBVIOUS
    <3>2. \A i : tells(i) => Sent(p, i) /\ (Own(i) <=> Own(j))
      BY <2>2, SameKind
    <3>3. \A x : x \in Shown(p, t) <=> \E s \in series[p] : s.target = t /\ s.value = x
      BY DEF Shown
    <3>4. \A x : x \in Counted(p, t) <=> \E c \in counters[p] : c[1] = t /\ c[2] = x
      BY DEF Counted
    <3>5. \A i \in DOMAIN jobs[p] : Sent(p, i) /\ jobs[p][i] = t => tells(i)
      BY <2>2
    <3>6. SeriesOf(p) /\ CountersOf(p)
      BY DEF Inv, SentInv
    <3> HIDE DEF t, same, heard, tells
    <3>7. \A x \in Shown(p, t) : x \in heard
      BY <2>1, <3>1, <3>3, <3>5, <3>6 DEF SeriesOf
    <3>8. \A x, y \in Shown(p, t) : x = y
      BY <3>3, <3>6 DEF SeriesOf
    <3>9. heard # {} => Shown(p, t) # {}
      <4> SUFFICES ASSUME NEW i, tells(i) PROVE \E x : x \in Shown(p, t)
        BY <3>1
      <4>1. i \in DOMAIN at[p] /\ Sent(p, i) /\ jobs[p][i] = t
        BY <2>1, <3>2 DEF tells
      <4>2. Known(p, t)
        BY <3>6, <4>1 DEF SeriesOf
      <4> QED
        BY <3>3, <4>2 DEF Known
    <3>10. \A x : x \in Counted(p, t) <=> \E i : tells(i) /\ x = called[p][i]
      <4>1. ASSUME NEW x \in Counted(p, t) PROVE \E i : tells(i) /\ x = called[p][i]
        BY <2>1, <3>4, <3>5, <3>6, <4>1 DEF CountersOf
      <4>2. ASSUME NEW i, tells(i) PROVE called[p][i] \in Counted(p, t)
        <5>1. <<t, called[p][i]>> \in counters[p]
          BY <2>1, <3>2, <3>6, <4>2 DEF CountersOf, tells
        <5> QED
          BY <3>4, <5>1
      <4> QED
        BY <4>1, <4>2
    <3>11. ~Own(j) => \A i : tells(i) => called[p][i] = "own"
      BY <2>3, <3>2 DEF NamesAfter, tells
    <3>12. \A i : tells(i) /\ Own(j) /\ Value(how[p][i]) = "1" => called[p][i] = "identity"
      BY <2>3, <3>2 DEF NamesAfter, Value, tells
    <3>13. \A i : tells(i) /\ called[p][i] = "" => Value(how[p][i]) = "0"
      BY <2>3 DEF NamesAfter, Value, tells
    <3>14. heard = {} => Shown(p, t) = {} /\ Counted(p, t) = {}
      BY <3>1, <3>7, <3>10
    <3>15. heard # {} => /\ \E x \in heard : Shown(p, t) = {x}
                         /\ Counted(p, t) # {} /\ (~Own(j) => Counted(p, t) = {"own"})
      <4>1. heard # {} => \E x \in heard : Shown(p, t) = {x}
        BY <3>7, <3>8, <3>9
      <4>2. heard # {} => Counted(p, t) # {}
        BY <3>1, <3>10
      <4> QED
        BY <3>10, <3>11, <4>1, <4>2
    <3>16. Own(j) /\ "1" \in heard => "identity" \in Counted(p, t)
      BY <3>1, <3>10, <3>12
    <3>17. "" \in Counted(p, t) => "0" \in heard
      BY <3>1, <3>10, <3>13
    <3> QED
      BY <3>14, <3>15, <3>16, <3>17 DEF t, same, heard
  <2> QED
    BY <2>4, <2>5
<1> QED
  BY <1>1, InvAlways, PTL

=============================================================================
