------------------------------ MODULE Exporter ------------------------------
(***************************************************************************)
(* A scrape of the whole exporter: the HTTP handler of createMetricsHandler *)
(* (cli/main.go) with the one request it lets in, and mikrotikCollector's  *)
(* Collect (internal/collector/mikrotik_collector.go), which expands the   *)
(* SRV records, collects from all devices in parallel and waits for them.  *)
(*                                                                         *)
(* A device is what ScrapeContract promises of it; DeviceCollector shows   *)
(* that deviceCollector keeps the promise.  The registry of client_golang, *)
(* net/http and DNS are modelled as the code uses them.                    *)
(***************************************************************************)
EXTENDS Integers, Sequences, FiniteSets

CONSTANTS
    Scrapers,       \* HTTP clients that ask for /metrics
    devices,        \* c.devices: the configured devices, in order
    SrvRecords,     \* those with device.Srv set
    Answers,        \* what DNS may answer to one: sequences of targets
    NumCollectors,  \* collectors per device
    MaxErrors       \* bound of the model: no device fails more often than that

Static == {devices[i] : i \in DOMAIN devices} \ SrvRecords
Targets == UNION {{a[i] : i \in DOMAIN a} : a \in Answers}

ASSUME DevicesAssumption ==
    /\ devices \in Seq({devices[i] : i \in DOMAIN devices})
    /\ \A i, j \in DOMAIN devices : devices[i] = devices[j] => i = j
ASSUME TargetsAssumption ==
    /\ \A a \in Answers : a \in Seq(Targets)
    /\ Targets \cap Static = {}
ASSUME NumbersAssumption == NumCollectors \in Nat \ {0} /\ MaxErrors \in Nat

VARIABLES
    pc,         \* where the handler serving a client stands
    next,       \* position in c.devices while Collect expands it
    jobs,       \* realDevices: the target each goroutine is to collect from
    at,         \* where each of these goroutines stands
    how,        \* the verdict of its collect
    wg,         \* the counter of the WaitGroup
    called,     \* device.Name of its collector: the configured one or the target's ("own"),
                \* the "identity" the device gave, or "" if that was empty
    series,     \* the device_success series gathered so far; device_duration has its labels
    counters,   \* the device_errors_total series gathered so far, by target and name
    \* the collectors of the configured devices, kept over the scrapes
    phase, errs, verdict, success, exported

request == <<next, jobs, wg>>
job == <<at, how, called>>
gathered == <<series, counters>>
dc == <<phase, errs, verdict, success, exported>>
vars == <<pc, next, jobs, at, how, called, wg, series, counters, phase, errs, verdict, success, exported>>

\* The collector of a configured device, as ScrapeContract sees it.
Dev(d) == INSTANCE ScrapeContract WITH
    isSrv <- FALSE, phase <- phase[d], errs <- errs[d], verdict <- verdict[d],
    success <- success[d], exported <- exported[d]

Verdicts == {"success", "error", "panic"}

\* A client waits for its next scrape, with the status it got last, or is being served.
Idle == {"none", "200", "503"}
Serving == {"expand", "collect", "gathered"}
Names == {"own", "identity", ""}
JobStates == {"ready", "collecting", "hung", "ended", "published", "done"}

\* A goroutine: the configured device it stems from, and for an SRV record the position in
\* the answer.
Job == SrvRecords \X Nat \cup Static \X {1}

TypeOK ==
    /\ pc \in [Scrapers -> Idle \cup Serving]
    /\ next \in [Scrapers -> 1..Len(devices) + 1]
    /\ \A p \in Scrapers :
           /\ DOMAIN jobs[p] \subseteq Job
           /\ \A j \in DOMAIN jobs[p] : jobs[p][j] \in Static \cup Targets
           /\ DOMAIN at[p] \subseteq DOMAIN jobs[p]
           /\ DOMAIN how[p] = DOMAIN at[p] /\ DOMAIN called[p] = DOMAIN at[p]
           /\ \A j \in DOMAIN at[p] :
                  at[p][j] \in JobStates /\ how[p][j] \in Verdicts /\ called[p][j] \in Names
           /\ counters[p] \subseteq (Static \cup Targets) \X Names
           /\ \A s \in series[p] : s.target \in Static \cup Targets /\ s.value \in {"0", "1"}
    /\ wg \in [Scrapers -> Nat]
    /\ phase \in [Static -> {"idle", "running", "ended"}]
    /\ errs \in [Static -> 0..MaxErrors] /\ exported \in [Static -> 0..MaxErrors]
    /\ verdict \in [Static -> Verdicts]
    /\ success \in [Static -> {"0", "1", "absent"}]

None == [j \in {} |-> 0]

Init ==
    /\ pc = [p \in Scrapers |-> "none"]
    /\ next = [p \in Scrapers |-> 1]
    /\ jobs = [p \in Scrapers |-> None]
    /\ at = [p \in Scrapers |-> None] /\ how = [p \in Scrapers |-> None]
    /\ called = [p \in Scrapers |-> None]
    /\ wg = [p \in Scrapers |-> 0]
    /\ series = [p \in Scrapers |-> {}] /\ counters = [p \in Scrapers |-> {}]
    /\ phase = [d \in Static |-> "idle"]
    /\ errs = [d \in Static |-> 0] /\ exported = [d \in Static |-> 0]
    /\ verdict = [d \in Static |-> "success"]
    /\ success = [d \in Static |-> "absent"]

----------------------------------------------------------------------------
\* The handler: MaxRequestsInFlight is 1, further requests are refused.
SlotFreeAlways == TRUE                      \* mutant: no limit
SlotFree == \A q \in Scrapers : pc[q] \notin Serving

Refuse(p) ==
    /\ pc[p] \in Idle /\ ~SlotFree
    /\ pc' = [pc EXCEPT ![p] = "503"]
    /\ UNCHANGED <<request, job, gathered, dc>>

\* The registry calls Collect.
Accept(p) ==
    /\ pc[p] \in Idle /\ SlotFree
    /\ pc' = [pc EXCEPT ![p] = "expand"]
    /\ UNCHANGED <<request, job, gathered, dc>>

\* The loop over c.devices, one entry at a time: a configured device is taken as it is.
\* The targets of an SRV record, looked up before the next entry, are appended; a lookup
\* that fails is logged and adds nothing.
Expanding(p) == pc[p] = "expand" /\ next[p] \in DOMAIN devices
Current(p) == devices[next[p]]

Extend(p, js) ==
    /\ jobs' = [jobs EXCEPT ![p] = [j \in DOMAIN @ \cup DOMAIN js |->
                                      IF j \in DOMAIN js THEN js[j] ELSE @[j]]]
    /\ next' = [next EXCEPT ![p] = @ + 1]
    /\ UNCHANGED <<pc, job, wg, gathered, dc>>

AddConfigured(p) ==
    /\ Expanding(p) /\ Current(p) \notin SrvRecords
    /\ Extend(p, [j \in {<<Current(p), 1>>} |-> Current(p)])

AddResolved(p, answer) ==
    /\ Expanding(p) /\ Current(p) \in SrvRecords
    /\ Extend(p, [j \in {Current(p)} \X DOMAIN answer |-> answer[j[2]]])

AfterLookupAll(p) == Len(devices) + 1       \* mutant: the loop ends at the first failed lookup
AfterLookup(p) == next[p] + 1

LookupFails(p) ==
    /\ Expanding(p) /\ Current(p) \in SrvRecords
    /\ next' = [next EXCEPT ![p] = AfterLookup(p)]
    /\ UNCHANGED <<pc, jobs, wg, job, gathered, dc>>

\* wg.Add, then a goroutine for each device.
AddedDevices(p) == Len(devices)             \* mutant: SRV targets are not counted
Added(p) == Cardinality(DOMAIN jobs[p])

Launch(p) ==
    /\ pc[p] = "expand" /\ next[p] = Len(devices) + 1
    /\ pc' = [pc EXCEPT ![p] = "collect"]
    /\ wg' = [wg EXCEPT ![p] = Added(p)]
    /\ at' = [at EXCEPT ![p] = [j \in DOMAIN jobs[p] |-> "ready"]]
    /\ how' = [how EXCEPT ![p] = [j \in DOMAIN jobs[p] |-> "success"]]
    /\ called' = [called EXCEPT ![p] = [j \in DOMAIN jobs[p] |-> "own"]]
    /\ UNCHANGED <<next, jobs, gathered, dc>>

----------------------------------------------------------------------------
\* A goroutine.  The collector of an SRV target is its own; that of a configured device
\* is the same in every scrape.
IsAt(p, j, s) == j \in DOMAIN at[p] /\ at[p][j] = s
Goes(p, j, s) == at' = [at EXCEPT ![p][j] = s]
Own(j) == j[1] \notin Static

Start(p, j) ==
    /\ IsAt(p, j, "ready")
    /\ Goes(p, j, "collecting")
    /\ IF Own(j) THEN UNCHANGED phase ELSE phase' = [phase EXCEPT ![j[1]] = "running"]
    /\ UNCHANGED <<pc, request, how, called, gathered, errs, verdict, success, exported>>

\* The device stops answering; it may answer again, or the connection breaks.
Hang(p, j) ==
    /\ IsAt(p, j, "collecting")
    /\ Goes(p, j, "hung")
    /\ UNCHANGED <<pc, request, how, called, gathered, dc>>

Resume(p, j) ==
    /\ IsAt(p, j, "hung")
    /\ Goes(p, j, "collecting")
    /\ UNCHANGED <<pc, request, how, called, gathered, dc>>

\* collect returns, or a panic in it is recovered.  For an SRV target it has read the identity
\* into device.Name unless it failed before, or there was none to read.
NamesAfter(j, v) ==
    IF ~Own(j) THEN {"own"} ELSE IF v = "error" THEN Names ELSE {"identity"}

Finish(p, j, v) ==
    /\ IsAt(p, j, "collecting")
    /\ Goes(p, j, "ended")
    /\ how' = [how EXCEPT ![p][j] = v]
    /\ \E n \in NamesAfter(j, v) : called' = [called EXCEPT ![p][j] = n]
    /\ IF Own(j) THEN UNCHANGED <<phase, errs, verdict>>
       ELSE LET d == j[1] IN
            /\ phase' = [phase EXCEPT ![d] = "ended"]
            /\ verdict' = [verdict EXCEPT ![d] = v]
            /\ \E k \in Dev(d)!ErrorsOf(v) :
                   /\ errs[d] + k <= MaxErrors
                   /\ errs' = [errs EXCEPT ![d] = @ + k]
    /\ UNCHANGED <<pc, request, gathered, success, exported>>

\* collectFromDevice sends device_success under the name device.Name had before, and
\* device_errors_total under the one it has now; after a panic it sends nothing.  The
\* registry keeps the first of two series with the same labels.
Value(v) == IF v = "success" THEN "1" ELSE "0"
ReportedAlways(v) == {Value(v)}             \* mutant: the recovering code reports too
Reported(v) == IF v = "panic" THEN {} ELSE {Value(v)}

Known(p, t) == \E s \in series[p] : s.target = t

Publish(p, j) ==
    /\ IsAt(p, j, "ended")
    /\ Goes(p, j, "published")
    /\ LET new == {[target |-> jobs[p][j], value |-> x] : x \in Reported(how[p][j])}
       IN  series' = [series EXCEPT ![p] = IF Known(p, jobs[p][j]) THEN @ ELSE @ \cup new]
    /\ counters' = [counters EXCEPT ![p] =
                        @ \cup {<<jobs[p][j], called[p][j]>> : x \in Reported(how[p][j])}]
    /\ IF Own(j) THEN UNCHANGED dc
       ELSE LET d == j[1] IN
            /\ phase' = [phase EXCEPT ![d] = "idle"]
            /\ success' = [success EXCEPT ![d] = IF how[p][j] = "panic" THEN "absent"
                                                 ELSE Value(how[p][j])]
            /\ exported' = [exported EXCEPT ![d] = IF how[p][j] = "panic" THEN @ ELSE errs[d]]
            /\ UNCHANGED <<errs, verdict>>
    /\ UNCHANGED <<pc, request, how, called>>

\* wg.Done, also after a recovered panic.
DoneUnlessPanic(p, j) == IsAt(p, j, "published") /\ how[p][j] # "panic"  \* mutant: no recover
MayBeDone(p, j) == IsAt(p, j, "published")

Done(p, j) ==
    /\ MayBeDone(p, j)
    /\ Goes(p, j, "done")
    /\ wg' = [wg EXCEPT ![p] = @ - 1]
    /\ UNCHANGED <<pc, next, jobs, how, called, gathered, dc>>

\* wg.Wait returns, Collect returns and the registry closes the channel.
WaitedForFirst(p) == \E j \in DOMAIN at[p] : at[p][j] = "done"  \* mutant: the first to finish
WaitedFor(p) == wg[p] = 0

Wait(p) ==
    /\ pc[p] = "collect" /\ WaitedFor(p)
    /\ pc' = [pc EXCEPT ![p] = "gathered"]
    /\ UNCHANGED <<request, job, gathered, dc>>

\* The handler writes the response and gives the slot back; Collect's locals are gone.
Answer(p) ==
    /\ pc[p] = "gathered"
    /\ pc' = [pc EXCEPT ![p] = "200"]
    /\ next' = [next EXCEPT ![p] = 1]
    /\ jobs' = [jobs EXCEPT ![p] = None]
    /\ at' = [at EXCEPT ![p] = None] /\ how' = [how EXCEPT ![p] = None]
    /\ called' = [called EXCEPT ![p] = None]
    /\ series' = [series EXCEPT ![p] = {}] /\ counters' = [counters EXCEPT ![p] = {}]
    /\ UNCHANGED <<wg, dc>>

----------------------------------------------------------------------------
Run(p, j) ==
    \/ Start(p, j) \/ Publish(p, j) \/ Done(p, j)
    \/ \E v \in Verdicts : Finish(p, j, v)

Collect(p) ==
    \/ AddConfigured(p) \/ LookupFails(p) \/ (\E a \in Answers : AddResolved(p, a))
    \/ Launch(p) \/ Wait(p) \/ Answer(p)

Next ==
    \E p \in Scrapers :
        \/ Accept(p) \/ Refuse(p) \/ Collect(p)
        \/ \E j \in DOMAIN at[p] : Run(p, j) \/ Hang(p, j) \/ Resume(p, j)

Spec == Init /\ [][Next]_vars

\* Goroutines are scheduled; a request or a device that comes back is not promised.
FairSpec ==
    /\ Spec
    /\ \A p \in Scrapers :
           /\ WF_vars(Collect(p))
           /\ WF_vars(\E j \in DOMAIN at[p] : Run(p, j))

----------------------------------------------------------------------------
\* dc.cl, dc.errors and the device's data have no lock: at most one goroutine is inside
\* the collector of a configured device at a time.
Inside(p, d) == \E s \in {"collecting", "hung", "ended"} : IsAt(p, <<d, 1>>, s)
SoleUser ==
    \A d \in Static :
        /\ \A p, q \in Scrapers : Inside(p, d) /\ Inside(q, d) => p = q
        /\ phase[d] # "idle" <=> \E p \in Scrapers : Inside(p, d)

\* When Collect returns, every goroutine it started has sent all it will send: none is
\* left to send on the channel the registry closes then.
NoLateSend ==
    \A p \in Scrapers : pc[p] = "gathered" =>
        \A j \in DOMAIN at[p] : at[p][j] = "done"

\* The WaitGroup counts the goroutines still running: it does not go negative.
WaitGroupCounts ==
    \A p \in Scrapers :
        wg[p] = Cardinality({j \in DOMAIN at[p] : at[p][j] # "done"})

\* A scrape shows every configured device and every resolved target by its own verdict,
\* whatever happened to the others; only a device that panicked is missing.  Its error counter
\* comes with it, of a configured device under the same name; of a target under its identity
\* once it succeeds, and without a name only after a failure.
Shown(p, t) == {s.value : s \in {r \in series[p] : r.target = t}}
Counted(p, t) == {c[2] : c \in {x \in counters[p] : x[1] = t}}
ResponseComplete ==
    \A p \in Scrapers : pc[p] = "gathered" =>
        /\ \A d \in Static : <<d, 1>> \in DOMAIN jobs[p]
        /\ \A j \in DOMAIN jobs[p] :
               LET t == jobs[p][j]
                   same == {i \in DOMAIN jobs[p] : jobs[p][i] = t}
                   heard == {Value(how[p][i]) : i \in {k \in same : how[p][k] # "panic"}}
               IN  /\ IF heard = {} THEN Shown(p, t) = {} /\ Counted(p, t) = {}
                      ELSE /\ \E x \in heard : Shown(p, t) = {x}
                           /\ Counted(p, t) # {} /\ (~Own(j) => Counted(p, t) = {"own"})
                   /\ Own(j) /\ "1" \in heard => "identity" \in Counted(p, t)
                   /\ "" \in Counted(p, t) => "0" \in heard

\* The exporter uses the collector of a configured device the way ScrapeContract says:
\* one scrape after the other, published once each.
ContractUsed == [][\A d \in Static : Dev(d)!Next \/ UNCHANGED Dev(d)!vars]_vars

\* A request that was let in is answered unless a device hangs; no goroutine keeps
\* Collect waiting.
SomeHung(p) == \E j \in DOMAIN at[p] : at[p][j] = "hung"
RequestsAnswered ==
    \A p \in Scrapers : pc[p] \in Serving ~> pc[p] \in Idle \/ SomeHung(p)

=============================================================================
