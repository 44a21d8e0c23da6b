-------------------------- MODULE DeviceCollector --------------------------
(***************************************************************************)
(* One deviceCollector (internal/collector/device_collector.go) over many  *)
(* scrapes: connect, getVersion, gatherMetrics and disconnect, with the    *)
(* metrics collectFromDevice emits for it.  The device and the network     *)
(* are the environment: connections die, devices stop answering, reboot    *)
(* into another RouterOS version, or refuse any command.                   *)
(*                                                                         *)
(* A step is what the goroutine does up to its next blocking call.  Names, *)
(* credentials and the time zone are left out: no branch reads them.       *)
(***************************************************************************)
EXTENDS Integers, Sequences, FiniteSets

CONSTANTS
    NumCollectors,    \* len(dc.collectors)
    CollectorLists,   \* values of dc.collectors: the kind of each collector, in order
    StopAfterErrors,  \* the constant of the same name (5 in the code)
    Conns,            \* connections a Dial can return
    NoConn,           \* the nil *routeros.Client
    Versions,         \* RouterOS versions of the device, all with Major # 0
    NoVersion,        \* a FirmwareVersion with Major = 0
    MaxErrors         \* bound of the model: no new scrape once errors could pass it

\* A collector runs commands ("command"), may also panic on what the device replies
\* ("fragile": a label or host name it cannot handle), returns nil without running a
\* command ("quiet": IPv6 disabled), or is the nil instance of an unknown feature ("nil").
Kinds == {"command", "fragile", "quiet", "nil"}

ASSUME CollectorsAssumption == CollectorLists \subseteq [1..NumCollectors -> Kinds]
ASSUME LimitsAssumption ==
    /\ NumCollectors \in Nat \ {0}
    /\ StopAfterErrors \in Nat \ {0}
    /\ MaxErrors \in Nat
ASSUME NoConnAssumption == NoConn \notin Conns
ASSUME NoVersionAssumption == NoVersion \notin Versions

VARIABLES
    isSrv,          \* dc.isSrv
    collectors,     \* dc.collectors
    pc,             \* where the goroutine of this device stands
    cl,             \* dc.cl, the cached client
    client,         \* the local of connect(), a client still being set up
    fw,             \* dc.device.FirmwareVersion
    errors,         \* dc.errors
    collectErrors,  \* the local of gatherMetrics: failures in a row
    expired,        \* ctx.Done() of the scrape has fired
    verdict,        \* how collect ended: "success", "error" or "panic"
    success,        \* device_success of the last scrape, "absent" if not emitted
    exported,       \* the value of device_errors_total emitted last
    open,           \* connections open on the exporter's side
    alive,          \* the open connections whose other end still is there
    hung,           \* the live connections on which the device stopped answering
    running,        \* the version the device runs
    outcomes,       \* history: how the collectors of this scrape ended, in order
    base,           \* history: errors when this scrape began
    reconnected     \* history: connect() replaced a dead client since fw was read

conf == <<isSrv, collectors>>
local == <<conf, cl, client, fw, errors, collectErrors>>
net == <<open, alive, hung, running>>
shown == <<success, exported>>
history == <<outcomes, base, reconnected>>
vars == <<isSrv, collectors, pc, cl, client, fw, errors, collectErrors, expired, verdict,
          success, exported, open, alive, hung, running, outcomes, base, reconnected>>

\* Program counters from the start of collect to its return.
Collecting == {"connect", "dial", "login", "identity", "version", "clock", "gather"}

TypeOK ==
    /\ isSrv \in BOOLEAN /\ collectors \in CollectorLists
    /\ pc \in Collecting \cup {"idle", "report"}
    /\ cl \in Conns \cup {NoConn}
    /\ client \in Conns \cup {NoConn}
    /\ fw \in Versions \cup {NoVersion}
    /\ errors \in Nat
    /\ collectErrors \in 0..StopAfterErrors
    /\ expired \in BOOLEAN
    /\ verdict \in {"success", "error", "panic"}
    /\ success \in {"0", "1", "absent"}
    /\ exported \in Nat
    /\ hung \subseteq alive /\ alive \subseteq open /\ open \subseteq Conns
    /\ running \in Versions
    /\ outcomes \in Seq({"ok", "err"}) /\ Len(outcomes) <= NumCollectors
    /\ base \in Nat
    /\ reconnected \in BOOLEAN

Init ==
    /\ isSrv \in BOOLEAN /\ collectors \in CollectorLists
    /\ pc = "idle"
    /\ cl = NoConn /\ client = NoConn
    /\ fw = NoVersion
    /\ errors = 0 /\ collectErrors = 0
    /\ expired = FALSE
    /\ verdict = "success" /\ success = "absent" /\ exported = 0
    /\ open = {} /\ alive = {} /\ hung = {}
    /\ running \in Versions
    /\ outcomes = <<>> /\ base = 0 /\ reconnected = FALSE

\* Client.Close: the socket goes away on both sides.
Close(cs) ==
    /\ open' = open \ cs
    /\ alive' = alive \ cs
    /\ hung' = hung \ cs

\* The device answers commands on c; on a dead connection a command fails at once, on a
\* hung one it blocks, since the client sets no read deadline.
Answers(c) == c \in alive \ hung
ReturnsAlive(c) == Answers(c)               \* mutant: a read error is not noticed
Returns(c) == c \notin hung

----------------------------------------------------------------------------
\* dc.errors at the start of a scrape.
InitialErrorsKept == errors                 \* mutant: one collector for all scrapes
InitialErrorsFresh == 0                     \* mutant: a collector per scrape for all
InitialErrors == IF isSrv THEN 0 ELSE errors

\* collectFromDevice begins: a new context, and for an SRV target a new deviceCollector.
Begin ==
    /\ pc = "idle"
    /\ isSrv \/ errors + NumCollectors <= MaxErrors
    /\ pc' = "connect"
    /\ expired' = FALSE
    /\ IF isSrv THEN cl' = NoConn /\ fw' = NoVersion /\ reconnected' = FALSE
                ELSE UNCHANGED <<cl, fw, reconnected>>
    /\ errors' = InitialErrors /\ base' = InitialErrors
    /\ outcomes' = <<>>
    /\ UNCHANGED <<conf, client, collectErrors, verdict, shown, net>>

\* disconnect(), the deferred call of collect.
DisconnectNever == UNCHANGED <<cl, open, alive, hung>>  \* mutant: isSrv is never set
Disconnect ==
    IF isSrv /\ cl # NoConn
    THEN Close({cl}) /\ cl' = NoConn
    ELSE UNCHANGED <<cl, open, alive, hung>>

\* collect returns (or unwinds) with verdict v after connect succeeded.
Return(v) ==
    /\ pc' = "report"
    /\ verdict' = v
    /\ Disconnect

\* dc.device.FirmwareVersion and dc.errors when no collector could run.
VersionKept == fw                           \* mutant: the version is not cleared
VersionForgotten == NoVersion
NoneFailed == errors                        \* mutant: a failed connect is not counted
AllFailed == errors + NumCollectors

\* collect returns the error of connect(): the version is forgotten, every collector
\* counts as failed, and disconnect is not deferred yet.
ConnectFailed(closed) ==
    /\ pc' = "report"
    /\ verdict' = "error"
    /\ fw' = VersionForgotten
    /\ reconnected' = FALSE
    /\ errors' = AllFailed
    /\ client' = NoConn
    /\ Close(closed)
    /\ UNCHANGED <<conf, cl, collectErrors, expired, shown, running, outcomes, base>>

\* connect() is done: getVersion only when no version is known.
Connected ==
    /\ pc' = IF fw = NoVersion THEN "version" ELSE "gather"
    /\ collectErrors' = 0

NoClient ==
    /\ pc = "connect" /\ cl = NoConn
    /\ pc' = "dial"
    /\ UNCHANGED <<local, net, shown, history, expired, verdict>>

\* The probe: /system/identity/print on the cached client.
ProbeOk ==
    /\ pc = "connect" /\ cl # NoConn /\ Answers(cl)
    /\ Connected
    /\ UNCHANGED <<conf, cl, client, fw, errors, net, shown, history, expired, verdict>>

\* An error or a reply without a sentence: the client is closed and replaced.
ClosedByProbeNone == {}                     \* mutant: the dead client is just dropped
ClosedByProbe == {cl}

ProbeFails ==
    /\ pc = "connect" /\ cl # NoConn /\ Returns(cl)
    /\ pc' = "dial"
    /\ Close(ClosedByProbe)
    /\ cl' = NoConn
    /\ reconnected' = (fw # NoVersion)
    /\ UNCHANGED <<conf, client, fw, errors, collectErrors, running, shown,
                   outcomes, base, expired, verdict>>

DialFails ==
    /\ pc = "dial"
    /\ ConnectFailed({})

\* DialContext fails once the context is done.
DialOk(c) ==
    /\ pc = "dial" /\ ~expired /\ c \notin open
    /\ pc' = "login"
    /\ client' = c
    /\ open' = open \cup {c} /\ alive' = alive \cup {c}
    /\ UNCHANGED <<conf, cl, fw, errors, collectErrors, hung, running, shown,
                   history, expired, verdict>>

LoginFails ==
    /\ pc = "login" /\ Returns(client)
    /\ ConnectFailed({client})

\* connect() keeps the client of a configured device; an SRV target first tells its name.
Keep ==
    /\ Connected
    /\ cl' = client
    /\ client' = NoConn
    /\ UNCHANGED <<conf, fw, errors, net, shown, history, expired, verdict>>

LoginOk ==
    /\ pc = "login" /\ Answers(client)
    /\ IF isSrv THEN /\ pc' = "identity"
                     /\ UNCHANGED <<local, net, shown, history, expired, verdict>>
                ELSE Keep

IdentityOk ==
    /\ pc = "identity" /\ Answers(client)
    /\ Keep

\* updateIdentity failed: connect() returns without closing the client.
IdentityFails ==
    /\ pc = "identity" /\ Returns(client)
    /\ ConnectFailed({})

----------------------------------------------------------------------------
\* getVersion: /system/resource/print, then /system/clock/print.
VersionOk ==
    /\ pc = "version" /\ Answers(cl)
    /\ pc' = "clock"
    /\ fw' = running
    /\ reconnected' = FALSE
    /\ UNCHANGED <<conf, cl, client, errors, collectErrors, net, shown, outcomes, base,
                   expired, verdict>>

\* The command failed, its version did not parse, or the clock command failed; in the
\* last case fw stays set and the next scrape will not call getVersion again.
GetVersionFails ==
    /\ pc \in {"version", "clock"} /\ Returns(cl)
    /\ errors' = AllFailed
    /\ Return("error")
    /\ UNCHANGED <<conf, client, fw, collectErrors, running, shown, history, expired>>

\* A reply without a sentence: reply.Re[0] panics.
GetVersionPanics ==
    /\ pc \in {"version", "clock"} /\ Answers(cl)
    /\ Return("panic")
    /\ UNCHANGED <<conf, client, fw, errors, collectErrors, running, shown, history, expired>>

ClockOk ==
    /\ pc = "clock" /\ Answers(cl)
    /\ Connected
    /\ UNCHANGED <<conf, cl, client, fw, errors, net, shown, history, expired, verdict>>

----------------------------------------------------------------------------
\* gatherMetrics joins the errors of all collectors.
FailedLast(os) == os[Len(os)] = "err"       \* mutant: each result overwrites the last
Failed(os) == \E i \in DOMAIN os : os[i] = "err"

\* The streak of failures after a success, and when it ends the scrape.
StreakKept == collectErrors                 \* mutant: a success does not reset it
StreakReset == 0
LimitPassed(streak) == streak > StopAfterErrors  \* mutant: off by one
LimitReached(streak) == streak = StopAfterErrors

\* What happens after a collector ended with o: the limit of failures in a row, then the
\* context, then the next collector.
After(o, streak) ==
    LET os == Append(outcomes, o)
        ended == expired \/ Len(os) = NumCollectors
    IN  /\ outcomes' = os
        /\ collectErrors' = streak
        /\ IF LimitReached(streak) THEN Return("error")
           ELSE IF ended THEN Return(IF Failed(os) THEN "error" ELSE "success")
           ELSE UNCHANGED <<pc, verdict, cl, open, alive, hung>>
        /\ UNCHANGED <<conf, client, fw, running, shown, base, reconnected, expired>>

Current == collectors[Len(outcomes) + 1]

CollectOk ==
    /\ pc = "gather" /\ Current # "nil"
    /\ Current = "quiet" \/ Answers(cl)
    /\ After("ok", StreakReset)
    /\ UNCHANGED errors

\* A failing command, an unparsable value or an unsupported version.
CollectFails ==
    /\ pc = "gather" /\ Current \in {"command", "fragile"}
    /\ Returns(cl)
    /\ errors' = errors + 1
    /\ After("err", collectErrors + 1)

\* Collect is called on a nil interface, or stumbles over a reply.
CollectPanics ==
    /\ pc = "gather"
    /\ Current = "nil" \/ (Current = "fragile" /\ Answers(cl))
    /\ Return("panic")
    /\ UNCHANGED <<conf, client, fw, errors, collectErrors, running, shown, history, expired>>

\* collectFromDevice emits its metrics; a recovered panic emits none.
Report ==
    /\ pc = "report"
    /\ pc' = "idle"
    /\ success' = CASE verdict = "success" -> "1"
                    [] verdict = "error"   -> "0"
                    [] verdict = "panic"   -> "absent"
    /\ exported' = IF verdict = "panic" THEN exported ELSE errors
    /\ UNCHANGED <<local, net, history, expired, verdict>>

----------------------------------------------------------------------------
\* The environment.
Drop(c) ==
    /\ c \in alive
    /\ alive' = alive \ {c} /\ hung' = hung \ {c}
    /\ UNCHANGED <<local, pc, open, running, shown, history, expired, verdict>>

Hang(c) ==
    /\ c \in alive \ hung
    /\ hung' = hung \cup {c}
    /\ UNCHANGED <<local, pc, open, alive, running, shown, history, expired, verdict>>

\* The device reboots into another version.
Upgrade(v) ==
    /\ v # running
    /\ running' = v
    /\ alive' = {} /\ hung' = {}
    /\ UNCHANGED <<local, pc, open, shown, history, expired, verdict>>

\* context.WithTimeout(CollectTimeout) fires.
Expire ==
    /\ pc \in Collecting /\ ~expired
    /\ expired' = TRUE
    /\ UNCHANGED <<local, pc, net, shown, history, verdict>>

\* The Go runtime's finalizer closes a connection nothing refers to.
Finalize(c) ==
    /\ c \in open \ {cl, client}
    /\ Close({c})
    /\ UNCHANGED <<local, pc, running, shown, history, expired, verdict>>

----------------------------------------------------------------------------
\* What the goroutine of the device does once it has begun.
Step ==
    \/ NoClient \/ ProbeOk \/ ProbeFails
    \/ DialFails \/ (\E c \in Conns : DialOk(c))
    \/ LoginFails \/ LoginOk \/ IdentityOk \/ IdentityFails
    \/ VersionOk \/ GetVersionFails \/ GetVersionPanics \/ ClockOk
    \/ CollectOk \/ CollectFails \/ CollectPanics
    \/ Report

Environment ==
    \/ \E c \in Conns : Drop(c) \/ Hang(c) \/ Finalize(c)
    \/ \E v \in Versions : Upgrade(v)
    \/ Expire

Next == Begin \/ Step \/ Environment

Spec == Init /\ [][Next]_vars

\* A goroutine that can take a step takes one.
FairSpec == Spec /\ WF_vars(Step)

----------------------------------------------------------------------------
\* A configured device never holds a connection it has lost track of: what is open is
\* the cached client or the one connect() is setting up, never both.
\* (connect, lines 89-142: every failure path closes what it opened.)
NoStrayConnection ==
    ~isSrv => /\ open \subseteq {cl, client}
              /\ cl = NoConn \/ client = NoConn

\* An SRV target keeps no client over the end of its scrape, however the scrape ended
\* (the deferred disconnect, also while a panic unwinds).
SrvClientReleased ==
    isSrv /\ pc \in {"report", "idle"} => cl = NoConn /\ client = NoConn

\* Collectors choose their commands by dc.device.FirmwareVersion.  Over a live connection
\* it is the version the device runs, unless connect() silently replaced a dead client.
StaleVersionNeedsReconnect ==
    pc = "gather" /\ cl \in alive => fw = running \/ reconnected

\* dc.errors grows by what the verdict says: nothing when collect succeeded, by one per
\* failed collector when they ran, by one per collector when none ran.
ErrorsMatchVerdict ==
    pc = "report" =>
        errors - base =
            IF outcomes = <<>> /\ verdict = "error" THEN NumCollectors
            ELSE Cardinality({i \in DOMAIN outcomes : outcomes[i] = "err"})

\* The limit of gatherMetrics: no collector runs after StopAfterErrors failures in a row,
\* and collecting ends early for no other reason than those, the context or a panic.
FailedRun(i) == \A j \in i - StopAfterErrors + 1..i : outcomes[j] = "err"
StopRule ==
    /\ \A i \in StopAfterErrors..Len(outcomes) :
           FailedRun(i) => i = Len(outcomes) /\ pc # "gather"
    /\ pc = "report" /\ verdict # "panic" /\ Len(outcomes) \in 1..NumCollectors - 1 =>
           \/ expired
           \/ Len(outcomes) >= StopAfterErrors /\ FailedRun(Len(outcomes))

\* The verdict is the joined result of all collectors that ran, not of the last one;
\* success needs every collector to have run or the context to be done.
SomeFailed == \E i \in DOMAIN outcomes : outcomes[i] = "err"
VerdictJustified ==
    pc = "report" =>
        /\ verdict = "success" =>
               /\ outcomes # <<>> /\ ~SomeFailed
               /\ expired \/ Len(outcomes) = NumCollectors
        /\ verdict = "error" => outcomes = <<>> \/ SomeFailed

\* device_errors_total of a configured device is a counter: no scrape exports less than
\* one before it did.
ExportedMonotone == [][~isSrv => exported' >= exported]_vars

\* A scrape ends unless the device has stopped answering on the connection in use: the
\* collect timeout itself interrupts no command.
Blocked == cl \in hung \/ client \in hung
ScrapeEnds == pc # "idle" ~> pc = "idle" \/ Blocked

\* Seen from the exporter, every scrape keeps the contract of ScrapeContract.
Contract == INSTANCE ScrapeContract WITH
    phase <- CASE pc = "idle" -> "idle" [] pc = "report" -> "ended" [] OTHER -> "running",
    errs <- IF pc \in Collecting THEN base ELSE errors
ContractKept == Contract!Spec

----------------------------------------------------------------------------
\* Claims of the source that the code does not keep.

\* "close connection for srv-defined targets" (device_collector.go:80): once a scrape is
\* over, no connection of an SRV target is left open.
SrvConnectionsClosed == isSrv /\ pc = "idle" => open = {}

\* device_errors_total, "number of failed collection per device"
\* (device_collector.go:32), is sent as a prometheus.CounterValue: it never goes down.
ErrorsNeverDecrease == [][exported' >= exported]_vars

=============================================================================
