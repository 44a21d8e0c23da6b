--------------------------- MODULE ScrapeContract ---------------------------
(***************************************************************************)
(* What collectFromDevice (internal/collector/mikrotik_collector.go)       *)
(* promises the exporter about one device: scrapes run one after the       *)
(* other, each ends in one verdict, the error counter of the device moves  *)
(* by an amount the verdict explains, and then the scrape publishes its    *)
(* metrics.  Connections, commands and single collectors are hidden.       *)
(***************************************************************************)
EXTENDS Integers

CONSTANTS
    NumCollectors   \* len(dc.collectors), at least 1: "resource" is always enabled

VARIABLES
    isSrv,     \* the device comes from an SRV record: a new collector per scrape
    phase,     \* "idle", "running" or "ended" (collect returned, not yet published)
    errs,      \* dc.errors when the scrape is not running, its value at the start otherwise
    verdict,   \* how the last collect ended
    success,   \* the device_success gauge of the last scrape ("absent" if not emitted)
    exported   \* the device_errors_total value emitted last

vars == <<isSrv, phase, errs, verdict, success, exported>>

Verdicts == {"success", "error", "panic"}

\* By how much a scrape with verdict v may move the error counter: not at all when it
\* succeeds, by at least one and at most one per collector when it fails; a panic skips
\* the collector it happens in.
ErrorsOf(v) ==
    CASE v = "success" -> {0}
      [] v = "error"   -> 1..NumCollectors
      [] v = "panic"   -> 0..NumCollectors - 1

Init ==
    /\ isSrv \in BOOLEAN
    /\ phase = "idle"
    /\ errs = 0
    /\ verdict = "success"
    /\ success = "absent"
    /\ exported = 0

Start ==
    /\ phase = "idle"
    /\ phase' = "running"
    /\ errs' = IF isSrv THEN 0 ELSE errs
    /\ UNCHANGED <<isSrv, verdict, success, exported>>

Finish(v) ==
    /\ phase = "running"
    /\ phase' = "ended"
    /\ verdict' = v
    /\ \E k \in ErrorsOf(v) : errs' = errs + k
    /\ UNCHANGED <<isSrv, success, exported>>

Publish ==
    /\ phase = "ended"
    /\ phase' = "idle"
    /\ success' = CASE verdict = "success" -> "1"
                    [] verdict = "error"   -> "0"
                    [] verdict = "panic"   -> "absent"
    /\ exported' = IF verdict = "panic" THEN exported ELSE errs
    /\ UNCHANGED <<isSrv, errs, verdict>>

Next == Start \/ (\E v \in Verdicts : Finish(v)) \/ Publish

Spec == Init /\ [][Next]_vars

=============================================================================
