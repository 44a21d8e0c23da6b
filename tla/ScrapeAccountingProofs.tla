----------------------- MODULE ScrapeAccountingProofs -----------------------
(***************************************************************************)
(* Proofs about what a scrape of DeviceCollector counts and concludes: the *)
(* error counter, the limit of failures in a row and the verdict, and that *)
(* a scrape keeps the contract of ScrapeContract.                          *)
(***************************************************************************)
EXTENDS DeviceCollectorProofs, FiniteSetTheorems

Results == {"ok", "err"}
Failures(os) == {i \in DOMAIN os : os[i] = "err"}

\* What gatherMetrics appends to a sequence of results.
LEMMA FailuresFinite ==
    ASSUME NEW os \in Seq(Results)
    PROVE  /\ IsFiniteSet(Failures(os))
           /\ Cardinality(Failures(os)) \in 0..Len(os)
<1>1. IsFiniteSet(1..Len(os)) /\ Cardinality(1..Len(os)) = Len(os)
  <2>1. Len(os) \in Nat /\ 1 \in Int
    OBVIOUS
  <2> QED
    BY <2>1, FS_Interval
<1>2. Failures(os) \subseteq 1..Len(os)
  BY DEF Failures
<1>3. /\ IsFiniteSet(Failures(os))
      /\ Cardinality(Failures(os)) <= Cardinality(1..Len(os))
  BY <1>1, <1>2, FS_Subset
<1> QED
  BY <1>1, <1>3, FS_CardinalityType

\* Appending a success changes no failure; appending a failure adds one.
LEMMA FailuresAppend ==
    ASSUME NEW os \in Seq(Results), NEW o \in Results
    PROVE  Cardinality(Failures(Append(os, o))) =
               Cardinality(Failures(os)) + (IF o = "err" THEN 1 ELSE 0)
<1> DEFINE n == Len(os) + 1
<1>1. /\ Append(os, o) \in Seq(Results)
      /\ DOMAIN Append(os, o) = DOMAIN os \cup {n}
      /\ n \notin DOMAIN os
      /\ Append(os, o)[n] = o
      /\ \A i \in DOMAIN os : Append(os, o)[i] = os[i]
  OBVIOUS
<1>2. CASE o = "err"
  <2>1. Failures(Append(os, o)) = Failures(os) \cup {n} /\ n \notin Failures(os)
    BY <1>1, <1>2 DEF Failures
  <2> QED
    BY <2>1, <1>2, FailuresFinite, FS_AddElement
<1>3. CASE o = "ok"
  <2>1. Failures(Append(os, o)) = Failures(os)
    BY <1>1, <1>3 DEF Failures
  <2> QED
    BY <2>1, <1>3, FailuresFinite
<1> QED
  BY <1>2, <1>3 DEF Results

\* Without a failure the count is zero, with one it is not.
LEMMA FailuresCounted ==
    ASSUME NEW os \in Seq(Results)
    PROVE  Cardinality(Failures(os)) = 0 <=> \A i \in DOMAIN os : os[i] # "err"
BY FailuresFinite, FS_EmptySet DEF Failures

----------------------------------------------------------------------------
\* dc.errors while collectors run: one more for each that failed.
CountInv ==
    /\ pc \in Collecting \ {"gather"} => errors = base
    /\ pc = "gather" => errors = base + Cardinality(Failures(outcomes))
    /\ pc = "report" =>
           errors = base + IF outcomes = <<>> /\ verdict = "error" THEN NumCollectors
                           ELSE Cardinality(Failures(outcomes))

\* At first nothing was counted.
LEMMA CountInitial == Init => CountInv
BY DEF Init, CountInv, Collecting

\* Every return of collect has counted what failed.
LEMMA CountStep == Typed /\ CountInv /\ [Next]_vars => CountInv'
<1> SUFFICES ASSUME Typed, CountInv, [Next]_vars PROVE CountInv'
  OBVIOUS
<1>0. /\ Cardinality(Failures(<<>>)) = 0
      /\ Cardinality(Failures(outcomes)) \in Nat
      /\ \A o \in Results : /\ Append(outcomes, o) # <<>>
                            /\ Cardinality(Failures(Append(outcomes, o))) =
                                   Cardinality(Failures(outcomes)) + (IF o = "err" THEN 1 ELSE 0)
  <2>1. outcomes \in Seq(Results)
    BY DEF Typed, TypeOK, Results
  <2>2. \A o \in Results : Append(outcomes, o) # <<>>
    <3>1. \A o \in Results : Len(Append(outcomes, o)) = Len(outcomes) + 1 /\ Len(outcomes) \in Nat
      BY <2>1
    <3> QED
      BY <3>1
  <2>3. Failures(<<>>) = {}
    BY DEF Failures
  <2>4. Cardinality(Failures(<<>>)) = 0
    BY <2>3, FS_EmptySet
  <2>5. Cardinality(Failures(outcomes)) \in Nat
    BY <2>1, FailuresFinite
  <2>6. \A o \in Results : Cardinality(Failures(Append(outcomes, o))) =
                               Cardinality(Failures(outcomes)) + (IF o = "err" THEN 1 ELSE 0)
    BY <2>1, FailuresAppend
  <2> QED
    BY <2>2, <2>4, <2>5, <2>6
<1>t. errors \in Nat /\ base \in Nat
  BY DEF Typed, TypeOK
<1> USE DEF CountInv, Typed, ProgressInv, Collecting, conf, local, shown, history
<1>1. CASE Begin
  BY <1>1 DEF Begin, InitialErrors
<1>2. CASE NoClient \/ ProbeOk \/ ProbeFails \/ \E c \in Conns : DialOk(c)
  BY <1>0, <1>2, <1>t DEF NoClient, ProbeOk, ProbeFails, DialOk, Connected
<1>3. CASE DialFails \/ LoginFails \/ IdentityFails
  BY <1>3 DEF DialFails, LoginFails, IdentityFails, ConnectFailed, AllFailed
<1>4. CASE LoginOk \/ IdentityOk
  <2>1. /\ errors' = errors /\ base' = base /\ outcomes' = outcomes /\ outcomes = <<>>
        /\ errors = base /\ pc' \in {"identity", "version", "gather"}
    BY <1>4 DEF LoginOk, IdentityOk, Keep, Connected
  <2> QED
    BY <2>1, <1>0, <1>t
<1>12. CASE VersionOk \/ ClockOk
  BY <1>0, <1>12, <1>t DEF VersionOk, ClockOk, Connected
<1>5. CASE GetVersionFails
  BY <1>5 DEF GetVersionFails, Return, AllFailed
<1>6. CASE GetVersionPanics
  <2>1. /\ pc' = "report" /\ verdict' = "panic" /\ errors' = errors /\ base' = base
        /\ outcomes' = <<>> /\ errors = base
    BY <1>6 DEF GetVersionPanics, Return
  <2> QED
    BY <2>1, <1>0, <1>t
<1>7. CASE CollectOk
  <2>1. errors' = base' + Cardinality(Failures(outcomes')) /\ outcomes' # <<>>
    BY <1>0, <1>7, <1>t DEF CollectOk, After, Results
  <2> QED
    BY <2>1, <1>7 DEF CollectOk, After, Return
<1>8. CASE CollectFails
  <2>1. errors' = base' + Cardinality(Failures(outcomes')) /\ outcomes' # <<>>
    BY <1>0, <1>8, <1>t DEF CollectFails, After, Results
  <2> QED
    BY <2>1, <1>8 DEF CollectFails, After, Return
<1>9. CASE CollectPanics
  BY <1>9 DEF CollectPanics, Return
<1>10. CASE Report
  BY <1>10 DEF Report
<1>11. CASE Environment \/ UNCHANGED vars
  BY <1>11 DEF Environment, Drop, Hang, Finalize, Upgrade, Expire, vars
<1> QED
  BY <1>1, <1>2, <1>3, <1>4, <1>5, <1>6, <1>7, <1>8, <1>9, <1>10, <1>11, <1>12 DEF Next, Step

\* The error counter of a device moves by what the verdict of the scrape says.
THEOREM ErrorsAccounted == Spec => []ErrorsMatchVerdict
<1>1. Typed /\ CountInv => ErrorsMatchVerdict
  <2> SUFFICES ASSUME Typed, CountInv, pc = "report"
               PROVE  errors - base = IF outcomes = <<>> /\ verdict = "error" THEN NumCollectors
                                      ELSE Cardinality(Failures(outcomes))
    BY DEF ErrorsMatchVerdict, Failures
  <2>1. /\ errors \in Nat /\ base \in Nat /\ NumCollectors \in Nat
        /\ Cardinality(Failures(outcomes)) \in Nat
    BY FailuresFinite, LimitsAssumption DEF Typed, TypeOK, Results
  <2> QED
    BY <2>1 DEF CountInv
<1>2. Typed /\ CountInv /\ [Next]_vars => CountInv'
  BY CountStep
<1> QED
  BY <1>1, <1>2, CountInitial, TypedAlways, PTL DEF Spec

----------------------------------------------------------------------------
\* collectErrors counts the failures since the last success.
StreakInv ==
    pc = "gather" =>
        /\ collectErrors <= Len(outcomes)
        /\ \A j \in Len(outcomes) - collectErrors + 1..Len(outcomes) : outcomes[j] = "err"
        /\ collectErrors < Len(outcomes) => outcomes[Len(outcomes) - collectErrors] = "ok"

\* The facts about the sequence of results that the two steps of a collector share.
LEMMA AppendFacts ==
    ASSUME NEW os \in Seq(Results), NEW o \in Results
    PROVE  /\ Len(os) \in Nat
           /\ Len(Append(os, o)) = Len(os) + 1
           /\ Append(os, o)[Len(os) + 1] = o
           /\ \A i \in 1..Len(os) : Append(os, o)[i] = os[i]
OBVIOUS

\* A success ends the streak: nothing after it can be a failed run.
LEMMA StreakAfterOk ==
    Typed /\ StreakInv /\ StopRule /\ CollectOk => StreakInv' /\ StopRule'
<1> SUFFICES ASSUME Typed, StreakInv, StopRule, CollectOk PROVE StreakInv' /\ StopRule'
  OBVIOUS
<1> DEFINE n == Len(outcomes)
<1>1. /\ n \in Nat /\ Len(outcomes') = n + 1 /\ outcomes'[n + 1] = "ok"
      /\ \A i \in 1..n : outcomes'[i] = outcomes[i]
  BY AppendFacts DEF CollectOk, After, Typed, TypeOK, Results
<1>2. collectErrors' = 0 /\ expired' = expired /\ pc = "gather"
  BY DEF CollectOk, After, StreakReset
<1>3. StopAfterErrors \in Nat \ {0} /\ NumCollectors \in Nat
  BY LimitsAssumption
<1>4. \A i \in StopAfterErrors..n + 1 : ~FailedRun(i)'
  <2> SUFFICES ASSUME NEW i \in StopAfterErrors..n + 1, FailedRun(i)' PROVE FALSE
    OBVIOUS
  <2>1. \A j \in i - StopAfterErrors + 1..i : outcomes'[j] = "err"
    BY DEF FailedRun
  <2>2. i # n + 1
    BY <2>1, <1>1, <1>3
  <2>3. FailedRun(i)
    BY <2>1, <2>2, <1>1, <1>3 DEF FailedRun
  <2> QED
    BY <2>2, <2>3, <1>1, <1>2, <1>3 DEF StopRule
<1>5. StreakInv'
  BY <1>1, <1>2 DEF StreakInv
<1>6. pc' = "report" => expired \/ n + 1 = NumCollectors
  BY <1>1, <1>2, <1>3 DEF CollectOk, After, Return, LimitReached, StreakReset
<1> QED
  BY <1>1, <1>2, <1>4, <1>5, <1>6, <1>3 DEF StopRule

\* A failure prolongs it, and the limit stops the scrape at the first failed run.
LEMMA StreakAfterError ==
    Typed /\ StreakInv /\ StopRule /\ CollectFails => StreakInv' /\ StopRule'
<1> SUFFICES ASSUME Typed, StreakInv, StopRule, CollectFails PROVE StreakInv' /\ StopRule'
  OBVIOUS
<1> DEFINE n == Len(outcomes)
<1>1. /\ n \in Nat /\ Len(outcomes') = n + 1 /\ outcomes'[n + 1] = "err"
      /\ \A i \in 1..n : outcomes'[i] = outcomes[i]
  BY AppendFacts DEF CollectFails, After, Typed, TypeOK, Results
<1>2. collectErrors' = collectErrors + 1 /\ expired' = expired /\ pc = "gather"
  BY DEF CollectFails, After
<1>3. StopAfterErrors \in Nat \ {0} /\ NumCollectors \in Nat
  BY LimitsAssumption
<1>4. collectErrors \in Nat /\ collectErrors < StopAfterErrors /\ collectErrors <= n
  BY <1>2, <1>3 DEF Typed, TypeOK, ProgressInv, StreakInv
<1>5. \A j \in n - collectErrors + 1..n + 1 : outcomes'[j] = "err"
  BY <1>1, <1>2, <1>4 DEF StreakInv
<1>6. collectErrors < n => outcomes'[n - collectErrors] = "ok"
  BY <1>1, <1>2, <1>4 DEF StreakInv
<1>7. StreakInv'
  BY <1>1, <1>2, <1>4, <1>5, <1>6 DEF StreakInv
<1>8. \A i \in StopAfterErrors..n : ~FailedRun(i)'
  BY <1>1, <1>2, <1>3 DEF StopRule, FailedRun
<1>9. ASSUME n + 1 >= StopAfterErrors, FailedRun(Len(outcomes))' PROVE collectErrors + 1 = StopAfterErrors
  <2>1. \A j \in n + 1 - StopAfterErrors + 1..n + 1 : outcomes'[j] = "err"
    <3>1. \A j \in Len(outcomes') - StopAfterErrors + 1..Len(outcomes') : outcomes'[j] = "err"
      BY <1>9 DEF FailedRun
    <3> QED
      BY <3>1, <1>1, <1>3
  <2>2. SUFFICES ASSUME collectErrors + 1 < StopAfterErrors PROVE FALSE
    BY <1>3, <1>4
  <2>3. collectErrors < n
    BY <1>1, <1>3, <1>4, <1>9, <2>2
  <2>4. n - collectErrors \in n + 1 - StopAfterErrors + 1..n + 1
    BY <1>1, <1>3, <1>4, <2>2
  <2> QED
    BY <2>1, <2>3, <2>4, <1>6
<1>10. collectErrors + 1 = StopAfterErrors =>
           pc' = "report" /\ n + 1 >= StopAfterErrors /\ FailedRun(Len(outcomes))'
  <2> SUFFICES ASSUME collectErrors + 1 = StopAfterErrors
               PROVE  pc' = "report" /\ n + 1 >= StopAfterErrors /\ FailedRun(Len(outcomes))'
    OBVIOUS
  <2>1. pc' = "report"
    BY DEF CollectFails, After, Return, LimitReached
  <2> QED
    BY <2>1, <1>1, <1>3, <1>4, <1>5 DEF FailedRun
<1>11. pc' = "report" => expired \/ n + 1 = NumCollectors \/ collectErrors + 1 = StopAfterErrors
  BY <1>1, <1>2, <1>3 DEF CollectFails, After, Return, LimitReached
<1> QED
  BY <1>1, <1>2, <1>3, <1>7, <1>8, <1>9, <1>10, <1>11 DEF StopRule

\* Outside gatherMetrics no result is added, and a return before it collected nothing.
LEMMA StreakStep == Typed /\ StreakInv /\ StopRule /\ [Next]_vars => StreakInv' /\ StopRule'
<1> SUFFICES ASSUME Typed, StreakInv, StopRule, [Next]_vars PROVE StreakInv' /\ StopRule'
  OBVIOUS
<1>0. StopAfterErrors \in Nat \ {0} /\ NumCollectors \in Nat
  BY LimitsAssumption
<1>1. ASSUME outcomes' = <<>>, pc' = "gather" => collectErrors' = 0
      PROVE  StreakInv' /\ StopRule'
  <2>1. Len(outcomes') = 0
    BY <1>1
  <2> QED
    BY <1>0, <1>1, <2>1 DEF StreakInv, StopRule
<1>2. ASSUME UNCHANGED <<outcomes, expired>>, pc' \notin {"gather", "report"}
      PROVE  StreakInv' /\ StopRule'
  BY <1>2 DEF StreakInv, StopRule, FailedRun
<1>3. ASSUME UNCHANGED <<outcomes, collectErrors, pc, verdict>>, expired => expired'
      PROVE  StreakInv' /\ StopRule'
  BY <1>3 DEF StreakInv, StopRule, FailedRun
<1> USE DEF Typed, ProgressInv, Collecting, local, history
<1>4. CASE Begin
  BY <1>1, <1>4 DEF Begin
<1>5. CASE NoClient \/ ProbeOk \/ ProbeFails \/ \E c \in Conns : DialOk(c)
  BY <1>1, <1>5 DEF NoClient, ProbeOk, ProbeFails, DialOk, Connected
<1>6. CASE DialFails \/ LoginFails \/ IdentityFails
  BY <1>1, <1>6 DEF DialFails, LoginFails, IdentityFails, ConnectFailed
<1>7. CASE LoginOk \/ IdentityOk
  <2>1. /\ outcomes' = outcomes /\ outcomes = <<>>
        /\ pc' = "gather" => collectErrors' = 0
    BY <1>7 DEF LoginOk, IdentityOk, Keep, Connected
  <2> QED
    BY <2>1, <1>1
<1>8. CASE VersionOk \/ ClockOk \/ GetVersionFails \/ GetVersionPanics
  BY <1>1, <1>8 DEF VersionOk, ClockOk, GetVersionFails, GetVersionPanics, Connected, Return
<1>9. CASE CollectOk \/ CollectFails
  BY <1>9, StreakAfterOk, StreakAfterError
<1>10. CASE CollectPanics
  <2>1. /\ UNCHANGED <<outcomes, expired>> /\ pc' = "report" /\ verdict' = "panic" /\ pc = "gather"
    BY <1>10 DEF CollectPanics, Return
  <2> QED
    BY <2>1 DEF StreakInv, StopRule, FailedRun
<1>11. CASE Report
  BY <1>2, <1>11 DEF Report
<1>12. CASE Environment \/ UNCHANGED vars
  <2>1. UNCHANGED <<outcomes, collectErrors, pc, verdict>> /\ (expired => expired')
    <3>1. CASE UNCHANGED vars
      BY <3>1 DEF vars
    <3>2. CASE Expire
      BY <3>2 DEF Expire, conf
    <3>3. ASSUME NEW c \in Conns, Drop(c) \/ Hang(c) \/ Finalize(c)
          PROVE  UNCHANGED <<outcomes, collectErrors, pc, verdict, expired>>
      BY <3>3 DEF Drop, Hang, Finalize, conf
    <3>4. ASSUME NEW v \in Versions, Upgrade(v)
          PROVE  UNCHANGED <<outcomes, collectErrors, pc, verdict, expired>>
      BY <3>4 DEF Upgrade, conf
    <3> QED
      BY <1>12, <3>1, <3>2, <3>3, <3>4 DEF Environment
  <2> QED
    BY <2>1, <1>3
<1> QED
  BY <1>4, <1>5, <1>6, <1>7, <1>8, <1>9, <1>10, <1>11, <1>12 DEF Next, Step

\* A scrape stops at the first StopAfterErrors failures in a row, and early for nothing
\* else but the context or a panic.
THEOREM StopsAtLimit == Spec => []StopRule
<1>1. Init => StreakInv /\ StopRule
  <2> SUFFICES ASSUME Init PROVE StreakInv /\ StopRule
    OBVIOUS
  <2>1. Len(outcomes) = 0 /\ pc = "idle"
    BY DEF Init
  <2> QED
    BY <2>1, LimitsAssumption DEF StreakInv, StopRule
<1>2. Typed /\ StreakInv /\ StopRule /\ [Next]_vars => StreakInv' /\ StopRule'
  BY StreakStep
<1> QED
  BY <1>1, <1>2, TypedAlways, PTL DEF Spec

----------------------------------------------------------------------------
\* The verdict follows from the results; a panic leaves at least its own collector out.
VerdictInv ==
    /\ VerdictJustified
    /\ pc = "report" /\ verdict = "panic" => Len(outcomes) < NumCollectors

\* At first there is no verdict to agree with.
LEMMA VerdictInitial == Init => VerdictInv
BY DEF Init, VerdictInv, VerdictJustified

\* collect returns success only when no collector failed, an error only when one did or
\* none could run.
LEMMA VerdictStep == Typed /\ VerdictInv /\ [Next]_vars => VerdictInv'
<1> SUFFICES ASSUME Typed, VerdictInv, [Next]_vars PROVE VerdictInv'
  OBVIOUS
<1>0. StopAfterErrors \in Nat \ {0} /\ NumCollectors \in Nat \ {0}
  BY LimitsAssumption
<1>1. ASSUME pc' # "report" PROVE VerdictInv'
  BY <1>1 DEF VerdictInv, VerdictJustified
<1>2. ASSUME UNCHANGED <<outcomes, pc, verdict>>, expired => expired' PROVE VerdictInv'
  BY <1>2 DEF VerdictInv, VerdictJustified, SomeFailed
<1>3. ASSUME outcomes' = <<>>, verdict' \in {"error", "panic"} PROVE VerdictInv'
  <2>1. Len(outcomes') = 0
    BY <1>3
  <2> QED
    BY <1>0, <1>3, <2>1 DEF VerdictInv, VerdictJustified
<1>4. CASE Begin \/ NoClient \/ ProbeOk \/ ProbeFails \/ \E c \in Conns : DialOk(c)
  BY <1>1, <1>4 DEF Begin, NoClient, ProbeOk, ProbeFails, DialOk, Connected
<1>5. CASE DialFails \/ LoginFails \/ IdentityFails
  <2>1. outcomes' = <<>> /\ verdict' = "error"
    BY <1>5 DEF DialFails, LoginFails, IdentityFails, ConnectFailed, Typed, ProgressInv, Collecting
  <2> QED
    BY <2>1, <1>3
<1>6. CASE LoginOk \/ IdentityOk
  <2>1. pc' # "report"
    BY <1>6 DEF LoginOk, IdentityOk, Keep, Connected
  <2> QED
    BY <2>1, <1>1
<1>7. CASE VersionOk \/ ClockOk \/ Report
  BY <1>1, <1>7 DEF VersionOk, ClockOk, Report, Connected
<1>8. CASE GetVersionFails \/ GetVersionPanics
  BY <1>3, <1>8 DEF GetVersionFails, GetVersionPanics, Return, history, Typed, ProgressInv, Collecting
<1>9. ASSUME NEW o \in Results, NEW streak \in Nat, pc = "gather", After(o, streak),
             streak = StopAfterErrors => o = "err"
      PROVE  VerdictInv'
  <2>1. /\ Len(outcomes) \in Nat /\ Len(outcomes') = Len(outcomes) + 1
        /\ outcomes'[Len(outcomes) + 1] = o /\ DOMAIN outcomes' = 1..Len(outcomes')
        /\ outcomes' = Append(outcomes, o) /\ expired' = expired
    BY <1>9, AppendFacts DEF After, Typed, TypeOK, Results
  <2>2. outcomes' # <<>> /\ (o = "err" => SomeFailed')
    BY <2>1 DEF SomeFailed
  <2>3. Failed(outcomes') <=> SomeFailed'
    BY DEF Failed, SomeFailed
  <2>4. CASE LimitReached(streak)
    <3>1. verdict' = "error" /\ o = "err"
      BY <1>9, <2>4 DEF After, LimitReached, Return
    <3> QED
      BY <3>1, <2>2 DEF VerdictInv, VerdictJustified
  <2>5. CASE ~LimitReached(streak) /\ (expired \/ Len(outcomes') = NumCollectors)
    <3>1. verdict' = IF Failed(outcomes') THEN "error" ELSE "success"
      BY <1>9, <2>1, <2>5 DEF After, Return
    <3> QED
      BY <3>1, <2>1, <2>2, <2>3, <2>5 DEF VerdictInv, VerdictJustified
  <2>6. CASE ~LimitReached(streak) /\ ~(expired \/ Len(outcomes') = NumCollectors)
    <3>1. pc' = pc
      BY <1>9, <2>1, <2>6 DEF After
    <3> QED
      BY <3>1, <1>1, <1>9
  <2> QED
    BY <2>4, <2>5, <2>6
<1>10. CASE CollectOk
  <2>1. pc = "gather" /\ After("ok", 0) /\ 0 # StopAfterErrors
    BY <1>0, <1>10 DEF CollectOk, StreakReset
  <2> QED
    BY <2>1, <1>9 DEF Results
<1>11. CASE CollectFails
  <2>1. pc = "gather" /\ After("err", collectErrors + 1) /\ collectErrors + 1 \in Nat
    BY <1>0, <1>11 DEF CollectFails, Typed, TypeOK
  <2> QED
    BY <2>1, <1>9 DEF Results
<1>12. CASE CollectPanics
  <2>1. outcomes' = outcomes /\ verdict' = "panic" /\ Len(outcomes) < NumCollectors
    BY <1>12 DEF CollectPanics, Return, history, Typed, ProgressInv
  <2> QED
    BY <2>1 DEF VerdictInv, VerdictJustified
<1>13. CASE Environment
  BY <1>2, <1>13 DEF Environment, Drop, Hang, Finalize, Upgrade, Expire, history
<1>14. CASE UNCHANGED vars
  BY <1>2, <1>14 DEF vars
<1> QED
  BY <1>4, <1>5, <1>6, <1>7, <1>8, <1>10, <1>11, <1>12, <1>13, <1>14 DEF Next, Step

\* device_success is 1 only for a scrape none of whose collectors failed, and 0 only for
\* one that failed before or while collecting.
THEOREM VerdictsJustified == Spec => []VerdictJustified
<1>1. VerdictInv => VerdictJustified
  BY DEF VerdictInv
<1>2. Typed /\ VerdictInv /\ [Next]_vars => VerdictInv'
  BY VerdictStep
<1> QED
  BY <1>1, <1>2, VerdictInitial, TypedAlways, PTL DEF Spec

----------------------------------------------------------------------------
\* What collectFromDevice publishes: by how much the counter has moved when a scrape
\* ends, as ScrapeContract says it.
Reported == pc = "report" => \E k \in Contract!ErrorsOf(verdict) : errors = base + k

\* The count and the verdict agree on every way collect returns.
LEMMA ReportedErrors == Typed /\ CountInv /\ VerdictInv => Reported
<1> SUFFICES ASSUME Typed, CountInv, VerdictInv, pc = "report"
             PROVE  \E k \in Contract!ErrorsOf(verdict) : errors = base + k
  BY DEF Reported
<1> DEFINE f == Cardinality(Failures(outcomes))
<1>1. /\ NumCollectors \in Nat \ {0}
      /\ outcomes \in Seq(Results) /\ Len(outcomes) <= NumCollectors
      /\ verdict \in {"success", "error", "panic"}
      /\ Len(outcomes) \in Nat
  BY LimitsAssumption DEF Typed, TypeOK, Results
<1>2. f \in 0..Len(outcomes)
  BY <1>1, FailuresFinite
<1>3. f = 0 <=> ~SomeFailed
  BY <1>1, FailuresCounted DEF SomeFailed, Results
<1>4. CASE verdict = "success"
  <2>1. errors = base + f /\ f = 0
    BY <1>3, <1>4 DEF CountInv, VerdictInv, VerdictJustified
  <2> QED
    BY <2>1, <1>4 DEF Contract!ErrorsOf
<1>5. CASE verdict = "error" /\ outcomes = <<>>
  <2>1. errors = base + NumCollectors /\ NumCollectors \in 1..NumCollectors
    BY <1>1, <1>5 DEF CountInv
  <2> QED
    BY <2>1, <1>5 DEF Contract!ErrorsOf
<1>6. CASE verdict = "error" /\ outcomes # <<>>
  <2>1. errors = base + f /\ f # 0
    BY <1>3, <1>6 DEF CountInv, VerdictInv, VerdictJustified
  <2>2. f \in 1..NumCollectors
    BY <1>1, <1>2, <2>1
  <2> QED
    BY <2>1, <2>2, <1>6 DEF Contract!ErrorsOf
<1>7. CASE verdict = "panic"
  <2>1. errors = base + f /\ Len(outcomes) < NumCollectors
    BY <1>7 DEF CountInv, VerdictInv
  <2>2. f \in 0..NumCollectors - 1
    BY <1>1, <1>2, <2>1
  <2> QED
    BY <2>1, <2>2, <1>7 DEF Contract!ErrorsOf
<1> QED
  BY <1>1, <1>4, <1>5, <1>6, <1>7

\* A new device collector has published nothing.
LEMMA ContractInitial == Init => Contract!Init
BY DEF Init, Contract!Init, Collecting

\* A scrape starts, finishes or publishes where the contract does, and is hidden otherwise.
LEMMA ContractStep ==
    Typed /\ Reported' /\ [Next]_vars => [Contract!Next]_(Contract!vars)
<1> SUFFICES ASSUME Typed, Reported', [Next]_vars PROVE [Contract!Next]_(Contract!vars)
  OBVIOUS
<1> USE DEF conf, local, net, shown, history, Collecting
<1>1. ASSUME UNCHANGED <<isSrv, base, verdict, success, exported>>,
             pc \in Collecting, pc' \in Collecting
      PROVE  UNCHANGED Contract!vars
  BY <1>1 DEF Contract!vars
<1>2. ASSUME UNCHANGED <<isSrv, base, success, exported>>,
             pc \in Collecting, pc' = "report", verdict' \in {"success", "error", "panic"}
      PROVE  Contract!Next
  <2>1. \E k \in Contract!ErrorsOf(verdict') : errors' = base + k
    BY <1>2 DEF Reported
  <2>2. Contract!Finish(verdict')
    BY <1>2, <2>1 DEF Contract!Finish
  <2> QED
    BY <1>2, <2>2 DEF Contract!Next, Contract!Verdicts
<1>3. ASSUME UNCHANGED <<isSrv, base, errors, pc, verdict, success, exported>>
      PROVE  UNCHANGED Contract!vars
  BY <1>3 DEF Contract!vars
<1>4. CASE Begin
  <2>1. Contract!Start
    BY <1>4 DEF Begin, InitialErrors, Contract!Start
  <2> QED
    BY <2>1 DEF Contract!Next
<1>5. CASE NoClient \/ ProbeOk \/ ProbeFails \/ (\E c \in Conns : DialOk(c)) \/ LoginOk \/ IdentityOk
  BY <1>1, <1>5 DEF NoClient, ProbeOk, ProbeFails, DialOk, LoginOk, IdentityOk, Keep, Connected
<1>6. CASE DialFails \/ LoginFails \/ IdentityFails
  BY <1>2, <1>6 DEF DialFails, LoginFails, IdentityFails, ConnectFailed
<1>7. CASE VersionOk \/ ClockOk
  BY <1>1, <1>7 DEF VersionOk, ClockOk, Connected
<1>8. CASE GetVersionFails \/ GetVersionPanics \/ CollectPanics
  BY <1>2, <1>8 DEF GetVersionFails, GetVersionPanics, CollectPanics, Return
<1>9. CASE CollectOk \/ CollectFails
  <2>1. PICK o \in Results, streak \in {StreakReset, collectErrors + 1} :
            pc = "gather" /\ After(o, streak)
    BY <1>9 DEF CollectOk, CollectFails, Results
  <2>2. CASE pc' = pc
    BY <1>1, <2>1, <2>2 DEF After, Return
  <2>3. CASE pc' # pc
    BY <1>2, <2>1, <2>3 DEF After, Return
  <2> QED
    BY <2>2, <2>3
<1>10. CASE Report
  <2>1. Contract!Publish
    BY <1>10 DEF Report, Contract!Publish
  <2> QED
    BY <2>1 DEF Contract!Next
<1>11. CASE Environment
  BY <1>3, <1>11 DEF Environment, Drop, Hang, Finalize, Upgrade, Expire
<1>12. CASE UNCHANGED vars
  BY <1>3, <1>12 DEF vars
<1> QED
  BY <1>4, <1>5, <1>6, <1>7, <1>8, <1>9, <1>10, <1>11, <1>12 DEF Next, Step

\* Whatever happens to the device and the network, a deviceCollector keeps the contract
\* of ScrapeContract with the exporter.
THEOREM KeepsContract == Spec => ContractKept
<1>1. Init => Contract!Init
  BY ContractInitial
<1>2. Init => CountInv /\ VerdictInv
  BY CountInitial, VerdictInitial
<1>3. Typed /\ CountInv /\ VerdictInv /\ [Next]_vars => CountInv' /\ VerdictInv'
  BY CountStep, VerdictStep
<1>4. Typed /\ CountInv /\ VerdictInv => Reported
  BY ReportedErrors
<1>5. Typed /\ Reported' /\ [Next]_vars => [Contract!Next]_(Contract!vars)
  BY ContractStep
<1> QED
  BY <1>1, <1>2, <1>3, <1>4, <1>5, TypedAlways, PTL DEF Spec, ContractKept, Contract!Spec

----------------------------------------------------------------------------
\* What a configured device has shown is no more than it has counted: its collector lives on
\* between scrapes, so dc.errors starts where it was left.
ShownInv == ~isSrv => exported <= errors

\* Nothing takes errors of a configured device back.
LEMMA ErrorsGrow ==
    ASSUME Typed, [Next]_vars
    PROVE  ~isSrv => errors' >= errors
<1> USE DEF conf, local, net, shown, history
<1>t. errors \in Nat /\ NumCollectors \in Nat
  BY LimitsAssumption DEF Typed, TypeOK
<1>1. CASE Begin
  BY <1>t, <1>1 DEF Begin, InitialErrors
<1>2. CASE NoClient \/ ProbeOk \/ ProbeFails \/ VersionOk \/ ClockOk \/ Report
  BY <1>t, <1>2 DEF NoClient, ProbeOk, ProbeFails, VersionOk, ClockOk, Report
<1>3. CASE LoginOk \/ IdentityOk \/ \E c \in Conns : DialOk(c)
  BY <1>t, <1>3 DEF LoginOk, IdentityOk, DialOk, Keep
<1>4. CASE DialFails \/ LoginFails \/ IdentityFails
  BY <1>t, <1>4 DEF DialFails, LoginFails, IdentityFails, ConnectFailed, AllFailed
<1>5. CASE GetVersionFails
  BY <1>t, <1>5 DEF GetVersionFails, AllFailed
<1>6. CASE GetVersionPanics \/ CollectPanics
  BY <1>t, <1>6 DEF GetVersionPanics, CollectPanics
<1>7. CASE CollectOk \/ CollectFails
  BY <1>t, <1>7 DEF CollectOk, CollectFails, After
<1>8. CASE Environment \/ UNCHANGED vars
  <2>1. errors' = errors
    BY <1>8 DEF Environment, Drop, Hang, Finalize, Upgrade, Expire, vars
  <2> QED
    BY <1>t, <2>1
<1> QED
  BY <1>1, <1>2, <1>3, <1>4, <1>5, <1>6, <1>7, <1>8 DEF Next, Step

\* Only Report shows the counter, as it is then.
LEMMA ShownAtReport ==
    ASSUME [Next]_vars
    PROVE  exported' = exported \/ (exported' = errors /\ errors' = errors)
<1> USE DEF conf, local, net, shown, history
<1>1. CASE Begin
  BY <1>1 DEF Begin
<1>2. CASE NoClient \/ ProbeOk \/ ProbeFails \/ VersionOk \/ ClockOk \/ Report
  BY <1>2 DEF NoClient, ProbeOk, ProbeFails, VersionOk, ClockOk, Report
<1>3. CASE LoginOk \/ IdentityOk \/ \E c \in Conns : DialOk(c)
  BY <1>3 DEF LoginOk, IdentityOk, DialOk, Keep
<1>4. CASE DialFails \/ LoginFails \/ IdentityFails
  BY <1>4 DEF DialFails, LoginFails, IdentityFails, ConnectFailed
<1>5. CASE GetVersionFails \/ GetVersionPanics \/ CollectPanics
  BY <1>5 DEF GetVersionFails, GetVersionPanics, CollectPanics
<1>6. CASE CollectOk \/ CollectFails
  BY <1>6 DEF CollectOk, CollectFails, After
<1>7. CASE Environment \/ UNCHANGED vars
  BY <1>7 DEF Environment, Drop, Hang, Finalize, Upgrade, Expire, vars
<1> QED
  BY <1>1, <1>2, <1>3, <1>4, <1>5, <1>6, <1>7 DEF Next, Step

\* The error counter of a configured device never goes down, over any failures, panics and
\* reconnects (dc.errors of device_collector.go; the collectors of SRV targets start anew).
THEOREM CounterNeverFalls == Spec => ExportedMonotone
<1>1. Init => ShownInv
  BY DEF Init, ShownInv
<1>2. Typed /\ ShownInv /\ [Next]_vars => ShownInv' /\ [~isSrv => exported' >= exported]_vars
  <2> SUFFICES ASSUME Typed, ShownInv, [Next]_vars
               PROVE  ShownInv' /\ (~isSrv => exported' >= exported)
    OBVIOUS
  <2>1. errors \in Nat /\ exported \in Nat /\ errors' \in Nat
    <3>1. Typed'
      BY NextTyped
    <3> QED
      BY <3>1 DEF Typed, TypeOK
  <2> QED
    BY <2>1, ConfConstant, ErrorsGrow, ShownAtReport DEF ShownInv
<1> QED
  BY <1>1, <1>2, TypedAlways, PTL DEF Spec, ExportedMonotone

=============================================================================
