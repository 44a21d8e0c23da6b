----------------------- MODULE DeviceCollectorProofs -----------------------
(***************************************************************************)
(* Proofs about DeviceCollector, for any number of collectors, any limit   *)
(* of failures and any sets of connections and versions.                   *)
(***************************************************************************)
EXTENDS DeviceCollector, TLAPS

\* Which clients exist at each place of the code: connect() has given up the cached one
\* before it dials, and holds the new one in a local until it is kept or closed.
ClientsInv ==
    /\ pc \in {"dial", "login", "identity"} => cl = NoConn
    /\ pc \in {"login", "identity"} => client # NoConn
    /\ pc \notin {"login", "identity"} => client = NoConn
    /\ pc \in {"version", "clock", "gather"} => cl # NoConn
    /\ isSrv /\ pc \in {"idle", "connect", "report"} => cl = NoConn
    /\ pc = "identity" => isSrv

\* Collectors are left while gatherMetrics runs, and none has run before it.
ProgressInv ==
    /\ pc \in Collecting \ {"gather"} => outcomes = <<>>
    /\ pc = "gather" => Len(outcomes) < NumCollectors /\ collectErrors < StopAfterErrors

Typed == TypeOK /\ ClientsInv /\ ProgressInv

----------------------------------------------------------------------------
\* A new collector, before its first scrape, is well formed.
LEMMA InitTyped == Init => Typed
<1> SUFFICES ASSUME Init PROVE Typed
  OBVIOUS
<1>1. outcomes = <<>> /\ outcomes \in Seq({"ok", "err"}) /\ Len(outcomes) = 0
  BY DEF Init
<1>2. TypeOK
  <2>1. /\ errors \in Nat /\ base \in Nat /\ exported \in Nat
        /\ collectErrors \in 0..StopAfterErrors
        /\ Len(outcomes) <= NumCollectors
    BY <1>1, LimitsAssumption DEF Init
  <2>2. hung \subseteq alive /\ alive \subseteq open /\ open \subseteq Conns
    BY DEF Init
  <2> QED
    BY <1>1, <2>1, <2>2, Zenon DEF Init, TypeOK, Collecting
<1>3. ClientsInv /\ ProgressInv
  BY <1>1 DEF Init, ClientsInv, ProgressInv, Collecting
<1> QED
  BY <1>2, <1>3 DEF Typed

\* Where connect() fails, a scrape ends well formed whatever was closed.
LEMMA ConnectFailedTyped ==
    ASSUME Typed, NEW closed, ConnectFailed(closed), pc \in {"dial", "login", "identity"}
    PROVE  Typed'
<1> USE DEF Typed, ConnectFailed, Close, VersionForgotten, AllFailed, conf, shown
<1>1. TypeOK'
  <2>1. errors' \in Nat
    BY LimitsAssumption DEF TypeOK
  <2>2. hung' \subseteq alive' /\ alive' \subseteq open' /\ open' \subseteq Conns
    BY DEF TypeOK
  <2> QED
    BY <2>1, <2>2 DEF TypeOK, Collecting
<1>2. ClientsInv'
  BY DEF ClientsInv, TypeOK
<1>3. ProgressInv'
  BY DEF ProgressInv, Collecting
<1> QED
  BY <1>1, <1>2, <1>3

\* One step of a scrape keeps types, clients and progress in order.
LEMMA NextTyped == Typed /\ [Next]_vars => Typed'
<1> SUFFICES ASSUME Typed, [Next]_vars PROVE Typed'
  OBVIOUS
<1> USE LimitsAssumption
<1> USE DEF Typed, TypeOK, ClientsInv, ProgressInv, Collecting, conf, local, net, shown, history
<1>1. CASE Begin
  <2>1. outcomes' = <<>> /\ outcomes' \in Seq({"ok", "err"}) /\ Len(outcomes') = 0
    BY <1>1 DEF Begin
  <2>2. errors' \in Nat /\ base' \in Nat
    BY <1>1 DEF Begin, InitialErrors
  <2>3. Len(outcomes') <= NumCollectors
    BY <2>1
  <2>4. TypeOK'
    BY <1>1, <2>1, <2>2, <2>3, Zenon DEF Begin
  <2> QED
    BY <1>1, <2>1, <2>4 DEF Begin
<1>2. CASE NoClient
  BY <1>2 DEF NoClient
<1>3. CASE ProbeOk
  BY <1>3 DEF ProbeOk, Connected, Answers
<1>4. CASE ProbeFails
  BY <1>4 DEF ProbeFails, Close, ClosedByProbe
<1>5. CASE DialFails
  BY <1>5, ConnectFailedTyped DEF DialFails
<1>6. ASSUME NEW c \in Conns, DialOk(c) PROVE Typed'
  <2>1. c # NoConn
    BY NoConnAssumption
  <2>2. hung' \subseteq alive' /\ alive' \subseteq open' /\ open' \subseteq Conns
    BY <1>6 DEF DialOk
  <2>3. TypeOK'
    BY <1>6, <2>1, <2>2 DEF DialOk
  <2> QED
    BY <1>6, <2>1, <2>3 DEF DialOk
<1>7. CASE LoginFails
  BY <1>7, ConnectFailedTyped DEF LoginFails
<1>8. CASE LoginOk
  <2>1. CASE isSrv
    BY <1>8, <2>1 DEF LoginOk
  <2>2. CASE ~isSrv
    BY <1>8, <2>2 DEF LoginOk, Keep, Connected
  <2> QED
    BY <2>1, <2>2
<1>9. CASE IdentityOk
  BY <1>9 DEF IdentityOk, Keep, Connected
<1>10. CASE IdentityFails
  BY <1>10, ConnectFailedTyped DEF IdentityFails
<1>11. CASE VersionOk
  BY <1>11 DEF VersionOk
<1>12. CASE GetVersionFails
  BY <1>12 DEF GetVersionFails, Return, Disconnect, Close, AllFailed
<1>13. CASE GetVersionPanics
  BY <1>13 DEF GetVersionPanics, Return, Disconnect, Close
<1>14. CASE ClockOk
  BY <1>14 DEF ClockOk, Connected
<1>15. CASE CollectOk
  BY <1>15 DEF CollectOk, After, Return, Disconnect, Close, StreakReset, LimitReached
<1>16. CASE CollectFails
  BY <1>16 DEF CollectFails, After, Return, Disconnect, Close, LimitReached
<1>17. CASE CollectPanics
  BY <1>17 DEF CollectPanics, Return, Disconnect, Close
<1>18. CASE Report
  BY <1>18 DEF Report
<1>19. ASSUME NEW c \in Conns, Drop(c) \/ Hang(c) \/ Finalize(c) PROVE Typed'
  BY <1>19 DEF Drop, Hang, Finalize, Close
<1>20. ASSUME NEW v \in Versions, Upgrade(v) PROVE Typed'
  BY <1>20 DEF Upgrade
<1>21. CASE Expire
  BY <1>21 DEF Expire
<1>22. CASE UNCHANGED vars
  BY <1>22 DEF vars
<1> QED
  BY <1>1, <1>2, <1>3, <1>4, <1>5, <1>6, <1>7, <1>8, <1>9, <1>10, <1>11, <1>12, <1>13,
     <1>14, <1>15, <1>16, <1>17, <1>18, <1>19, <1>20, <1>21, <1>22
  DEF Next, Step, Environment

\* The state of a deviceCollector stays well formed over any sequence of scrapes, and its
\* clients are where connect, collect and disconnect put them.
THEOREM TypedAlways == Spec => []Typed
BY InitTyped, NextTyped, PTL DEF Spec

\* The types of the run's invariant.
THEOREM TypeCorrect == Spec => []TypeOK
<1>1. Typed => TypeOK
  BY DEF Typed
<1> QED
  BY <1>1, TypedAlways, PTL

----------------------------------------------------------------------------
\* newDeviceCollector fixes the kind of target and the collectors.
LEMMA ConfConstant == [Next]_vars => isSrv' = isSrv /\ collectors' = collectors
<1> SUFFICES ASSUME [Next]_vars PROVE conf' = conf
  BY DEF conf
<1>1. CASE Begin \/ Environment
  BY <1>1 DEF Begin, Environment, Drop, Hang, Finalize, Upgrade, Expire, local
<1>2. CASE NoClient \/ ProbeOk \/ ProbeFails \/ \E c \in Conns : DialOk(c)
  BY <1>2 DEF NoClient, ProbeOk, ProbeFails, DialOk, local
<1>3. CASE DialFails \/ LoginFails \/ IdentityFails
  BY <1>3 DEF DialFails, LoginFails, IdentityFails, ConnectFailed
<1>4. CASE LoginOk \/ IdentityOk \/ Report \/ UNCHANGED vars
  BY <1>4 DEF LoginOk, IdentityOk, Keep, Report, local, vars, conf
<1>5. CASE VersionOk \/ GetVersionFails \/ GetVersionPanics \/ ClockOk
  BY <1>5 DEF VersionOk, GetVersionFails, GetVersionPanics, ClockOk
<1>6. CASE CollectOk \/ CollectFails \/ CollectPanics
  BY <1>6 DEF CollectOk, CollectFails, CollectPanics, After
<1> QED
  BY <1>1, <1>2, <1>3, <1>4, <1>5, <1>6 DEF Next, Step

\* Connections: what is open is what the clients refer to.
LEMMA NoStrayInitial == Init => NoStrayConnection
BY DEF Init, NoStrayConnection

\* Each step that opens a connection stores it in a client that was nil, and each step
\* that drops a client closes its connection.
LEMMA NoStrayStep == Typed /\ NoStrayConnection /\ [Next]_vars => NoStrayConnection'
<1> SUFFICES ASSUME Typed, NoStrayConnection, [Next]_vars, ~isSrv
             PROVE  NoStrayConnection'
  BY ConfConstant DEF NoStrayConnection
<1> USE DEF NoStrayConnection, Typed, ClientsInv, conf, local, net
<1>1. CASE UNCHANGED <<cl, client>> /\ open' \subseteq open
  BY <1>1
<1>2. CASE ProbeFails
  BY <1>2 DEF ProbeFails, Close, ClosedByProbe
<1>3. ASSUME NEW c \in Conns, DialOk(c) PROVE NoStrayConnection'
  BY <1>3 DEF DialOk
<1>4. CASE DialFails
  BY <1>4 DEF DialFails, ConnectFailed, Close
<1>5. CASE LoginFails
  BY <1>5 DEF LoginFails, ConnectFailed, Close
<1>6. CASE LoginOk
  BY <1>6 DEF LoginOk, Keep
<1>7. CASE IdentityOk
  BY <1>7 DEF IdentityOk, Keep
<1>8. CASE IdentityFails
  BY <1>8 DEF IdentityFails
<1> QED
  BY <1>1, <1>2, <1>3, <1>4, <1>5, <1>6, <1>7, <1>8
  DEF Next, Step, Environment, vars, Begin, NoClient, ProbeOk, VersionOk, GetVersionFails,
      GetVersionPanics, ClockOk, CollectOk, CollectFails, CollectPanics, After, Return,
      Disconnect, Close, Report, Drop, Hang, Finalize, Upgrade, Expire

\* A configured device never loses track of a connection.
THEOREM StaticConnections == Spec => []NoStrayConnection
<1>1. Typed /\ NoStrayConnection /\ [Next]_vars => NoStrayConnection'
  BY NoStrayStep
<1> QED
  BY <1>1, NoStrayInitial, TypedAlways, PTL DEF Spec

\* An SRV target's client does not outlive its scrape, also when the scrape panicked.
THEOREM SrvConnections == Spec => []SrvClientReleased
<1>1. Typed => SrvClientReleased
  BY DEF Typed, ClientsInv, SrvClientReleased
<1> QED
  BY <1>1, TypedAlways, PTL

----------------------------------------------------------------------------
\* The cached version: it is the one the live client's device runs, or it was read
\* before connect() replaced a dead client.  While there is no client, a known version
\* is always of the second kind; an SRV target starts without any.
VersionInv ==
    /\ cl \in alive => fw \in {NoVersion, running} \/ reconnected
    /\ pc \in {"dial", "login", "identity"} => fw = NoVersion \/ reconnected
    /\ pc \in {"idle", "connect", "report"} /\ ~isSrv /\ cl = NoConn => fw = NoVersion \/ reconnected
    /\ pc = "connect" /\ isSrv => fw = NoVersion
    /\ pc \in {"clock", "gather"} => fw # NoVersion

\* No version is known at first.
LEMMA VersionInitial == Init => VersionInv
BY DEF Init, VersionInv

\* A version is only trusted over the connection it was read on.
LEMMA VersionStep == Typed /\ VersionInv /\ [Next]_vars => VersionInv'
<1> SUFFICES ASSUME Typed, VersionInv, [Next]_vars PROVE VersionInv'
  OBVIOUS
<1> USE NoConnAssumption, NoVersionAssumption, ConfConstant
    DEF VersionInv, Typed, TypeOK, ClientsInv, conf, local, net, history
<1>1. CASE Begin
  BY <1>1 DEF Begin
<1>2. CASE NoClient
  BY <1>2 DEF NoClient
<1>3. CASE ProbeOk
  BY <1>3 DEF ProbeOk, Connected
<1>4. CASE ProbeFails
  BY <1>4 DEF ProbeFails, Close, ClosedByProbe
<1>5. CASE DialFails \/ LoginFails \/ IdentityFails
  BY <1>5 DEF DialFails, LoginFails, IdentityFails, ConnectFailed, VersionForgotten
<1>6. ASSUME NEW c \in Conns, DialOk(c) PROVE VersionInv'
  BY <1>6 DEF DialOk
<1>7. CASE LoginOk
  BY <1>7 DEF LoginOk, Keep, Connected
<1>8. CASE IdentityOk
  BY <1>8 DEF IdentityOk, Keep, Connected
<1>9. CASE VersionOk
  BY <1>9 DEF VersionOk
<1>10. CASE GetVersionFails \/ GetVersionPanics \/ CollectPanics
  BY <1>10 DEF GetVersionFails, GetVersionPanics, CollectPanics, Return, Disconnect, Close
<1>11. CASE ClockOk
  BY <1>11 DEF ClockOk, Connected
<1>12. CASE CollectOk
  BY <1>12 DEF CollectOk, After, Return, Disconnect, Close
<1>13. CASE CollectFails
  BY <1>13 DEF CollectFails, After, Return, Disconnect, Close
<1>14. CASE Report
  BY <1>14 DEF Report
<1>15. CASE Environment
  BY <1>15 DEF Environment, Drop, Hang, Finalize, Upgrade, Expire, Close
<1>16. CASE UNCHANGED vars
  BY <1>16 DEF vars
<1> QED
  BY <1>1, <1>2, <1>3, <1>4, <1>5, <1>6, <1>7, <1>8, <1>9, <1>10, <1>11, <1>12, <1>13,
     <1>14, <1>15, <1>16 DEF Next, Step

\* A collector meets a version the device does not run only over a connection that
\* replaced a dead one since the version was read.
THEOREM VersionFresh == Spec => []StaleVersionNeedsReconnect
<1>1. VersionInv => StaleVersionNeedsReconnect
  BY DEF VersionInv, StaleVersionNeedsReconnect
<1>2. Typed /\ VersionInv /\ [Next]_vars => VersionInv'
  BY VersionStep
<1> QED
  BY <1>1, <1>2, VersionInitial, TypedAlways, PTL DEF Spec

=============================================================================
