# Verification of mikrotik-exporter

TLA+ models of the exporter, the runs that check them with TLC, and theorems about them
checked with TLAPS. Paths below are relative to the repository's `src/`.

## The system

The exporter answers `GET /metrics` by logging in to every MikroTik device over the RouterOS
API, running some commands on it and turning the replies into Prometheus series.

| component | source | state it keeps | operations |
|---|---|---|---|
| configuration | `internal/config/config.go`, `cli/main.go`, `internal/collector/mod.go` | features, profiles, devices; collector instances | load and validate a file or flags, apply `-with-*` flags, give each device its collectors |
| metrics endpoint | `cli/main.go` | the one request slot | accept, refuse, answer |
| exporter collector | `internal/collector/mikrotik_collector.go` | the device collectors; per scrape the expanded list and a WaitGroup | expand SRV records, one goroutine per device, wait, emit |
| device collector | `internal/collector/device_collector.go` | cached client, firmware version, error counter | connect (probe, dial, login, identity), get version and clock, run the collectors, disconnect |
| collectors | `internal/collectors/*.go` | none (instances are shared by all devices) | run commands, emit series |
| property metrics, converters | `internal/metrics`, `internal/convert` | none | one property of one row to one series or several |
| API client | `routeros/client.go`, `run.go`, `reply.go` | writer error, closing flag | login, run a command, close |
| wire protocol | `routeros/proto` | buffers | encode and decode words, sentences |

How they interact: the HTTP handler lets one request in and calls `Collect` of the exporter
collector through the registry. `Collect` starts a goroutine per device and waits for all. A
goroutine calls `collect` of its device collector, which calls the API client, which blocks
on the wire. Device collectors of configured devices, with their clients, live as long as the
program; SRV targets get a new one in each scrape. Nothing but the request limit protects the
lasting ones from two scrapes at once.

What is hard to get right, and where each property comes from, is the list of hazards in
`PROJECT.json`: connections that die, hang or are forgotten; state cached over scrapes (the
client, the version, the error counter); partial failure within a scrape and across devices;
panics that are recovered; a timeout that interrupts nothing; keeping a request-reply stream
in step over errors; a configuration in which names do the linking; and forty collectors whose
lists of properties, metrics and labels have to agree with each other; and texts of a device that
a converter must read to the end or refuse.

## Modules

| module | models | composed with |
|---|---|---|
| `ScrapeContract` | what a device collector promises the exporter | |
| `DeviceCollector` | `deviceCollector` over many scrapes, with the device and the network as environment | implements `ScrapeContract` |
| `Exporter` | handler, `mikrotikCollector.Collect`, its goroutines, the registry | contains one `ScrapeContract` per configured device |
| `RequestReply` | what `routeros.Client` promises its caller | |
| `ApiClient` | `Run`, `readReply`, `Login`, `Close` on one connection after the other | implements `RequestReply` |
| `WireFormat` | words and sentences between a writer and a reader | |
| `ConfigLoad` | from the configuration to the collectors of each device | |
| `Converters` | the converters of `internal/convert` as operators on texts cut into runs | |
| `PropertyMetrics` | `Collect` of a list of property metrics on one row: lookup, default, conversion, series | extends `Converters` |
| `CollectorRun` | `Collect` of a collector with the property metrics: commands, rows, errors | |
| `Collectors` | what each of the forty registered collectors asks for and emits | instantiates `CollectorRun` (in `MCCollectors`) |
| `MC*` | constants for TLC | |
| `DeviceCollectorProofs`, `ScrapeAccountingProofs`, `ExporterProofs`, `ApiClientProofs`, `WireFormatProofs`, `ConfigLoadProofs`, `CollectorRunProofs`, `PropertyMetricsProofs` | proofs about the module they are named for, the second about `DeviceCollector` | |

### DeviceCollector

Variables with a Go name are that field or local: `cl` (the cached client), `client` (the
local of `connect`), `errors`, `collectErrors`, `isSrv`, `collectors`. `fw` is
`device.FirmwareVersion`, with `NoVersion` for `Major == 0`. `pc` says before which blocking
call the goroutine stands; one action is what it does from there to the next one, with all
state it changes: `ConnectFailed` for instance is the error path of `connect` together with
the three assignments of `collect` that follow it, and `Return` includes the deferred
`disconnect`, which `ConnectFailed` does not since it is deferred only after `connect`.
A command on a live connection may succeed or fail, on a dead one it fails, on a hung one it
does not return (the client sets no deadline). `Drop`, `Hang`, `Upgrade` (a reboot into another
version), `Expire` (the collect timeout) and `Finalize` (Go closes a socket nothing refers to)
are the environment. A collector is one step of one of four kinds: it runs commands, it runs
commands and can also panic on a reply, it runs none, or it is nil.

`outcomes`, `base` and `reconnected` are history variables: no guard reads `base` or
`reconnected`, and `outcomes` stands for the position in the loop and the joined error.

### ScrapeContract and Exporter

`ScrapeContract` keeps of a device: whether a scrape of it runs, its error counter, the
verdict and what was published. `ErrorsOf` says by how much a verdict may move the counter;
that a success moves it by nothing and an error by at least one is a theorem about
`DeviceCollector`, not an assumption. `Exporter` has the handler (`pc`), the loop of `Collect`
over `c.devices` (`next`, `jobs`), the goroutines (`at`, `how`), the WaitGroup (`wg`) and the
gathered series. `counters` are the `collector_errors` series whose names SRV targets bring with
them. The collectors of configured devices are the variables of `ScrapeContract`,
indexed by device; those of SRV targets belong to their goroutine. `Hang` and `Resume` are the
device, refusals are what promhttp does with `MaxRequestsInFlight: 1`.

### RequestReply and ApiClient

Commands are numbered, and a row carries the number of the command the device sent it for. So
"this reply is the reply to that command" can be stated, and `RequestReply` states it: each
command ends in an error, or in all rows sent for it and for nothing else. Only words of
sentences are kept, since `processSentence` branches on nothing else; `!ret` is a `!done` with a
challenge. `Break` cuts what is on its way at any place.

### WireFormat

Lengths are real and encoded byte by byte; the bytes of the word itself are one item. `Words` holds
the words that may be written: what kind `ReadSentence` takes them for, their text, their key, and what
is read for their value, which is Windows-1250 decoded and so differs from what was written unless
that is ASCII. Deliveries are item by item, so a length may arrive in pieces. A word longer than the
buffer of `bufio.Writer` leaves it before the sentence is ended. `sen` is the sentence under
construction, `returned` what the calls of `ReadSentence` returned; after an error the next call
goes on in the middle of the sentence. What a sentence should be read as is defined a second time, by
positions: `Nth` is the sentence up to the n-th end, `Meant` its first word, its last tag and the last
pair of each key.

### Converters and PropertyMetrics

A text is a sequence of runs: digits with their value, letters, a mark such as `-`, `@` or `,`, or a
whole date. That is what the converters look at: `getDurationParts` searches the first letter and
then the first digit after it. Values are pairs of seconds and microseconds, so that `ms` and `us`
stay exact; a number that is no duration is such a pair, too. The conversions themselves are
modelled, for whole numbers.

`PropertyMetrics` has one action per way through `Collect` of a metric (`Skip` without a property,
`SendConst`, `LookUp`, `Convert`) and, for durations, one per turn of the loop (`AddPart`,
`BadPart`, `SendDuration`). `metric` is what a builder left: its kind, converter or separator,
default and status values. `text` and `total` are the loop's variables.

What a text means is defined apart from the conversions: `Meaning` adds up each run of digits by the
unit after it, `Readable` says where each has one, `Splits` gives the two texts around a separator, and
`Expected` puts together what a metric should send. `ListsAssumption` is what the builders guarantee:
`const` and `ret` metrics have no default, and a duration is converted by a plain or a `ret` metric.

### ConfigLoad

One action per stage of `Load`, with one for each way to fail: features, profiles (visited in any
order), devices; then the flags, then `NewCollector`. A feature's conf is one of five values, as
the code tells them apart: nil, a map without `enabled`, `enabled` true, false or no boolean.
Devices keep their position in the file, so removing disabled ones leaves gaps.

### Collectors and CollectorRun

`Collectors` is a table: for each collector its commands (`asks` is the proplist), for each command
the groups of metrics collected from a reply, with the properties they read, the labels they are
given and the number of labels declared (`arity`), the version and feature guards (`when`, `since`),
the commands that follow for what the first one lists, and the `stage` that ends at its first error
(0 where errors are joined). The `path` is that of the API sentence, without the final `print` and
with the number of a script; it says what a command is about independently of how its errors are
handled, and is left out for collectors that send one command only. `CollectorRun` runs such a program: a command fails or is answered, a
property of a row is fine, unreadable, empty or missing (always missing if it was not asked for), a
row may be void or one the collector passes over. Numbers are not kept here: of the conversions,
which `PropertyMetrics` has, only whether they fail. A label is what its row is (`Ids`), or "" where
the row has no such property, so rows differ in each property they have. In `health` the rows of one
metric each are taken as one; two sources of `firewall`, two scripts and two statistics of `switch`
stand for any number; an entry of `firewall` that is no pair has the effect of a command that fails.
`todo` is the position in `Collect`: all commands to come, in their order; a command that the device
or the configuration does not switch on, that belongs to a stage which has returned (`ended`), or
that would be sent for a row the collector skips, is passed over when its turn comes (`PassOver`).
`sent`, `troubled` and `perfect` are history variables.

`ArityAssumption` is what can be said of the table without running it: a group gives as many labels as
its description has names, with the one a follow-up command adds for the row that led to it; or it
reads nothing the command asks for, and emits nothing for what is missing. The second case is
`reachable` of `ipv6_neighbor`, the only description of the forty collectors that does not fit.
Two more assumptions are of this kind. `AskedAssumption`: a row that lacks nothing has what each metric
reads and what its group must have, as far as the command asks for it, but for the metrics in `Silent`.
`KeysAssumption`: the key of a metric is its name with the labels that are no row's; on no device are
two metrics with the same key asked for, by one command, by two or by a follow-up, and where rows are
taken one by one a label of the metric is asked for, as is the name of a row that gets a command of
its own. They compare the lists each collector keeps by hand, of what it asks for, reads and puts
into labels; that they suffice is what the proofs show.

## Runs

Passing runs, with the bounds and why they are enough:

| run | bounds | what it shows |
|---|---|---|
| `device_collector` | 4 collectors, limit 2 (5 in the code), 2 connections, 2 versions, 8 errors, three lists of collectors | with a limit of 2 among 4 there are runs of failures before, at and after the limit and with a success between; 2 connections show a leak next to a live one; 8 errors are two scrapes in which everything fails |
| `exporter` | 2 clients, an SRV record and a device, up to 2 targets also equal, 2 collectors, 2 errors | overlapping requests, a failed, an empty and a double lookup before a device, any order of goroutines |
| `api_client` | 4 commands, 3 sentences before the last | a two-stage login and two commands after it, rows before and after errors |
| `wire_format` | up to 5 words, ends of sentences included, out of 4; lengths of one, two and three bytes, one above the buffer's size | sentences of up to four words, two in a row, with repeated keys and rejected words, broken off anywhere; the longer lengths are covered by the proof |
| `property_metrics` | every converter and kind of metric alone, 6 lists of two; all texts of up to 4 runs over 8, durations of up to three parts | units missing, doubled, unknown; signs, separators and `@` at each place; a clock whose microseconds are less than what is taken off |
| `config_load` | up to 2 devices of 7 kinds, one profile, 8 feature maps, all flags | two devices that share a name, and every way to fail, alone and together |
| `collectors` | all 40 collectors on 6 devices, 2 rows of which the first may be imperfect | versions on both sides of each guard, IPv6, details and lists on and off; every property missing, empty or unreadable once, every subset of commands failing |

What the properties say is written above each in the modules. The most telling:

- `NoStrayConnection`, `SrvClientReleased`: no connection is lost track of, over failures at any
  place; for SRV targets with the exception below.
- `StaleVersionNeedsReconnect`: collectors choose commands by a cached version; it is wrong only
  after `connect` replaced a dead client in place, which the code does without clearing it.
- `ErrorsMatchVerdict`, `StopRule`, `VerdictJustified`: error counter, limit and `device_success`
  agree with what the collectors did. `ContractKept` puts them together.
- `SoleUser`, `NoLateSend`, `ResponseComplete`, `ContractUsed`: the exporter uses the unlocked
  device collectors one scrape at a time, sends nothing once `Collect` returned, and shows every
  device by its own verdict, and every SRV target by its own error counter.
- `PromiseKept`, `InStep`, `LoginAccepted`: the client stays in step with the device.
- `WordsIntact`, `SentencesApart`: what is read is what was written, over any breaking-off, and no
  sentence takes anything from its neighbours, also after one that was rejected.
- `NothingLost`, `ListComplete`, `CollectReturns`: a duration is counted to its last part or refused,
  one property that cannot be read costs no other its series, and each loop ends.
- `ChecksDecide`, `OwnFeatures`, `InstancesComplete`: which files are accepted,
  and what each device then runs.
- `LabelsFit`, `SeriesDistinct`: no collector panics in `MustNewConstMetric` or sends a series twice,
  over everything a device may leave out. `DeclaredAppear`: every metric described can be had from
  a device that answers everything, but for those in `MCSilent`: `fp_rx_packet` of `interface`
  (`interface_collector.go:57` asks for `fp-tx-packet` twice), `reachable` of `ipv6_neighbor` (not
  asked for; if it were, its six labels for five names would panic) and all of `poe`.
- `TroubleContained`: a command is left out only after trouble in an earlier one at its own path of
  the API or above it. What may depend on what is read off the paths, not off the early returns: the
  counts of routes of one IP version depend on each other and the users of back-to-home on
  `/ip/cloud`, but not the routes of version 6 on those of version 4, the simple queues on the queue
  monitor, or one firewall or script on another. Several commands at one path (`arp`,
  `ipv6_neighbor`) may depend on each other as far as this property goes, and so may the interfaces
  one command lists: in `wlanif` the first in trouble ends the others, in `dhcp` and `lte` it does not.
- `NilMeansComplete`: trouble is never lost, whatever succeeds after it.

Liveness and fairness: `ScrapeEnds` and `RequestsAnswered` assume only that a goroutine that can
go on does (weak fairness of its steps, which the Go scheduler gives); both hold up to a device
that hangs, which the code has no deadline for. `RunReturns` assumes the same of the client and
nothing of the device, `CollectReturns` of the goroutine in a converter. `SentencesArrive` assumes
that a connection that stays up delivers, and that the reader reads; then every sentence that was
ended is read for good. No fairness is assumed of devices, DNS or HTTP clients.

Runs that end in a violation, each a line of the repository the code does not keep:

| run | claim | what happens |
|---|---|---|
| `srv_connections` | "close connection for srv-defined targets" (`internal/collector/device_collector.go:80`) | when reading the identity fails after the login, `connect` returns without closing; the socket stays until Go finalizes it |
| `srv_error_counter` | "number of failed collection per device", a counter (`device_collector.go:32`, `mikrotik_collector.go:153`) | SRV targets get a new device collector per scrape: the counter goes down |
| `foreign_words` | "sends a sentence to the RouterOS device and waits for the reply" (`routeros/run.go:10`) | after a word the client does not know, the rest of the reply is read as the reply to the next command |
| `unknown_collectors` | "do not panic on unknown collectors; show error and ignore" (`ChangeLog:91`) | a feature in capitals passes validation and gives the device a nil collector |
| `poe_metrics` | "retrieves POE metrics" (`internal/collectors/poe_collector.go:14`) | neither the name a row must have nor the properties the metrics read are asked for: nothing is exported |

`CHECK_DEADLOCK FALSE` stands where the system does stop: all words written and read
(`wire_format`), start-up finished (`config_load`), a collector returned (`collectors`), a list of
metrics collected (`property_metrics`).

## Proofs

The theorems hold for every value of the constants, under the named assumptions in the modules
that declare them: sizes are natural numbers, `NoConn` is no connection, `NoVersion` no version,
`Lower` maps registered names to themselves, the nil map is no map, `Words` is a table of words of less
than 2^32 bytes, none of them empty, lists and texts
are finite sequences of what the builders make and of runs, `Ids` are different and none is "", and a
program is a sequence of commands with the fields `CollectorRun` reads, in which a command that follows
another is followed by none, and of which `ArityAssumption`, `AskedAssumption` and `KeysAssumption`
hold. TLC evaluates each on its run's constants. Three
theorems about `ApiClient` also assume `Foreign = {}`, a device that sends only words
`processSentence` knows: without it the run `foreign_words` refutes them.

`DeviceCollectorProofs`. `TypeOK` alone is not inductive: that `collectErrors` stays within the
limit needs to know that `gather` is left when it is reached, and that `cl` is a client where it is
used needs to know where each client can be. `Typed` adds these facts (`ClientsInv`,
`ProgressInv`); `TypeCorrect` follows, and from `Typed` the three properties about clients and
versions: `StaticConnections`, `SrvConnections`, `VersionFresh`.

`ScrapeAccountingProofs`. `ErrorsAccounted`, `StopsAtLimit` and `VerdictsJustified` each
strengthen their property by what it says in the middle of a scrape (the count of failures so far,
the tail of `outcomes` that `collectErrors` counts, the joined result). `KeepsContract` puts them
together: initial states map to initial states, each step of `DeviceCollector` to a step of
`ScrapeContract` or to a stutter. `CounterNeverFalls` needs that a configured device has shown no more
errors than it has counted (`ShownInv`), since a panic shows nothing.

`ExporterProofs`. `Inv` has six parts, each of which needs others. `SlotInv`: one client at most is
served, and goroutines exist only while its `Collect` runs. `JobsInv`: finitely many goroutines, one
for each configured device passed so far, the others for targets. `CountInv`: the WaitGroup counts
those not done, so none is left when `Wait` returns. `DeviceInv`: a collector is in use exactly when a
goroutine is inside it, and in the phase that goroutine is in; without it `SoleUser` is not
inductive, for the contract would let a second scrape start. `SentInv`: what was sent is what
goroutines that published sent, one value per target. From `Inv` follow `OneUserAlways`,
`WaitGroupAlways`, `NoLateSendAlways`, `ResponseCompleteAlways`, and, step by step, `UsesContract`.
With `KeepsContract` this closes the composition: the exporter relies on `ScrapeContract` and on
nothing else of a device collector, and the device collector implements it.

`ApiClientProofs`. `Typed` is inductive for any words. `InStep` speaks only of an idle client; `Sync`
says what holds in between: whose turn it is, that everything on its way belongs to the command asked
last and ends with the one sentence that ends a reply (`StreamInv`), that the rows read and those on
their way are together those the device sent (`ReplyInv`), how many commands a login has run
(`ClientInv`), and that a login the device did not refuse was accepted by its `!done` (`LoginInv`).
`LoginIsAccepted` and `StaysInStep` follow; `KeepsPromise` is the refinement of
`RequestReply`, where only returning is no stutter, and `ReplyInv` gives it the rows.

`WireFormatProofs`. `LengthRoundTrip`: for every length below 2^32 the first byte asks for as many
bytes as follow, and decoding gives the length back. `Forms` splits the lengths by their
encoding, `FormOne` to `FormFive` do the arithmetic of each. `WordsStayIntact` puts it to use for a
whole connection. Its invariant has the stream `T` the writer has made of all it wrote, with the
positions `c` at which words begin, and a position `r` of the reader: what arrived, is on its way and
is buffered are consecutive pieces of `T` from `r` on, and `r` is at the start of a word, or
behind the length of one that `pending` holds. `T` is not a variable: it is quantified in the
invariant, and each write extends it. A broken connection leaves a prefix.

`SentencesStayApart` adds `Apart(read, returned, sen)`, about the words read so far alone. There are
as many ends of sentences among them as successes, also up to each success and the end it belongs
to; each success `Matches` the sentence that ends there; and `sen` is what the words since the last
end make if none was rejected (`Building`), else its pairs come from them and the last result is an
error. `ApartEnds`, `ApartFails` and two more lemmas take one kind of word each; that what was read
is a prefix of what was written (`WordsStayIntact`) then moves the statement from the words read to
those written.

`ConfigLoadProofs`. `KnownCollectorsExist`: every collector a device is given has an instance if
its name is registered. A device may be given the features of another one of the same name, so
the proof needs that the device found by name is itself among those whose features were
collected (`AllCovered`), and that there is a first one (`Least`, from the well-foundedness of `<`).
`FileInv` says what each stage has made of the file's features, profiles and devices so far. With
`ProfilesExist` (a device that passed the checks has its profile) and `BuiltInv` (its collectors are
those of a device of its name) it gives `FilesDecided` and `EachItsOwn`.

`CollectorRunProofs` are about any program. `TodoInv`: what is to come are commands of the program
that have not been sent, each once, and follow-ups of ones that have been. `Covered`: a command that
applies has been sent, is to come, or belongs to a stage that has returned, and a stage returns only
after trouble in it. `ErrorInv`: trouble is in the error. `NilIsComplete` follows once nothing is to
come. `TroubleStaysContained` needs the order as well: in `OrderInv`, a command to come has its place
after all that were sent and all that come before it, so one that is left out for its stage comes
after the one in trouble. The theorem is for collectors with `StagesKeepToPaths`, where the earlier
of two commands of a stage is above the later; only `queue`, `wlanif`, `cloud` and `routes` have
stages. It is a hypothesis and no assumption of `CollectorRun`, so that a misplaced return in the
table is found by `TroubleContained` itself. `LabelsAlwaysFit` rests on `FitInv`: every command to
come declares what it gives. A follow-up is made while the program runs, with a label put in front of
each of its groups for `each` and none otherwise (`FollowersDeclare`), and a group whose labels do not
fit emits nothing for any reply (`MisfitsAreSilent`), since a row has no value for what was not asked.

`DeclaredAlwaysAppear` rests on `AppearInv`: commands to come ask for what their metrics read, those of
the program with the metrics the program gives them; and as long as all answers are complete, each
command sent has shown its metrics, and those of its follow-up have appeared or it is to come
(`Served`). `AnswerShows` is the step for one command: in a first row that lacks nothing each metric
has its value. When nothing is to come, `Covered` says that all commands that apply were sent.

`SeriesAlwaysDistinct` rests on `DistinctInv`: nothing that was sent can be sent again, and no two
commands to come can send the same, where what a command can send (`Possible`) is taken over all rows
of all replies. Each series has the key of one metric of one command, or of what follows it
(`PossibleBelongs`, `KeyTells`): labels of rows do not change the key (`RowPattern`). So only follow-ups
for the rows of one reply can send the same metric, and the name of the row in front tells those
apart (`FollowersDistinct`); none can send what was sent before them (`FollowersFresh`). Within an
answer, `RowsApart` and the key tell all that is emitted apart (`OutDistinct`), so there are as many
series as emissions (`ImageSize`).

`PropertyMetricsProofs` hold for any lists and any texts of any length. `Meaning` is a recursive
function, of which nothing is known before it is shown to exist: `SumExists` does so by taking the
least number of runs without a sum (`Least`, from the well-foundedness of `<`), which needs no
induction rule; `MeaningIs` then gives its equations. `Kept` is the invariant: `Converting` is the
text and total a converter starts from; `Loop`, for durations, is what `NothingLost` says together
with how a text of which something was taken off begins, without which `Readable` would not follow at
its end; `Sent(j)` is that a metric
passed over has sent what it should and failed exactly if it should. Each turn of the loop keeps
`Loop` by the cases of `getDurationParts` (`Parts`). `LoopLosesNothing` and `ListsComplete` follow;
`TypeCorrect` is part of `Kept`.

Only model-checked is liveness: `ScrapeEnds`, `RequestsAnswered`, `RunReturns`, `SentencesArrive` and
`CollectReturns` need fairness and so `ENABLED`. Every safety property of the passing runs has a
theorem. That the forty programs of `Collectors` satisfy the three assumptions above is for TLC to
find, which it does before it runs any of them.

## Not modelled

- Left out in the converters: fractions and exponents of numbers, overflow of a value (`float64` has
  none here), the time zone of a certificate's dates. No collector uses `ParseTSInLocation`,
  `TruncAfterAt`, `SplitStringToFloatsOn` or status metrics.
- Left out in the builders: `check()`. It runs at start-up on constant arguments, and misses equal
  neighbouring labels (`prop_metrics.go:480`), which none of the collectors has.
- Stated as hazards only: a scrape cut short by the collect timeout counts as a success if nothing
  failed before (`device_collector.go:233`), and the others that have a note in `PROJECT.json`.
- `readLength` takes a first byte from `0xF8` on for a length; the writer sends none, `Follow` and
  `Kept` have the case. What a device answers to a monitor command without interfaces
  (`monitor_collector.go:54`) is not in the repository: the model lets it answer or fail.
  `MetricFromBoolNeg` does not know the "no" of its comment (`converters.go:226`); whether a device
  ever sends it is not in the repository either.
- Left out for good: logging, systemd notification and watchdog, start and end of the HTTP server,
  the landing page, YAML and DNS as formats, TLS. They keep no state the rest reads.
- In the client: the lock of `Close` and `Queue` of the client have no second user; unanswered
  sentences without words are ignored like `!empty`.
