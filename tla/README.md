# wmi_exporter in TLA+

This directory is a verification development of `wmi_exporter`, a Windows
service that answers Prometheus scrapes with metrics read from WMI, registers
itself in Consul and labels some metrics with AWS instance tags. The modules are
written from the Go sources under `src/`; line numbers below refer to them.

## 1. Inventory of the system

| Component | State it keeps | Operations | What makes it hard |
|---|---|---|---|
| Lifecycle (`exporter.go` 111-223) | program counters of `main`, the ticker goroutine, the SIGINT goroutine and the server goroutine; the unbuffered channels `stopCh`, `quitCh` | start-up sequence, wait for a stop, quit hand-shake, deferred `DeRegister` | two independent stoppers, a hand-shake with a goroutine that may be busy or not exist, `log.Fatal` in goroutines |
| Configuration (`conf/config.go`, `exporter.go` 111-198) | `UCMConfig` | `InitializeFromConfig`, `loadCollectors`, the served paths | precedence of file and flags, a nil map, a value receiver, nine ways to end |
| Windows service (`exporter.go` 240-266, vendored `svc/service.go`) | `Execute`, `service.run` with its nil-able channels, the status last reported, the control callback | report a status, take and deliver a control, exit | the SCM, a callback thread, `service.run`, `Execute` and `main` interleave; API calls fail |
| Consul registration (`utils/auxiliaryfunctions.go` 60-134) | the catalog entry (outside), requests in flight | `Register`, `DeRegister`, of one process after another | lost and late requests, an error for a request that was applied, entries that outlive a crash |
| Scrape path (`exporter.go` 45-84; vendored `http.go`, `registry.go`, `vec.go`, `value.go`) | per scrape: `metricChan`, a WaitGroup, a goroutine per collector; shared: the summary vector | `Gather`, `Collect`, `execute`, `Observe` | concurrent scrapes, bounded channel, reader/writer lock held while sending, closing the channel |
| WMI client (vendored `wmi.go`) | one process-wide lock | `Query` | every query of every scrape waits for it; queries fail |
| Collectors (`collector/*.go`) | descriptors built once | construction, `Collect` | some 130 samples written by hand, `dst[0]` of an empty result, filters, label values that collide |
| Template collectors (`templatedcollector.go`, `tcpu.go`, `test.go`) | descriptors, expressions, and for tcpu a map shared by all scrapes | construction, `Collect`, `compute` | dropped errors, unsynchronised map, stale entries |
| Template functions (`templatefunctions.go`) | none | `sum`, `average`, `count`, `max`, `min` | recursion over nested lists, start values |
| Tag labels (`auxiliaryfunctions.go` 136-199, 240-280) | the slices `TagLabelNames` and `TagLabelValues`, the map `labels` | refresh, read by constructors and scrapes | unsynchronised slices, written one after the other |
| Generator (`tools/collector-generator`) | none | `toSnakeCase` | not modelled |
| Installer, health check, redirect | none | - | not modelled |

The components interact by goroutines in one process: the ticker goroutine and
the scrapes share the label slices, `Execute` and the SIGINT goroutine send on
`stopCh`, `main` sends on `quitCh`, `service.run` and `Execute` exchange controls
and statuses, and all scrapes share the WMI lock, the summary vector and the
collectors' own state. Outside are Consul, the SCM, the AWS endpoints and WMI.

What each component has to get right:

- lifecycle: one stop is accepted; it ends the process; the refresher is quiet
  before the process deregisters; a clean exit leaves no catalog entry;
- configuration: a process serves what it was told to, by the command line or else
  the file, and does not serve when it cannot;
- service: what the SCM shows is true and only moves forward; its callback is not
  left blocked while `service.run` is in its loop;
- registration: whatever became of the processes before, the catalog holds the last
  one's entry while it serves;
- scrapes: an answered scrape is complete, counts its own runs, and fails only for
  colliding labels; nothing is sent after the channel is closed; every scrape ends;
- collectors: every described family is shown for every row, each from a field of its
  own, with as many label values as names;
- tag labels: a tag's value stands under its name, a metric has all tags or none,
  and a goroutine's own labels stay its own, as far as unlocked slices let them;
- template collectors: what is computed covers the scrape's own rows and is what the
  function's name says, and the computation does not fail for cores that come and go.

`PROJECT.json` lists every hazard at its line with the properties that cover it.
Five have none. Two are beyond the models: the subtraction in `system.go:122`, which is
arithmetic inside one statement, and the shared `rand.Rand` of `test.go:61`, whose
numbers are random whatever happens to it. Three are steps of a model that its
properties permit, since the code does them: rows that WMI no longer returns are
summed (`tcpu.go:58`), `min` and `max` start from 0 (`templatefunctions.go:75`), and a
torn load of a slice lets `append` write over the tags (`templatedcollector.go:78`).

## 2. Modules

| Module | Models | Composition |
|---|---|---|
| `Exporter` | one process: `main`, ticker, SIGINT and server goroutines, `service.run`, `Execute`, the SCM, Consul | `L == INSTANCE Lifecycle WITH phase <- phase, advertised <- catalog` |
| `Lifecycle` | the abstract specification: what an installation may rely on about a process | - |
| `Restart` | the processes of one service ID after each other, with crashes, and Consul's one entry | takes one process as `Exporter` shows it at its calls |
| `Config` | the start up: flags, file, merge, `loadCollectors`, the served paths | gives the switches that `Exporter` starts from |
| `Scrape` | concurrent scrapes: Gather, Collect, execute, WMI lock, summary vector | sees a collector as `Collection` does |
| `Collectors` | one run of each of the eleven collectors: descriptors, filter, samples, fields | `Seen == INSTANCE Collection WITH ...` |
| `Collection` | the abstract specification of a collector's run | - |
| `TagLabels` | the two label slices, the refresher that writes them, the constructors and scrapes that append to them | - |
| `TemplateCollector` | the shared map of `tcpu` and the computed metrics | EXTENDS `TemplateFunctions` |
| `TemplateFunctions` | `sum`, `average`, `count`, `max`, `min` as operators | - |
| `MCExporter`, `MCScrape`, `MCCollectors`, `MCTagLabels`, `MCTemplateCollector`, `MCConfig` | values of the constants for TLC | EXTEND their module |
| `ExporterProofs`, `RestartProofs`, `ConfigProofs`, `ScrapeProofs`, `TagLabelsProofs`, `TemplateCollectorProofs`, `CollectorsProofs` | theorems about the module they are named after | EXTEND it, and TLAPS |
| `CollisionProofs` | the one theorem about when a scrape is refused | EXTENDS `ScrapeProofs` |

Definitions whose comment begins with `Mutant:` are not part of a specification:
each is a plausible bug in the definition that follows it, and shows that the
property it is listed with in `PROJECT.json` can fail.

### Exporter

Every goroutine's program counter is a variable (`main`, `refresher`, `sig`,
`server`, `run`, `exec`). An unbuffered channel has no state: a send and its receive
are one step of both sides, so `stopCh` is `StopBySigint` and `StopByService`, and
`quitCh` is `QuitHandshake`. `ticker.C` has capacity one (`tick`). `main`
walks through `config`, `metadata`, `schedule`, `session`, `sigint`, `load`,
`register`, `registering`, `serve` to `wait`, then `quit`, `deregister`,
`deregistering`, `done`. A `log.Fatal`, a panic and a SIGINT before `signal.Notify`
all stop the process where it stands (`Die`), so no deferred call runs; `NewTicker`'s
panic for a period that is not positive is one of them (`Schedule`).

`service.run` holds at most one control out to `Execute` (`runCmd`) and the callback
at most one to `service.run` (`ctl`). `status` is its copy of the last status,
`echo` the copy inside the request that Execute answers, `scm` what the SCM shows.
With `SvcFaults` any call of the service API may fail and `run` becomes `broken`: nobody
receives from `service.c` any more, and a control that comes later stays with the
callback for good (`service.go:226-235`). That is why `ControlTaken` promises nothing of
a broken loop. `MaxControls` bounds the controls for each configuration.

A Consul call is put on `wire`. Consul applies it (`catalog`, `acked`) or loses it;
the caller learns of the outcome, or of an error although it was or will be
applied (`regRes`, `deregRes`).

### Restart

The same calls, seen from Consul. Each registration is under one node and service
ID, so that a process writes over, and withdraws, whatever entry there is. `now` is the
process started last, `phase` where it is with its two calls, `wire` the requests not
seen yet, `done` those applied, `result[p]` what `p` was told. A process may `Die` in
any phase, and its requests stay on the wire and may be applied long after: that is
how a dead process comes back into the catalog of the one that serves, or takes it out.
The next starts when none runs, as the SCM does it. `late` is a history variable: the
requests of earlier processes that were applied after the last one's registration. It is
what the two properties turn on: nothing else that a predecessor did or left behind, a
crash, a failed call, a request lost or still under way, changes whose entry it is.

### Config

`step` walks through `main` from the flags to `http.HandleFunc`; `conf` is `UCMConfig`,
`file` and `flags` are the inputs, any combination of them. A value of an address flag
is what `strings.Split` and `Atoi` make of it, and `setAddress` leaves `conf.address`
alone, since its receiver is a copy (`config.go:131`). `flags.listed` says that the
flag of the collectors is another string than the placeholder, which `[defaults],[defaults]`
is too (`config.go:161`), although it names nothing else. `Installed` is the command line of
the installer without parameters (`installer/wmi_exporter.wxs`). `conf.made` says whether the file
gave the map of collectors, into which the flag's names are written one by one
(`AddCollector`, in any order, as Go ranges over them afterwards in any order).

### Scrape

Per scrape `s`: the Gather side (`scrape`), `WmiCollector.Collect` (`collect`), the
WaitGroup, `metricChan` with capacity `ChanCap`, and one goroutine per collector
(`worker[s][c]`). Shared: the lock of the WMI client, the reader/writer lock and
children of `scrapeDurations`. A collector is of a kind: `rows` (a metric for each
row that its filter keeps), `single` (reads `dst[0]`) or `template` (drops the query
error, and panics if it is in `custom`, the templates with ExportedMetrics). Rows
have labels, and two rows may have equal ones. `RefreshTags` is the first tag refresh,
after which collectors in `Labelled` panic.

### Collectors and Collection

`DescOf(c)` is the label names of each family that a constructor describes, `Desc` those
of the running configuration (a template's `ExportedMetrics` add to them, or replace
one). `SamplesOf` lists, in the order of `collect`, every sample of a row: family,
further label values, type and the WMI field that it shows. `Skips` is the filter,
`LabelOf` the label value of the row (NIC names mangled, service names in lower case).
A run is `QueryFails` or `QueryReturns`, then `SendSample` by `SendSample` through the
rows, then the exports; a template that has no descriptor for a sample's family does a
`PassOver` instead (`if _, ok := m[...]`, `tcpu.go:221`). `Send` panics if there are more or
fewer label values than names (`NewConstMetric`) and is refused if Gather has the sample
(`checkMetricConsistency`).

`Collection` is what the rest of the program makes of that: a query gives items with
labels, which are shown one after the other, and showing a label twice spoils the
scrape. `ImplementsCollection` refines row by row: all samples of a row stand for its one
item, which is shown with the first of them (`Phase`, `Todo` and `Shown` are what
`Collection` sees of the variables; an item of a row is not one of an export even if
they are called the same). It justifies the kinds of `Scrape`: that a family may be left
out of sight there is so because no sample of a row collides unless its row does.

### TagLabels

`names` and `values` are slice headers (length, capacity, array), the arrays are
`nameArr` and `valArr[k]`, one per refresh, with the capacity that `append` gives
(1, 2, 4, 8, ...). Nobody takes a lock. A store to a slice variable is two steps, and a
load (`LoadNames` to `Build`, `LoadValues` to `AppendValues`) gets each of its three words
as it was at some moment of the load (`Loaded`), in whichever order the compiler reads
them. The constructors and the scrapes append to what they got: in place while the
capacity lasts (`InPlace`), with a panic for a length without its pointer (`NilDeref`,
the end `nil slice`), and over the tags themselves when a length of 0 came with an array
(`Over`). From then on `mixed` holds. It is a history variable, and the properties about
labels promise nothing under it. `worker[w].over` remembers that another append
came into the same spare room before `MakeMetric` read the values.

Label values are known by what they belong to, a tag or a goroutine's row. A tag may have
the name of a family's own label: `prometheus.NewDesc` only records that in the
descriptor's `err` (`desc.go:141`), which neither `NewConstMetric` nor a `Gather` that is not
pedantic looks at, and these descriptors are never registered. The metric then has two
label pairs of that name, the tag's and its own, and `TagsAllOrNone` tells them apart by
their values.

### TemplateCollector and TemplateFunctions

Maps have identities (`maps`, `lmap`), because the first scrapes may each make
one, and a row is known by the number of its query. A map write is two steps;
any access in between ends the model as `concurrent map`, for either the runtime
ends the process or nothing can be said any more. `getValue` is modelled with its
list, its range over the map it started on and its reads from the map that
`c.lmap` is at that moment; `compute` panics where a type assertion fails. A
computed metric is one function of one variable, as in the shipped configuration, and
its value is what `TemplateFunctions` makes of the numbers in the list. A list that is
given to a function inside another list is the end `stack overflow`: each function
passes it on as its one argument and finds it there again (`templatefunctions.go:28`).

## 3. Runs

| Run | Question | Bounds |
|---|---|---|
| `exporter` | is one stop accepted, does it end the process, and are the SCM and Consul told the truth on the way? | refresher on; a console process with and without Consul, a service with Consul and 1 control, a service without and 4; API faults, lost and late requests |
| `exporter_no_tags` (violation) | does the shutdown reach DeRegister? | tags off |
| `restart` | whose entry is in the catalog after crashes and with requests lost and late? | 4 processes |
| `config` | what is merged from which, and what serves? | 4 collector names of which 2 are built in and one compiles a regexp, 4 paths of which 2 are reserved, 4 forms of an address, 3 periods; all combinations of them |
| `config_install` (violation) | does the service that the installer sets up serve, at its address? | the same |
| `scrape_safety` | complete, counted, refused only for collisions | 2 scrapes, `net` with 3 rows of which 2 collide and 1 is filtered, `os`; channel of 1 |
| `scrape_ends` | is every scrape answered, with its own runs? | 2 scrapes of `tcpu` with and without a computed metric, 2 rows, a tag refresh at any time, channel of 1 |
| `collectors_emit` | does each collector show what it describes, once, from the right field? | 11 collectors, up to 2 rows, names that are skipped, unlisted, empty or collide, 7 configurations of the templates |
| `tags_refresh` | are names, values and own labels where they belong? | 0 to 3 tags, one of them of an own label's name, 2 refreshes, families with 2, 1, 1 and no labels of their own, 2 goroutines |
| `tags_cardinality` (violation) | can a metric be sent once the tags are there, if its descriptor was built before? | 1 tag, 2 refreshes |
| `template_rows` | are the scrape's own rows computed over, to what the function says, and what can fail? | 2 scrapes, one at a time or overlapping, 2 cores, 2 queries, 7 configurations with every function |
| `template_concurrent` (violation) | is Collect safe to call concurrently? | 2 scrapes |

Why the bounds suffice for the question asked. Three controls let one be held
by the callback, one by `service.run` and one be answered by Execute, and a fourth
finds all places taken; Consul has no part in that, so the service with Consul, whose
states multiply with the requests, has one control. What `exporter` shows of a process with
tags, its safety theorems prove with and without them, for any number of controls. Of four
processes, one may have died with its registration on the wire, one with its deregistration, one may serve and one come after it; what one
predecessor does to the entry it does to any later process, as `RestartProofs` shows
for any number. The start up treats a collector's name by three tests
(is it in the file, is it built in, does it compile a regexp), which the names `cpu`, `iis`,
`foo` and the placeholder tell apart, and paths by being reserved, unset or neither. Two
scrapes are what the shared locks, the summary vector and
the shared map distinguish: each relation is between two of them. A channel of
capacity one is full after one send, which is when senders block; the real
capacity of 1000 only delays that. In
`scrape_ends` two scrapes of one collector meet at every lock that two collectors of
one scrape meet at too; several collectors in a scrape are in `scrape_safety`. Two rows
are enough for `collectors_emit`: a sample is compared with others of its row and of one
other, and the lists of samples are those of the code, with nothing left out. Zero, one and
two tags fill a grown array exactly and three leave room for one more: all that
`append` can meet with own labels of 0, 1 and 2 is there. The second refresh stores
other values beside those that a reader may hold. Two queries let a core come, stay away and be stale, and let a second scrape store over a first
one's row. `TagLabels` assumes at most 16 tags, the largest capacity `Grown` lists.

Deadlock is checked except in `exporter_no_tags`, whose configuration stops at
`quitCh <- true` for good (finding 1). A process that ended, or has nothing left to serve
within the bound, takes the explicit step `Rest` (`Idle` in `Exporter`).

The ticker is started before the collectors are made, and its first tick comes one
`RefreshPeriod` later, usually long after the constructors: that is the order of
`tags_cardinality`, whose every descriptor was built without tags. The other order, in
which metrics with tags can be sent at all, takes constructors slower than the period;
`TagsAllOrNone` and `OwnLabels` are about what is sent then. `OwnLabels` says exactly
when an own label is lost without a torn load: with three tags two goroutines append
into the same spare element and a metric is sent with the other's label value
(`over`), and of two families with one label each the second overwrites the name in the
descriptor of the first (`Overwritten`); where the tags fill their array (`NoRoom`) neither ever
happens.

### Fairness

`Exporter!Fairness`: the Go scheduler runs every goroutine that can run (weak
fairness of each goroutine's step). `QuitHandshake` has strong fairness: the
refresher's `select` is ready for it again and again, between fetches, and a `select`
with several ready cases picks one at random, so it cannot pass over one for good. Calls to
Consul, AWS and the service API return. Nothing makes a signal, a control or a tick
arrive, and nothing makes a call fail. `Scrape!Fairness` is weak fairness of each
goroutine of each scrape; no request has to arrive.

## 4. What the checks found

Findings, each a run that TLC ends with a violation:

1. `exporter_no_tags`: with `AwsTagsToLabels` off nobody receives from `quitCh`
   (`exporter.go:218`); the process never deregisters and never ends.
2. `tags_cardinality`: label names are fixed when the collectors are made, label values
   are not. The constructors find no tags, the first refresh fills names and values, and
   the next labelled metric has more values than its descriptor has names: a panic.
3. `template_concurrent`: `lmap` (`tcpu.go:216`) is written by all scrapes without a
   lock.
4. `config_install`: the service as the installer sets it up does not serve. Without a
   file there is no map to add the collectors to (`config.go:164`), and the placeholder,
   which is no collector, is never expanded, while `README.md:27` promises default settings,
   the flag's help (`exporter.go:119`) and `TestExpandEnabled` an expansion, and
   `exporter.go:90` that unsupported collectors are removed.
5. `config_install` too: the address of the command line is parsed and lost
   (`config.go:131`), so that `conf.address` is the file's or `:0`, against
   `config.go:154`, the flag's help (`exporter.go:117`) and `README.md:33`. The trace's last
   state violates both halves of `InstalledServes`.

Other behaviour that a reader of the code may not expect is stated by properties that
hold, as an exception or as one side of an equivalence:

- `EntryOfLast`, `ImplementsLifecycle`: `log.Fatalf` in the server goroutine
  (`exporter.go:211`) skips the deferred `DeRegister`, so a process whose listener
  fails leaves its entry in the catalog.
- `LostToPredecessor`: nothing registers again, so a process can serve for good without
  an entry, or under one that a dead process has written late.
- `StatusHonest`: after the hand-over in `Execute` (`exporter.go:257`) `main` may end the
  process before the SCM is told StopPending or Stopped; it is never told too early.
- `OwnRunsReported`: `templatedcollector.go:61` drops the query's error, so the run
  of a template that collected nothing is counted as a success.
- `StartsExactlyWhen`: what a start needs beyond what the documents say (findings 4 and 5):
  a file with a table of collectors, and no name that is not built in.
- `ControlTaken`: a control that comes after `service.run` left its loop over a failed call
  blocks the SCM's dispatcher for good.
- `TagsAllOrNone`, `OwnLabels`: a torn load lets `append` write over the tags (`mixed`), and
  spare capacity lets it write over another goroutine's labels (`over`).
- `FieldsApart`: `dns.go:304` shows under `udp` the field that it also shows under
  `tcp`, and `IXFRUDPSuccessReceived`, which the query asks for, is shown nowhere.
- `DiesOnlyKnown`, `ImplementsCollection`: an `ExportName` that is one of a
  template's own families ends the process in the first scrape, and one that is given
  twice spoils every scrape (`templatedcollector.go:28-41`).
- `ComputedAsNamed`: `min` starts from 0 and is 0 whatever the rows
  (`templatefunctions.go:75`).
- `OnlyQueryFails`: a list inside a function's arguments is an endless recursion.

No run is spent on the comment at `exporter.go:53`, which speaks of a mutex that
`Collect` does not have: `scrape_safety` runs two Collects at once and shows what holds
without it.

## 5. Proofs

Each of these is proved for every value of the constants that satisfies the named
assumptions of its module, and the property is one that a run checks (except
`InOrder` and `RestartProofs!TypeCorrect`, whose statements are only proved):

| Module | Theorem | States |
|---|---|---|
| `ExporterProofs` | `TypeCorrect` | `Spec => []TypeOK` |
| | `StopOnce` | `Spec => []StopHandedOver` |
| | `Quiesced` | `Spec => []RefresherQuiesced` |
| | `Honest` | `Spec => []StatusHonest` |
| | `Advertised` | `Spec => []AdvertisedWhileServing` |
| | `CleanExit` | `Spec => []CleanExitWithdraws` |
| | `Follows` | `Spec => []StatusFollowsExecute` |
| | `InOrder` | `Spec => []RequestsInOrder` |
| | `Forward` | `Spec => StatusForward` |
| | `Refines` | `Spec => ImplementsLifecycle` |
| `RestartProofs` | `TypeCorrect` | `Spec => []TypeOK` |
| | `LastDecides` | `Spec => []EntryOfLast` |
| | `LostOnlyToPredecessor` | `Spec => []LostToPredecessor` |
| `ConfigProofs` | `TypeCorrect` | `Spec => []TypeOK` |
| | `Merged` | `Spec => []FlagsMerged` |
| | `StartsExactly` | `Spec => []StartsExactlyWhen` |
| `ScrapeProofs` | `TypeCorrect` | `Spec => []TypeOK` |
| | `WaitGroup` | `Spec => []WaitGroupExact` |
| | `NoLateSend` | `Spec => []NoSendAfterClose` |
| | `Runs` | `Spec => []RunsCounted` |
| | `Complete` | `Spec => []ResponseComplete` |
| | `Reported` | `Spec => []OwnRunsReported` |
| `CollisionProofs` | `OnlyCollisions` | `Spec => []FailsOnlyOnCollision` |
| `TagLabelsProofs` | `TypeCorrect` | `Spec => []TypeOK` |
| | `AlwaysAligned` | `Spec => []Aligned` |
| | `AllOrNone` | `Spec => []TagsAllOrNone` |
| | `OwnKept` | `Spec => []OwnLabels` |
| `TemplateCollectorProofs` | `TypeCorrect` | `Spec => []TypeOK` |
| | `OwnRowsAlwaysSummed` | `Spec => []OwnRowsSummed` |
| | `AlwaysComputedAsNamed` | `Spec => []ComputedAsNamed` |
| | `OnlyTheQueryFails` | `Spec => []OnlyQueryFails` |
| `CollectorsProofs` | `TypeCorrect` | `Spec => []TypeOK` |
| | `NeverDiesOtherwise` | `Spec => []DiesOnlyKnown` |
| | `NoFamilyForgotten` | `Spec => []EveryFamilyShown` |
| | `NoFieldTwice` | `Spec => []FieldsApart` |
| | `AlwaysOneStateOn` | `Spec => []OneStateOn` |
| | `Refines` | `Spec => ImplementsCollection` |

Every module has one inductive invariant, the conjunction of the properties and of the
parts that make it inductive; each part has a lemma with a case for every action that
can disturb it, and `Inductive` combines them.

`ExporterProofs`. `IInv` is `TypeOK`, `StopHandedOver`, `RefresherQuiesced`,
`StatusFollowsExecute`, `StatusHonest` and `RequestsInOrder`.
`StatusFollowsExecute` ties what the SCM shows, the
status inside `service.run` and the echo inside a request to Execute's place in its
code: without it nothing excludes an answered Interrogate that takes the SCM
back to an older state, and nothing ties `StopPending` to the stop. `RequestsInOrder`
says where each Consul request was sent and that an acknowledged one is not
in the network any more: without it a late registration could overtake the
deregistration that was confirmed. The refinement maps every step of the process to a
step of `Lifecycle` or to a stutter (`RefinesStep`): the catalog changes only when
Consul applies a request, and it cannot apply a deregistration before `main` is past its
wait, which is what `RequestsInOrder` gives.

`RestartProofs`. `RequestsAccounted` says that a request on the wire or applied was
asked for, that it is not both, and that a confirmed one is applied; `CallsInOrder` that
the place of the running process tells which calls it has made; `LateBefore` that what is
late is a predecessor's. With them `EntryOrLate` says, of a process whose registration is
applied and whose deregistration is not, that the entry is its own unless a predecessor's
unconfirmed request came after it. `Withdrawn` says that there is no entry once the
deregistration of a process with a confirmed registration is applied and nothing came late.
The confirmation is necessary: a registration whose call failed can be applied after the
deregistration of the same process. Nothing is assumed of the predecessors' calls.

`ConfigProofs`. One part for each merged setting says what it is before and after the
step that merges it (`FileDecoded`, `AddressParsed`, `PathMerged`, `NamesMerged`,
`TickerMade`, `LoadedOnly`, `Served`); `NotStartable` says that an end on the way has its
cause in the inputs. `NamesMerged` is the one that needs thought: the names of the flag
are added one by one, so it relates what is still to be added to what is there.

`ScrapeProofs`. `InOrder` ties the three program counters of a scrape: the workers to
`collect`, `collect` to the handler. `ResultOfQuery` says that what a worker has still
to send, its rows and its result come from its query. `Delivered` says that what
is in the channel, or through it, is exactly what the workers have emitted so far.
`OwnChildren` does the same for the children of the summary vector that a scrape owes
to its own runs. They are needed because `ResponseComplete` and `OwnRunsReported` speak
of a scrape that is over, when all of that has to have come through the channel. The
theorems hold for any capacity of the channel.

`CollisionProofs` adds what decides about a 500: `Fresh`, that no summary is sent twice;
`Answered`, that the answer tells whether Gather has refused a metric; and that a
message repeats an earlier one, in the channel or behind it, exactly when two of the
rows emitted by one collector have equal labels.

`TagLabelsProofs` has two layers. `Types` (`Slices`, `Phases`, `Descs`, `Rows`) holds
whatever has been torn or written over: the headers and arrays, how far the refresher has
come, that a descriptor or a goroutine which shares an array finds as many elements in it
as its slice is long, and in the names' array no blank. The last is what is needed beyond
the types: an array that `append` has grown is longer than what has been written to
it, so a header that ran ahead of its array would make a label with a blank for its
name. `TypeCorrect` follows from it.

On top of it, as long as no append has written over the tags, is `Shape`, and
`IInv` is `Types /\ (~mixed => Shape)`. `Stored`, `Fetched` and `Valued` say what the
arrays and the fresh slices hold, in the order of the names. `DescOf` and `ReadOf` say of
a descriptor, and of a goroutine between `append` and `makeLabelPairs`, that what it has
is its own labels alone or the tags and then its own, that the part of its slice
which is shared is the tags', and that it still finds what it appended unless another
append came into the spare room (`KeptNames`, `KeptValues`). A metric is made only of
as many values as names, so both begin at the same place and each own name meets its
own value, also when a tag has that name (`TagsSent`, `OwnSent`). `MixedStays` makes the
implication inductive: once `mixed`, always `mixed`.

`TagsAllOrNone` and `OwnLabels` assume nothing about what the tags are called or how
many fit their array. For `NoRoom`, `OwnKept` shows that an append in place is one of
nothing (`PutNothing`, `Undisturbed`), since then no array is longer than the tags.

`TemplateCollectorProofs`. Of each goroutine, `Placed` says which of its rows are still to
be stored and that there is a metric where one is computed; `Based`, that the map it fills
is there and `c.lmap` has not gone back behind it; `Filled`, that as long as `c.lmap` is
that map the rows it has stored are in it; `Ranged` and `Listed`, what a range over the
map has put into the list so far, one entry for each core; `Sized`, that the list has as
many places as the range has cores. Of all of them, `Past`: no row is from a query to come;
`Alone`: with one scrape at a time one goroutine is at work and only it writes, which makes
`Filled` hold at the end of `collect` and excludes a concurrent map write. Without `Sized`
nothing excludes that the list is too short, and a store behind its end, or too long, and a
hole that the type assertion in `compute` trips over. `ComputedAsNamed` compares a fold over
a list, in the order of the range, with a sum or a greatest over the set of its cores.
`OneForOne`, `LastFirst` and `SumFolds`, `MaxFolds`, `MinFolds` show that they are the same.
The library defines its fold over a set by a function that chooses an element of the
set; `Recursion` shows that this function exists, and `AnyFirst` that the choice
does not matter to a sum. The induction over finite sets is by a smallest
counterexample (`Smallest`), for the library's rule takes an operator.

`CollectorsProofs` begins with the tables. The exports' types are whatever the
configuration makes them (`conf.counters`, `getType`), and their names are assumed to be
none of the names that the families of `test` have outside the program
(`ExportNamesAssumption`): of two descriptors with one such name Gather refuses the
second for its help (`registry.go:469`), which `Refuses` does not look at. For every section of every collector's samples,
`...Table` says that it is `Tabled`: its families are those described, each sample has as
many label values of its own as the descriptor has names behind the row's, and no two
samples of a family have the same ones. `Joined` says that two such tables, of different
families, make one; `TableOf` says it of all eleven collectors, and `SameTable` that a
collector's samples are the same for every row but for the fields that they show. What
follows is independent of the collectors. `SeenFrom` says that Gather has taken only
what the run has sent so far, `SeenAll` that for all it has sent there is a sample of that
family and those labels (a refused one is there already), `Collided` that of two rows with
one label the second has been refused, `Placed` where a run is. `EveryFamilyShown` is
`SeenAll` at the end of a run, `FieldsApart` is `SeenFrom` with the tables' `Apart`,
`OneStateOn` is both with the table of a service's thirteen texts: none of the three is
inductive, since they speak of a run that is over. For `Refines`, the start and the end of a
run and a panic are those of `Collection`, the first sample of a row and each export show
an item, and every other step is a stutter. The first sample of a row is refused exactly when
an earlier row has its label (`Collided` gives one direction, `SeenFrom` the other), and
a later one only if the first was.

Every invariant of a passing run is stated by a theorem, and so are the action property
and the two refinements of safety. Only model-checked is liveness: `StopTerminates`,
`ControlTaken`, `ScrapeEnds`, and of `ImplementsFairLifecycle` the fairness; it rests on
`ENABLED`, which is beyond the prover. Not proved for every input either is what
`TemplateFunctions` makes of a list inside a list, an endless recursion in the code; the
model has an end of its own for it.

## 6. Not modelled

- COM calls and the reflection that fills the query's structs: I/O and
  conversion. A query is a lock and an outcome.
- The arithmetic on a field's value (ticks to seconds, KiB to bytes, Windows time to Unix
  time, `system.go:122`): `Collectors` says which field is shown, not which number.
- The content of a Consul registration, the AWS requests, the JSON document: their
  outcomes are steps, their content is one entry or one label.
- The numbers of `test.go`, which are random; its families and samples are in `Collectors`.
- Expressions of several functions or variables; `govaluate` is external. The shipped
  configuration lists `ExportedMetrics` under `os` too, which is no template and never
  reads them.
- `toSnakeCase` and the template of the generator: a tool for developers, with no state.
- Metric formatting, quantile estimation, logging, health check and
  redirect, the installer and the build scripts: no state of the exporter.

## 7. What could come next

1. An abstract `ScrapeService` (a request is answered once, with the metrics of its own
   queries) that `Scrape` implements; today its content is the theorems `Complete`,
   `Reported` and `OnlyCollisions`.
2. That `Scrape` with its kinds of collectors follows from `Collection` step by step; today
   `Collectors` implements `Collection`, and `Scrape` is written by the same kinds.
3. One module that composes `Exporter` and `Restart`, for the catalog across several
   processes with everything that `main` does in between.
