------------------------------- MODULE Scrape -------------------------------
(***************************************************************************)
(* Concurrent scrapes of one exporter process: the HTTP handler and        *)
(* Registry.Gather of the vendored Prometheus client, WmiCollector.Collect *)
(* and execute (exporter.go), the collectors (collector/), the process-    *)
(* wide lock of the WMI client, and the summary vector that counts every   *)
(* collector's runs.                                                       *)
(*                                                                         *)
(* A metric is identified by the collector it comes from and its label     *)
(* values: the families a collector emits per WMI row all have that row's  *)
(* labels, so one metric per row stands for them.  The exporter's Go,      *)
(* process and version collectors only add metrics of other names.         *)
(***************************************************************************)
EXTENDS Naturals, Sequences, FiniteSets

CONSTANTS
  Scrapes,     \* requests for the metrics path, each served once
  Collectors,  \* the enabled collectors
  Kind,        \* Kind[c]: "rows", "single" or "template"
  Customs,     \* which template collectors may have ExportedMetrics
  Labelled,    \* collectors that add the AWS tag labels: cpu and the templates
  Rows,        \* instances a WMI class may have
  Skipped,     \* instances the collectors' filters leave out
  Label,       \* Label[r]: the label value of instance r
  ChanCap,     \* capacity of the metric channel
  MayTag,      \* may the AWS tag labels be refreshed to a non-empty list?
  Nobody       \* a value that is not a worker

Kinds   == {"rows", "single", "template"}
Outcome == {"success", "error"}
Workers == Scrapes \X Collectors

ASSUME ScrapesAssumption    == IsFiniteSet(Scrapes)
ASSUME CollectorsAssumption == IsFiniteSet(Collectors)
ASSUME KindAssumption       == Kind \in [Collectors -> Kinds]
ASSUME CustomAssumption     ==
  Customs \subseteq SUBSET {c \in Collectors : Kind[c] = "template"}
ASSUME LabelledAssumption   == Labelled \subseteq Collectors
ASSUME RowsAssumption       == Skipped \subseteq Rows /\ Label \in [Rows -> Rows]
ASSUME ChanCapAssumption    == ChanCap \in Nat \ {0}
ASSUME MayTagAssumption     == MayTag \in BOOLEAN
ASSUME NobodyAssumption     == Nobody \notin Workers

VARIABLES
  alive,    \* no goroutine has panicked
  custom,   \* the template collectors with ExportedMetrics
  tagged,   \* utils.TagLabelValues has as many entries as there are tags
  wmi,      \* the worker that holds the lock of the WMI client
  scrape,   \* scrape[s]: the handler's goroutine, in Registry.Gather
  collect,  \* collect[s]: the goroutine in WmiCollector.Collect
  wg,       \* wg[s]: the counter of Collect's WaitGroup
  worker,   \* worker[s][c]: the goroutine in execute
  rows,     \* rows[s][c]: what the query of the worker gave to emit
  todo,     \* todo[s][c]: the part of it that is not emitted yet
  result,   \* result[s][c]: execute's result
  failed,   \* failed[s]: the collectors whose WMI query failed (history)
  chan,     \* chan[s]: metricChan
  pending,  \* pending[s]: children of scrapeDurations still to send
  seen,     \* seen[s]: metrics accepted by Gather
  errs,     \* errs[s]: Gather has met a metric it refuses
  obs       \* obs[c][o]: observations in scrapeDurations

workerVars == <<worker, rows, todo, result, failed>>
gatherVars == <<scrape, seen, errs>>
vars == <<alive, custom, tagged, wmi, collect, wg, workerVars, chan, pending,
          gatherVars, obs>>

Metric(c, r) == [coll |-> c, label |-> r]
Data         == [coll : Collectors, label : Rows \cup {"", "custom"}]
Child(c, o)  == [summary |-> c, result |-> o]
Children     == [summary : Collectors, result : Outcome]

\* What a worker emits for a query's rows: a "single" collector reads dst[0]
\* and labels nothing, the others send a metric for each row that its filter
\* keeps, and a template adds its computed metrics.
ToEmit(c, R) ==
  (CASE Kind[c] = "single" -> {""}
     [] Kind[c] = "rows"   -> R \ Skipped
     [] OTHER              -> R) \cup (IF c \in custom THEN {"custom"} ELSE {})
LabelOf(r) == IF r \in Rows THEN Label[r] ELSE r

TypeOK ==
  /\ alive \in BOOLEAN /\ custom \in Customs /\ tagged \in BOOLEAN
  /\ wmi \in Workers \cup {Nobody}
  /\ scrape \in [Scrapes -> {"new", "gather", "ok", "error"}]
  /\ collect \in [Scrapes -> {"off", "spawn", "wait", "summaries", "done"}]
  /\ wg \in [Scrapes -> 0..Cardinality(Collectors)]
  /\ worker \in [Scrapes -> [Collectors ->
       {"off", "query", "emit", "observe", "missed", "create", "observed",
        "done"}]]
  /\ rows \in [Scrapes -> [Collectors -> SUBSET (Rows \cup {"", "custom"})]]
  /\ todo \in [Scrapes -> [Collectors -> SUBSET (Rows \cup {"", "custom"})]]
  /\ result \in [Scrapes -> [Collectors -> Outcome \cup {"none"}]]
  /\ failed \in [Scrapes -> SUBSET Collectors]
  /\ chan \in [Scrapes -> Seq(Data \cup Children)]
  /\ \A s \in Scrapes : Len(chan[s]) <= ChanCap
  /\ pending \in [Scrapes -> SUBSET Children]
  /\ seen \in [Scrapes -> SUBSET (Data \cup Children)]
  /\ errs \in [Scrapes -> BOOLEAN]
  /\ obs \in [Collectors -> [Outcome -> 0..Cardinality(Scrapes)]]

Init ==
  /\ alive = TRUE /\ custom \in Customs /\ tagged = FALSE /\ wmi = Nobody
  /\ scrape = [s \in Scrapes |-> "new"]
  /\ collect = [s \in Scrapes |-> "off"]
  /\ wg = [s \in Scrapes |-> 0]
  /\ worker = [s \in Scrapes |-> [c \in Collectors |-> "off"]]
  /\ rows = [s \in Scrapes |-> [c \in Collectors |-> {}]]
  /\ todo = [s \in Scrapes |-> [c \in Collectors |-> {}]]
  /\ result = [s \in Scrapes |-> [c \in Collectors |-> "none"]]
  /\ failed = [s \in Scrapes |-> {}]
  /\ chan = [s \in Scrapes |-> <<>>]
  /\ pending = [s \in Scrapes |-> {}]
  /\ seen = [s \in Scrapes |-> {}]
  /\ errs = [s \in Scrapes |-> FALSE]
  /\ obs = [c \in Collectors |-> [o \in Outcome |-> 0]]

\* A panic in any goroutine ends the process.
Panic ==
  /\ alive' = FALSE
  /\ UNCHANGED <<custom, tagged, wmi, collect, wg, workerVars, chan, pending,
                 gatherVars, obs>>

-----------------------------------------------------------------------------
(* The handler: Gather starts the collection and drains metricChan.        *)

Request(s) ==
  /\ alive /\ scrape[s] = "new"
  /\ scrape' = [scrape EXCEPT ![s] = "gather"]
  /\ collect' = [collect EXCEPT ![s] = "spawn"]
  /\ UNCHANGED <<alive, custom, tagged, wmi, wg, workerVars, chan, pending, seen,
                 errs, obs>>

\* Mutant: checkMetricConsistency does not refuse a duplicate.
ReceiveAnything(s) ==
  /\ alive /\ scrape[s] = "gather" /\ chan[s] # <<>>
  /\ chan' = [chan EXCEPT ![s] = Tail(chan[s])]
  /\ seen' = [seen EXCEPT ![s] = @ \cup {Head(chan[s])}]
  /\ UNCHANGED <<alive, custom, tagged, wmi, collect, wg, workerVars, pending, scrape,
                 errs, obs>>

\* checkMetricConsistency refuses a metric with a name and labels seen before.
Receive(s) ==
  /\ alive /\ scrape[s] = "gather" /\ chan[s] # <<>>
  /\ chan' = [chan EXCEPT ![s] = Tail(chan[s])]
  /\ errs' = [errs EXCEPT ![s] = @ \/ Head(chan[s]) \in seen[s]]
  /\ seen' = [seen EXCEPT ![s] = @ \cup {Head(chan[s])}]
  /\ UNCHANGED <<alive, custom, tagged, wmi, collect, wg, workerVars, pending, scrape,
                 obs>>

\* Mutant: metricChan, found empty, is taken for closed.
RespondEarly(s) ==
  /\ alive /\ scrape[s] = "gather" /\ chan[s] = <<>>
  /\ scrape' = [scrape EXCEPT ![s] = IF errs[s] THEN "error" ELSE "ok"]
  /\ UNCHANGED <<alive, custom, tagged, wmi, collect, wg, workerVars, chan, pending,
                 seen, errs, obs>>

\* metricChan is closed once Collect has returned; any error makes it a 500.
Respond(s) ==
  /\ alive /\ scrape[s] = "gather" /\ collect[s] = "done" /\ chan[s] = <<>>
  /\ scrape' = [scrape EXCEPT ![s] = IF errs[s] THEN "error" ELSE "ok"]
  /\ UNCHANGED <<alive, custom, tagged, wmi, collect, wg, workerVars, chan, pending,
                 seen, errs, obs>>

Send(s, m) == Len(chan[s]) < ChanCap /\ chan' = [chan EXCEPT ![s] = Append(@, m)]

-----------------------------------------------------------------------------
(* WmiCollector.Collect.                                                   *)

\* Mutant: wg.Add counts one goroutine.
SpawnAddOne(s) ==
  /\ alive /\ collect[s] = "spawn"
  /\ collect' = [collect EXCEPT ![s] = "wait"]
  /\ wg' = [wg EXCEPT ![s] = 1]
  /\ worker' = [worker EXCEPT ![s] = [c \in Collectors |-> "query"]]
  /\ UNCHANGED <<alive, custom, tagged, wmi, rows, todo, result, failed, chan, pending,
                 gatherVars, obs>>

\* wg.Add(len(coll.collectors)), and one goroutine for each.
Spawn(s) ==
  /\ alive /\ collect[s] = "spawn"
  /\ collect' = [collect EXCEPT ![s] = "wait"]
  /\ wg' = [wg EXCEPT ![s] = Cardinality(Collectors)]
  /\ worker' = [worker EXCEPT ![s] = [c \in Collectors |-> "query"]]
  /\ UNCHANGED <<alive, custom, tagged, wmi, rows, todo, result, failed, chan, pending,
                 gatherVars, obs>>

\* A goroutine waits for the write lock of scrapeDurations, and one holds its
\* read lock: the lock lets no reader in before a waiting writer.
WriterWaits == \E s \in Scrapes, c \in Collectors : worker[s][c] = "create"
ReaderHolds == \E s \in Scrapes : collect[s] = "summaries"

\* Mutant: the summaries are collected before wg.Wait().
WaitAfterwards(s) ==
  /\ alive /\ collect[s] = "wait" /\ ~WriterWaits
  /\ collect' = [collect EXCEPT ![s] = "summaries"]
  /\ pending' = [pending EXCEPT ![s] =
                   {m \in Children : obs[m.summary][m.result] > 0}]
  /\ UNCHANGED <<alive, custom, tagged, wmi, wg, workerVars, chan, gatherVars, obs>>

\* wg.Wait() returns; scrapeDurations.Collect takes its read lock.
Wait(s) ==
  /\ alive /\ collect[s] = "wait" /\ wg[s] = 0 /\ ~WriterWaits
  /\ collect' = [collect EXCEPT ![s] = "summaries"]
  /\ pending' = [pending EXCEPT ![s] =
                   {m \in Children : obs[m.summary][m.result] > 0}]
  /\ UNCHANGED <<alive, custom, tagged, wmi, wg, workerVars, chan, gatherVars, obs>>

SendChild(s) ==
  /\ alive /\ collect[s] = "summaries"
  /\ \E m \in pending[s] :
       /\ Send(s, m)
       /\ pending' = [pending EXCEPT ![s] = @ \ {m}]
  /\ UNCHANGED <<alive, custom, tagged, wmi, collect, wg, workerVars, gatherVars, obs>>

\* Collect returns, and Gather's WaitGroup lets metricChan be closed.
Close(s) ==
  /\ alive /\ collect[s] = "summaries" /\ pending[s] = {}
  /\ collect' = [collect EXCEPT ![s] = "done"]
  /\ UNCHANGED <<alive, custom, tagged, wmi, wg, workerVars, chan, pending, gatherVars,
                 obs>>

-----------------------------------------------------------------------------
(* execute: the collector's Collect, then the observation, then wg.Done(). *)

Step(s, c, from, to) ==
  /\ alive /\ worker[s][c] = from
  /\ worker' = [worker EXCEPT ![s][c] = to]

\* wmi.Query waits for the one lock of the WMI client.
Lock(s, c) ==
  /\ alive /\ worker[s][c] = "query" /\ wmi = Nobody
  /\ wmi' = <<s, c>>
  /\ UNCHANGED <<alive, custom, tagged, collect, wg, workerVars, chan, pending,
                 gatherVars, obs>>

\* Mutant: a failed query is tried again until it succeeds.
QueryFailsRetry(s, c) ==
  /\ alive /\ wmi = <<s, c>> /\ wmi' = Nobody
  /\ UNCHANGED <<alive, custom, tagged, collect, wg, workerVars, chan, pending,
                 gatherVars, obs>>

\* An error.  A template drops it (templatedcollector.go:61): with computed
\* metrics it then calls a method of the nil template and panics, without it
\* reports a success.
QueryFails(s, c) ==
  /\ alive /\ wmi = <<s, c>>
  /\ \/ /\ c \notin custom
        /\ Step(s, c, "query", "observe") /\ wmi' = Nobody
        /\ result' = [result EXCEPT ![s][c] =
                        IF Kind[c] = "template" THEN "success" ELSE "error"]
        /\ failed' = [failed EXCEPT ![s] = @ \cup {c}]
        /\ UNCHANGED <<alive, custom, tagged, collect, wg, rows, todo, chan, pending,
                       gatherVars, obs>>
     \/ c \in custom /\ Panic

\* Rows.  dst[0] of an empty result is out of range.
QueryReturns(s, c, R) ==
  /\ alive /\ wmi = <<s, c>>
  /\ \/ /\ Kind[c] = "single" => R # {}
        /\ Step(s, c, "query", IF ToEmit(c, R) = {} THEN "observe" ELSE "emit")
        /\ wmi' = Nobody
        /\ rows' = [rows EXCEPT ![s][c] = ToEmit(c, R)]
        /\ todo' = [todo EXCEPT ![s][c] = ToEmit(c, R)]
        /\ result' = [result EXCEPT ![s][c] = "success"]
        /\ UNCHANGED <<alive, custom, tagged, collect, wg, failed, chan, pending,
                       gatherVars, obs>>
     \/ Kind[c] = "single" /\ R = {} /\ Panic

\* ch <- MustNewConstMetric(...).  The descriptors were built before the first
\* tag refresh and the label values are read at each emission, so after a
\* refresh their number differs, and MustNewConstMetric panics.
Emit(s, c) ==
  \/ /\ ~(tagged /\ c \in Labelled)
     /\ \E r \in todo[s][c] :
          /\ Step(s, c, "emit", IF todo[s][c] = {r} THEN "observe" ELSE "emit")
          /\ Send(s, Metric(c, LabelOf(r)))
          /\ todo' = [todo EXCEPT ![s][c] = @ \ {r}]
     /\ UNCHANGED <<alive, custom, tagged, wmi, collect, wg, rows, result, failed,
                    pending, gatherVars, obs>>
  \/ /\ alive /\ worker[s][c] = "emit" /\ tagged /\ c \in Labelled
     /\ Panic

\* scrapeDurations.WithLabelValues(name, result).Observe: an existing child is
\* found under the read lock; when there is none, the lock is given back
\* before the write lock is asked for.
Observe(s, c) ==
  /\ ~WriterWaits
  /\ \/ /\ Step(s, c, "observe", "observed")
        /\ obs[c][result[s][c]] > 0
        /\ obs' = [obs EXCEPT ![c][result[s][c]] = @ + 1]
     \/ /\ Step(s, c, "observe", "missed")
        /\ obs[c][result[s][c]] = 0
        /\ UNCHANGED obs
  /\ UNCHANGED <<alive, custom, tagged, wmi, collect, wg, rows, todo, result, failed,
                 chan, pending, gatherVars>>

\* The write lock is asked for: from here on it keeps new readers out.
AskToCreate(s, c) ==
  /\ Step(s, c, "missed", "create")
  /\ UNCHANGED <<alive, custom, tagged, wmi, collect, wg, rows, todo, result, failed,
                 chan, pending, gatherVars, obs>>

\* Mutant: the child is created without a second look.
CreateUnchecked(s, c) ==
  /\ ~ReaderHolds /\ Step(s, c, "create", "observed")
  /\ obs' = [obs EXCEPT ![c][result[s][c]] = 1]
  /\ UNCHANGED <<alive, custom, tagged, wmi, collect, wg, rows, todo, result, failed,
                 chan, pending, gatherVars>>

\* Under the write lock the child is looked up again before it is created.
Create(s, c) ==
  /\ ~ReaderHolds /\ Step(s, c, "create", "observed")
  /\ obs' = [obs EXCEPT ![c][result[s][c]] = @ + 1]
  /\ UNCHANGED <<alive, custom, tagged, wmi, collect, wg, rows, todo, result, failed,
                 chan, pending, gatherVars>>

Done(s, c) ==
  /\ Step(s, c, "observed", "done")
  /\ wg' = [wg EXCEPT ![s] = @ - 1]
  /\ UNCHANGED <<alive, custom, tagged, wmi, collect, rows, todo, result, failed, chan,
                 pending, gatherVars, obs>>

\* The ticker goroutine fills utils.TagLabelNames and TagLabelValues.
RefreshTags ==
  /\ alive /\ MayTag /\ ~tagged /\ tagged' = TRUE
  /\ UNCHANGED <<alive, custom, wmi, collect, wg, workerVars, chan, pending,
                 gatherVars, obs>>

-----------------------------------------------------------------------------
Gather(s) == Request(s) \/ Receive(s) \/ Respond(s)
Collect(s) == Spawn(s) \/ Wait(s) \/ SendChild(s) \/ Close(s)
Query(s, c) == QueryFails(s, c) \/ \E R \in SUBSET Rows : QueryReturns(s, c, R)
Execute(s, c) == \/ Lock(s, c) \/ Query(s, c) \/ Emit(s, c) \/ Observe(s, c)
                 \/ AskToCreate(s, c) \/ Create(s, c) \/ Done(s, c)

\* The process is gone, or every request has been answered.
Rest ==
  /\ ~alive \/ \A s \in Scrapes : scrape[s] \in {"ok", "error"}
  /\ UNCHANGED vars

Next ==
  \/ \E s \in Scrapes : Gather(s) \/ Collect(s) \/ \E c \in Collectors : Execute(s, c)
  \/ RefreshTags
  \/ Rest

\* Every goroutine that can take its next step takes it, and a WMI query
\* returns.  No request has to arrive.  Each request being served once, no
\* stronger fairness of the locks is needed.
Fairness ==
  \A s \in Scrapes :
    /\ WF_vars(Receive(s) \/ Respond(s))
    /\ WF_vars(Collect(s))
    /\ \A c \in Collectors : WF_vars(Execute(s, c))

Spec == Init /\ [][Next]_vars
FairSpec == Spec /\ Fairness

-----------------------------------------------------------------------------
(* Safety.                                                                 *)

\* The WaitGroup of Collect (exporter.go:57-65) counts the workers that have
\* not called Done: it never goes negative, and reaches zero only when all have.
WaitGroupExact ==
  \A s \in Scrapes : collect[s] \notin {"off", "spawn"} =>
    wg[s] = Cardinality({c \in Collectors : worker[s][c] # "done"})

\* Once Collect has returned and Gather may close metricChan, no worker is left
\* that could send on it (a send on a closed channel panics), and none runs on
\* after its scrape has been answered.
NoSendAfterClose ==
  \A s \in Scrapes : collect[s] \in {"summaries", "done"} =>
    \A c \in Collectors : worker[s][c] = "done"

Expected(s) ==
  UNION {{Metric(c, LabelOf(r)) : r \in rows[s][c]} : c \in Collectors}

\* A scrape answered with 200 holds exactly the metrics its own queries gave,
\* none of another scrape's and none lost in the channel, whichever collectors
\* failed (http.go:73, registry.go:455).
ResponseComplete ==
  \A s \in Scrapes : scrape[s] = "ok" => seen[s] \cap Data = Expected(s)

\* ... and it already counts the run of every collector in this very scrape,
\* since the summaries are sent after wg.Wait() (exporter.go:65-66): as an error if
\* its query failed, unless it is a template collector, whose failed runs count as
\* successes (templatedcollector.go:61).
OwnRunsReported ==
  \A s \in Scrapes : scrape[s] = "ok" =>
    \A c \in Collectors :
      Child(c, IF c \in failed[s] /\ Kind[c] # "template" THEN "error" ELSE "success")
        \in seen[s]

\* The whole scrape fails for one reason only: two instances of one WMI class
\* that are given the same labels, such as two NICs whose mangled names are
\* equal (net.go:136).  A collector's error never fails the other collectors.
FailsOnlyOnCollision ==
  \A s \in Scrapes : scrape[s] \in {"ok", "error"} =>
    (scrape[s] = "error" <=>
       \E c \in Collectors : \E q, r \in rows[s][c] :
         q # r /\ LabelOf(q) = LabelOf(r))

\* scrapeDurations has one observation per finished run of a collector, under
\* the result execute gave it, however the scrapes interleave (exporter.go:83).
RunsCounted ==
  \A c \in Collectors, o \in Outcome :
    obs[c][o] = Cardinality({s \in Scrapes :
                  worker[s][c] \in {"observed", "done"} /\ result[s][c] = o})

-----------------------------------------------------------------------------
(* Liveness, under FairSpec.                                               *)

\* Every request is answered unless the process dies: a failed query gives the
\* WMI lock back, a full metric channel is drained, and holding the lock of
\* scrapeDurations while sending blocks nobody for good.
ScrapeEnds ==
  \A s \in Scrapes :
    scrape[s] = "gather" ~> scrape[s] \in {"ok", "error"} \/ ~alive
=============================================================================
