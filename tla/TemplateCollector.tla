-------------------------- MODULE TemplateCollector --------------------------
(***************************************************************************)
(* The template collector tcpu (templatedcollector.go, tcpu.go): every     *)
(* scrape queries WMI, stores its rows in the map lmap, which all scrapes  *)
(* share and none locks, and then computes the metrics of the configuration *)
(* from that map.                                                          *)
(*                                                                         *)
(* A write to a Go map has a beginning and an end.  Whoever else touches   *)
(* the map in between is caught by the runtime, which ends the process, or *)
(* is not, and then the map's content is undefined; both are the end       *)
(* "concurrent map", beyond which nothing is said.                         *)
(*                                                                         *)
(* The metrics a scrape sends for its own rows are in module Scrape.       *)
(***************************************************************************)
EXTENDS TemplateFunctions

CONSTANTS
  Cores,    \* names of the rows of Win32_PerfFormattedData_PerfOS_Processor
  Workers,  \* goroutines of execute for tcpu, of as many scrapes at once
  Configs,  \* the ExportedMetrics, in order, of each configuration
  Reading,  \* Reading[c][r]: the number in c's row of the r-th query that returns
  All,      \* the core of a variable name that selects none
  MaxRuns   \* bound: the queries that return rows

\* A metric: whether it has ComputeLogic, one function of one variable, that parsed;
\* that function; its variable's core; whether the variable has one number per core
\* (time_total without a mode has five); and whether the function is given the
\* variable's list a second time, which it finds as a list inside its arguments.
MetricType == [computed : BOOLEAN, parsed : BOOLEAN, function : FunctionNames,
               core : Cores \cup {All}, scalar : BOOLEAN, nested : BOOLEAN]

ASSUME CoresAssumption   == IsFiniteSet(Cores) /\ All \notin Cores
ASSUME ConfigsAssumption == Configs \subseteq Seq(MetricType)
ASSUME RunsAssumption    == MaxRuns \in Nat
\* The numbers are unsigned, and a core that has no row has Go's zero.
ASSUME ReadingAssumption == /\ Reading \in [Cores -> [0..MaxRuns -> Nat]]
                            /\ \A c \in Cores : Reading[c][0] = 0

VARIABLES
  metrics,  \* the configuration's metrics
  serial,   \* do the scrapes come one at a time?
  proc,     \* "running", or what ended the process
  run,      \* the number of queries that have returned rows
  maps,     \* every map made so far: [rows, writers]
  lmap,     \* the map that c.lmap refers to, 0 for nil
  worker,   \* worker[w]: the goroutine w in collect and compute
  sent      \* sent[w]: the last computed metric it sent

vars == <<metrics, serial, proc, run, maps, lmap, worker, sent>>

-----------------------------------------------------------------------------
\* A row is known by the query it came from; 0: the map has none, and Go gives
\* the zero value.
EmptyMap    == [rows |-> [c \in Cores |-> 0], writers |-> {}]
Present(k)  == {c \in Cores : maps[k].rows[c] # 0}
Value(c)    == <<c, maps[lmap].rows[c]>>
Written(k)  == maps[k].writers # {}

Blank == [pc |-> "idle", run |-> 0, rows |-> {}, todo |-> {}, base |-> 0,
          into |-> 0, key |-> All, next |-> 1,
          size |-> 0, iter |-> 0, must |-> {}, list |-> <<>>]
Seen(w) == {worker[w].list[i][1] : i \in 1..Len(worker[w].list)}

PCs  == {"idle", "check", "make", "store", "storing", "metric", "list", "range", "eval"}
Ends == {"nil template", "nil expression", "interface conversion",
         "index out of range", "concurrent map", "stack overflow"}
List == Seq(Cores \X (0..MaxRuns))

TypeOK ==
  /\ metrics \in Configs /\ serial \in BOOLEAN
  /\ proc \in {"running"} \cup Ends
  /\ run \in 0..MaxRuns
  /\ \A k \in 1..Len(maps) : /\ maps[k].rows \in [Cores -> 0..run]
                             /\ maps[k].writers \subseteq Workers
  /\ lmap \in 0..Len(maps)
  /\ \A w \in Workers :
       /\ worker[w].pc \in PCs /\ worker[w].run \in 0..run
       /\ worker[w].todo \subseteq worker[w].rows /\ worker[w].rows \subseteq Cores
       /\ worker[w].list \in List /\ worker[w].must \subseteq Cores
       /\ worker[w].size \in 0..Cardinality(Cores)
       /\ worker[w].iter \in 0..Len(maps) /\ worker[w].base \in 0..Len(maps)
       /\ worker[w].next \in 1..Len(metrics) + 1
       /\ sent[w].list \in List /\ sent[w].metric \in 0..Len(metrics)

Init ==
  /\ metrics \in Configs /\ serial \in BOOLEAN
  /\ proc = "running" /\ run = 0 /\ maps = <<>> /\ lmap = 0
  /\ worker = [w \in Workers |-> Blank]
  /\ sent = [w \in Workers |-> [metric |-> 0, run |-> 0, rows |-> {}, list |-> <<>>,
                              value |-> NoNumber]]

At(w, pc) == proc = "running" /\ worker[w].pc = pc
Die(how)  == proc' = how /\ UNCHANGED <<metrics, serial, run, maps, lmap, worker, sent>>
Become(w, new) == worker' = [worker EXCEPT ![w] = new]

-----------------------------------------------------------------------------
(* collect: the rows of a query go into the shared map.                    *)

MayStart(w) ==
  At(w, "idle") /\ (serial => \A v \in Workers : worker[v].pc = "idle")

Query(w) ==
  /\ MayStart(w) /\ run < MaxRuns /\ run' = run + 1
  /\ \E rows \in SUBSET Cores :
       Become(w, [Blank EXCEPT !.pc = "check", !.run = run + 1,
                               !.rows = rows, !.todo = rows])
  /\ UNCHANGED <<metrics, serial, proc, maps, lmap, sent>>

\* The error is dropped: Collect goes on with a nil template, whose getValue the
\* first metric calls; without metrics it returns.
QueryFails(w) ==
  /\ MayStart(w) /\ metrics # <<>>
  /\ Die("nil template")

\* if c.lmap == nil
CheckMap(w) ==
  /\ At(w, "check")
  /\ Become(w, [worker[w] EXCEPT !.pc = IF lmap = 0 THEN "make" ELSE "store",
                                 !.base = lmap])
  /\ UNCHANGED <<metrics, serial, proc, run, maps, lmap, sent>>

MakeMap(w) ==
  /\ At(w, "make")
  /\ maps' = Append(maps, EmptyMap) /\ lmap' = Len(maps) + 1
  /\ Become(w, [worker[w] EXCEPT !.pc = "store", !.base = Len(maps) + 1])
  /\ UNCHANGED <<metrics, serial, proc, run, sent>>

StoreBegins(w) ==
  /\ At(w, "store")
  /\ \E c \in worker[w].todo :
       \/ Written(lmap) /\ Die("concurrent map")
       \/ /\ ~Written(lmap)
          /\ maps' = [maps EXCEPT ![lmap].writers = {w}]
          /\ Become(w, [worker[w] EXCEPT !.pc = "storing", !.into = lmap, !.key = c])
          /\ UNCHANGED <<metrics, serial, proc, run, lmap, sent>>

\* Mutant: a core's row is stored once.
StoreEndsOnce(w) ==
  /\ At(w, "storing")
  /\ LET k == worker[w].into  c == worker[w].key
     IN  /\ maps' = [maps EXCEPT ![k].writers = {},
                       ![k].rows[c] = IF @ = 0 THEN worker[w].run ELSE @]
         /\ Become(w, [worker[w] EXCEPT !.pc = "store", !.todo = @ \ {c}])
  /\ UNCHANGED <<metrics, serial, proc, run, lmap, sent>>

\* c.lmap[data.Name] = data, over the row of whichever scrape was there.
StoreEnds(w) ==
  /\ At(w, "storing")
  /\ LET k == worker[w].into  c == worker[w].key
     IN  /\ maps' = [maps EXCEPT ![k].writers = {}, ![k].rows[c] = worker[w].run]
         /\ Become(w, [worker[w] EXCEPT !.pc = "store", !.todo = @ \ {c}])
  /\ UNCHANGED <<metrics, serial, proc, run, lmap, sent>>

Collected(w) ==
  /\ At(w, "store") /\ worker[w].todo = {}
  /\ Become(w, [worker[w] EXCEPT !.pc = "metric"])
  /\ UNCHANGED <<metrics, serial, proc, run, maps, lmap, sent>>

-----------------------------------------------------------------------------
(* compute, for each metric of the configuration: getValue reads the map,  *)
(* one core or all of them, and the function is applied.                   *)

Metric(w) == metrics[worker[w].next]

\* e.Vars() of an expression that did not parse.
NilExpression(w) ==
  /\ At(w, "metric") /\ worker[w].next <= Len(metrics)
  /\ Metric(w).computed /\ ~Metric(w).parsed
  /\ Die("nil expression")

Computes(w) ==
  /\ At(w, "metric") /\ worker[w].next <= Len(metrics)
  /\ Metric(w).computed => Metric(w).parsed

\* A variable with a core: getCoreValue(name, core, ...).
ReadCore(w) ==
  /\ Computes(w) /\ Metric(w).core # All
  /\ \/ Written(lmap) /\ Die("concurrent map")
     \/ /\ ~Written(lmap)
        /\ Become(w, [worker[w] EXCEPT !.pc = "eval", !.list = <<Value(Metric(w).core)>>,
                                       !.size = 1])
        /\ UNCHANGED <<metrics, serial, proc, run, maps, lmap, sent>>

\* Mutant: the list is made for the rows of this scrape.
MakeListOwnRows(w) ==
  /\ Computes(w) /\ Metric(w).core = All
  /\ Become(w, [worker[w] EXCEPT !.pc = "list", !.list = <<>>,
                                 !.size = Cardinality(worker[w].rows)])
  /\ UNCHANGED <<metrics, serial, proc, run, maps, lmap, sent>>

\* Mutant: one element too many.
MakeListOneMore(w) ==
  /\ Computes(w) /\ Metric(w).core = All
  /\ Become(w, [worker[w] EXCEPT !.pc = "list", !.list = <<>>,
                                 !.size = Cardinality(Present(lmap)) + 1])
  /\ UNCHANGED <<metrics, serial, proc, run, maps, lmap, sent>>

\* t := make([]interface{}, len(c.lmap))
MakeList(w) ==
  /\ Computes(w) /\ Metric(w).core = All
  /\ Become(w, [worker[w] EXCEPT !.pc = "list", !.list = <<>>,
                                 !.size = Cardinality(Present(lmap))])
  /\ UNCHANGED <<metrics, serial, proc, run, maps, lmap, sent>>

\* The range has a map of its own from here on, and comes to every core in it;
\* to one that is added later it may or may not.
RangeBegins(w) ==
  /\ At(w, "list")
  /\ \/ Written(lmap) /\ Die("concurrent map")
     \/ /\ ~Written(lmap)
        /\ Become(w, [worker[w] EXCEPT !.pc = "range", !.iter = lmap,
                                       !.must = Present(lmap)])
        /\ UNCHANGED <<metrics, serial, proc, run, maps, lmap, sent>>

\* t[i] = c.getCoreValue(name, k, mode, state), from the map c.lmap is now.
RangeNext(w) ==
  /\ At(w, "range")
  /\ \E c \in Present(worker[w].iter) \ Seen(w) :
       \/ (Written(worker[w].iter) \/ Written(lmap)) /\ Die("concurrent map")
       \/ /\ ~Written(worker[w].iter) /\ ~Written(lmap)
          /\ Len(worker[w].list) >= worker[w].size
          /\ Die("index out of range")
       \/ /\ ~Written(worker[w].iter) /\ ~Written(lmap)
          /\ Len(worker[w].list) < worker[w].size
          /\ Become(w, [worker[w] EXCEPT !.list = Append(@, Value(c))])
          /\ UNCHANGED <<metrics, serial, proc, run, maps, lmap, sent>>

RangeEnds(w) ==
  /\ At(w, "range") /\ worker[w].must \subseteq Seen(w)
  /\ \/ Written(worker[w].iter) /\ Die("concurrent map")
     \/ /\ ~Written(worker[w].iter)
        /\ Become(w, [worker[w] EXCEPT !.pc = "eval"])
        /\ UNCHANGED <<metrics, serial, proc, run, maps, lmap, sent>>

\* What is no number is refused by x.(float64): an element the range left nil, a
\* core's list of modes, the list itself if nothing is computed from it.  count
\* alone asks for no number.
Refused(w) ==
  IF Metric(w).computed
  THEN /\ Metric(w).function # "count"
       /\ \/ Len(worker[w].list) < worker[w].size
          \/ ~Metric(w).scalar /\ worker[w].list # <<>>
  ELSE Metric(w).core = All \/ ~Metric(w).scalar

\* The function's arguments, one for each place of the list.
Arguments(w) == [i \in 1..worker[w].size |->
  IF i > Len(worker[w].list) THEN 0
  ELSE Reading[worker[w].list[i][1]][worker[w].list[i][2]]]

Computed(w) == IF Metric(w).computed THEN Apply(Metric(w).function, Arguments(w))
                                     ELSE <<Arguments(w)[1], 1>>

\* sent keeps the value, what it was computed from, and the scrape's own rows if
\* they are in the map that c.lmap still is.
Evaluate(w) ==
  /\ At(w, "eval")
  /\ \/ Refused(w) /\ Die("interface conversion")
     \/ ~Refused(w) /\ Metric(w).nested /\ Die("stack overflow")
     \/ /\ ~Refused(w) /\ ~Metric(w).nested
        /\ sent' = [sent EXCEPT ![w] = [metric |-> worker[w].next, run |-> worker[w].run,
                      rows |-> IF worker[w].base = lmap THEN worker[w].rows ELSE {},
                      list |-> worker[w].list, value |-> Computed(w)]]
        /\ Become(w, [worker[w] EXCEPT !.pc = "metric", !.next = @ + 1])
        /\ UNCHANGED <<metrics, serial, proc, run, maps, lmap>>

Return(w) ==
  /\ At(w, "metric") /\ worker[w].next > Len(metrics)
  /\ Become(w, Blank)
  /\ UNCHANGED <<metrics, serial, proc, run, maps, lmap, sent>>

-----------------------------------------------------------------------------
Collect(w) == \/ Query(w) \/ QueryFails(w) \/ CheckMap(w) \/ MakeMap(w)
              \/ StoreBegins(w) \/ StoreEnds(w) \/ Collected(w)
Compute(w) == \/ NilExpression(w) \/ ReadCore(w) \/ MakeList(w)
              \/ RangeBegins(w) \/ RangeNext(w) \/ RangeEnds(w)
              \/ Evaluate(w) \/ Return(w)

\* An ended process rests, and so does one that is asked for no more rows.
Rest ==
  /\ proc # "running" \/ (run = MaxRuns /\ \A w \in Workers : worker[w].pc = "idle")
  /\ UNCHANGED vars

Next == (\E w \in Workers : Collect(w) \/ Compute(w)) \/ Rest
Spec == Init /\ [][Next]_vars

-----------------------------------------------------------------------------
(* Safety.                                                                 *)

\* Whether what w sent last was computed over all cores.
OverAll(w) == sent[w].metric # 0 /\ metrics[sent[w].metric].core = All

\* What a scrape computes over all cores has every core that its own query
\* returned, with a row that some query returned, as long as no other scrape put
\* a new map in the place of the one it filled; and, with one scrape at a time,
\* with the row of its own query, even where older cores stay in the map (tcpu.go
\* lines 211-217 and 57-62).
OwnRowsSummed ==
  \A w \in Workers : OverAll(w) =>
    \A c \in sent[w].rows : \E i \in 1..Len(sent[w].list) :
      /\ sent[w].list[i][1] = c /\ sent[w].list[i][2] > 0
      /\ serial => sent[w].list[i][2] = sent[w].run

WellTyped(m) == m.scalar /\ ~m.nested /\ (IF m.computed THEN m.parsed ELSE m.core # All)

\* One scrape at a time, of metrics whose values are numbers, only ever fails on
\* the query: the list fits the range over the map and has no hole, whatever
\* cores came and went before.
OnlyQueryFails ==
  serial /\ (\A i \in 1..Len(metrics) : WellTyped(metrics[i]))
    => proc \in {"running", "nil template"}

\* What a function's name says of one reading for each core in the list.  The least
\* is not: min starts from 0 as max does, and is 0 whatever the rows.
AsNamed(function, list) ==
  LET cores == {list[i][1] : i \in 1..Len(list)}
      Of(c) == Reading[c][list[CHOOSE i \in 1..Len(list) : list[i][1] = c][2]]
      Total == MapThenSumSet(Of, cores)
  IN  CASE function = "sum"     -> <<Total, 1>>
        [] function = "count"   -> <<Cardinality(cores), 1>>
        [] function = "average" -> <<Total, Cardinality(cores)>>
        [] function = "max"     -> <<Max({Of(c) : c \in cores} \cup {0}), 1>>
        [] function = "min"     -> <<0, 1>>

\* With one scrape at a time, a function over all cores is what its name says, of one
\* reading for each core that any query returned and none for another: the sum,
\* the number and the greatest of them, and their average, which is not a number if
\* there are none (templatefunctions.go lines 22-86).
ComputedAsNamed ==
  serial => \A w \in Workers : OverAll(w) /\ metrics[sent[w].metric].computed =>
    sent[w].value = AsNamed(metrics[sent[w].metric].function, sent[w].list)

\* client_golang/prometheus/collector.go:50, "This method may be called
\* concurrently and must therefore be implemented in a concurrency safe way".
ConcurrencySafe == proc # "concurrent map"
=============================================================================
