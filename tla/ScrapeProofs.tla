---------------------------- MODULE ScrapeProofs ----------------------------
(***************************************************************************)
(* Proofs about Scrape, for any finite sets of scrapes and collectors of   *)
(* any kinds, any rows, filter, labels and capacity of the metric channel. *)
(***************************************************************************)
EXTENDS Scrape, FiniteSetTheorems, TLAPS

-----------------------------------------------------------------------------
(* The inductive invariant.                                                *)

Working  == {"emit", "observe", "missed", "create", "observed", "done"}
Finished == {"observed", "done"}

NotDone(s)    == {c \in Collectors : worker[s][c] # "done"}
Counted(c, o) == {s \in Scrapes : worker[s][c] \in Finished /\ result[s][c] = o}
InQueue(q)    == {q[i] : i \in 1..Len(q)}
Sent(s)       == seen[s] \cup InQueue(chan[s])

\* The goroutines of a scrape start in their order, and an answered one has nothing
\* left to do.
InOrder ==
  \A s \in Scrapes :
    /\ \A c \in Collectors : worker[s][c] = "off" <=> collect[s] \in {"off", "spawn"}
    /\ scrape[s] = "new" <=> collect[s] = "off"
    /\ scrape[s] \in {"ok", "error"} => collect[s] = "done" /\ chan[s] = <<>>
    /\ collect[s] = "done" => pending[s] = {}

\* A worker's result is that of its query.
ResultAt(s, c) ==
  /\ worker[s][c] \in Working =>
       result[s][c] = IF c \in failed[s] /\ Kind[c] # "template"
                      THEN "error" ELSE "success"
  /\ todo[s][c] \subseteq rows[s][c]
  /\ worker[s][c] # "emit" => todo[s][c] = {}
  /\ worker[s][c] \notin Working => rows[s][c] = {} /\ c \notin failed[s]
ResultOfQuery == \A s \in Scrapes, c \in Collectors : ResultAt(s, c)

\* What is in the channel, or through it, is what the workers have emitted.
Delivered ==
  \A s \in Scrapes :
    /\ \A m \in Sent(s) \cap Data : \E c \in Collectors :
         \E r \in rows[s][c] \ todo[s][c] : m = Metric(c, LabelOf(r))
    /\ \A c \in Collectors : \A r \in rows[s][c] \ todo[s][c] :
         Metric(c, LabelOf(r)) \in Sent(s)

\* After wg.Wait() each worker's own child of the summary is to be sent, or was.
OwnChildren ==
  \A s \in Scrapes : collect[s] \in {"summaries", "done"} =>
    \A c \in Collectors : Child(c, result[s][c]) \in pending[s] \cup Sent(s)

IInv ==
  /\ TypeOK /\ InOrder /\ WaitGroupExact /\ NoSendAfterClose
  /\ ResultOfQuery /\ RunsCounted /\ Delivered /\ OwnChildren

-----------------------------------------------------------------------------
(* Queues and metrics.                                                     *)

\* Appending to a queue adds what is appended.
LEMMA InQueueAppend ==
  ASSUME NEW S, NEW q \in Seq(S), NEW m
  PROVE  InQueue(Append(q, m)) = InQueue(q) \cup {m}
<1>1. /\ Len(q) \in Nat /\ Len(Append(q, m)) = Len(q) + 1
      /\ Append(q, m)[Len(q) + 1] = m
      /\ \A i \in 1..Len(q) : Append(q, m)[i] = q[i]
  OBVIOUS
<1> QED BY <1>1 DEF InQueue

\* The head of a queue and the rest are all there is in it.
LEMMA InQueueTail ==
  ASSUME NEW S, NEW q \in Seq(S), q # <<>>
  PROVE  InQueue(q) = InQueue(Tail(q)) \cup {Head(q)}
<1>1. /\ Len(q) \in Nat \ {0} /\ Len(Tail(q)) = Len(q) - 1 /\ Head(q) = q[1]
      /\ \A i \in 1..(Len(q) - 1) : Tail(q)[i] = q[i + 1]
  OBVIOUS
<1>2. ASSUME NEW i \in 1..Len(q) PROVE q[i] \in InQueue(Tail(q)) \cup {Head(q)}
  <2>1. CASE i = 1
    BY <1>1, <2>1
  <2>2. CASE i # 1
    BY <1>1, <2>2, i - 1 \in 1..(Len(q) - 1) DEF InQueue
  <2> QED BY <2>1, <2>2
<1> QED BY <1>1, <1>2 DEF InQueue

\* A collector's metric is none of the summaries.
LEMMA Apart == Data \cap Children = {}
BY DEF Data, Children

\* What a worker emits is a metric, and its children are summaries.
LEMMA MetricType ==
  ASSUME NEW c \in Collectors, NEW r \in Rows \cup {"", "custom"}
  PROVE  Metric(c, LabelOf(r)) \in Data
BY RowsAssumption DEF Metric, LabelOf, Data

-----------------------------------------------------------------------------
(* The types, in parts.                                                    *)

Places ==
  /\ scrape \in [Scrapes -> {"new", "gather", "ok", "error"}]
  /\ collect \in [Scrapes -> {"off", "spawn", "wait", "summaries", "done"}]
  /\ worker \in [Scrapes -> [Collectors -> {"off", "query"} \cup Working]]

Contents ==
  /\ rows \in [Scrapes -> [Collectors -> SUBSET (Rows \cup {"", "custom"})]]
  /\ todo \in [Scrapes -> [Collectors -> SUBSET (Rows \cup {"", "custom"})]]
  /\ result \in [Scrapes -> [Collectors -> Outcome \cup {"none"}]]
  /\ failed \in [Scrapes -> SUBSET Collectors]

Messages ==
  /\ chan \in [Scrapes -> Seq(Data \cup Children)]
  /\ pending \in [Scrapes -> SUBSET Children]
  /\ seen \in [Scrapes -> SUBSET (Data \cup Children)]

Counts ==
  /\ wg \in [Scrapes -> 0..Cardinality(Collectors)]
  /\ obs \in [Collectors -> [Outcome -> 0..Cardinality(Scrapes)]]

\* They are parts of TypeOK.
LEMMA Parts ==
  ASSUME TypeOK
  PROVE  Places /\ Contents /\ Messages /\ Counts
<1>1. {"off", "query"} \cup Working = {"off", "query", "emit", "observe", "missed", "create",
                                      "observed", "done"}
  BY DEF Working
<1> QED BY <1>1 DEF TypeOK, Places, Contents, Messages, Counts

\* What a worker emits for is a row, or stands for one.
LEMMA RowType ==
  ASSUME Contents, NEW s \in Scrapes, NEW c \in Collectors, NEW r \in rows[s][c]
  PROVE  r \in Rows \cup {"", "custom"}
<1>1. rows[s] \in [Collectors -> SUBSET (Rows \cup {"", "custom"})]
  BY DEF Contents
<1>2. rows[s][c] \in SUBSET (Rows \cup {"", "custom"})
  BY <1>1
<1> QED BY <1>2

-----------------------------------------------------------------------------
(* The steps, with the death of the process among those that change nothing *)
(* of the scrapes.                                                         *)

Quiet == UNCHANGED <<custom, collect, wg, workerVars, chan, pending, gatherVars, obs>>

Fails(s, c) ==
  /\ worker[s][c] = "query" /\ worker' = [worker EXCEPT ![s][c] = "observe"]
  /\ result' = [result EXCEPT ![s][c] = IF Kind[c] = "template" THEN "success"
                                        ELSE "error"]
  /\ failed' = [failed EXCEPT ![s] = @ \cup {c}]
  /\ UNCHANGED <<custom, collect, wg, rows, todo, chan, pending, gatherVars, obs>>

Returns(s, c, E) ==
  /\ worker[s][c] = "query"
  /\ worker' = [worker EXCEPT ![s][c] = IF E = {} THEN "observe" ELSE "emit"]
  /\ rows' = [rows EXCEPT ![s][c] = E] /\ todo' = [todo EXCEPT ![s][c] = E]
  /\ result' = [result EXCEPT ![s][c] = "success"]
  /\ UNCHANGED <<custom, collect, wg, failed, chan, pending, gatherVars, obs>>

Emits(s, c, r) ==
  /\ worker[s][c] = "emit" /\ r \in todo[s][c]
  /\ worker' = [worker EXCEPT ![s][c] = IF todo[s][c] = {r} THEN "observe" ELSE "emit"]
  /\ Send(s, Metric(c, LabelOf(r)))
  /\ todo' = [todo EXCEPT ![s][c] = @ \ {r}]
  /\ UNCHANGED <<custom, collect, wg, rows, result, failed, pending, gatherVars, obs>>

\* Every step is one of a goroutine of one scrape, or changes nothing of them.
LEMMA Steps ==
  ASSUME TypeOK, [Next]_vars
  PROVE  \/ Quiet
         \/ \E s \in Scrapes : \/ Request(s) \/ Receive(s) \/ Respond(s)
                               \/ Spawn(s) \/ Wait(s) \/ SendChild(s) \/ Close(s)
         \/ \E s \in Scrapes, c \in Collectors :
              \/ Fails(s, c) \/ Observe(s, c) \/ AskToCreate(s, c) \/ Create(s, c)
              \/ Done(s, c)
              \/ \E E \in SUBSET (Rows \cup {"", "custom"}) : Returns(s, c, E)
              \/ \E r \in todo[s][c] : Emits(s, c, r)
<1>1. ASSUME NEW s \in Scrapes, NEW c \in Collectors, NEW R \in SUBSET Rows
      PROVE  ToEmit(c, R) \in SUBSET (Rows \cup {"", "custom"})
  BY DEF ToEmit
<1>2. ASSUME NEW s \in Scrapes, NEW c \in Collectors, Execute(s, c), ~Quiet
      PROVE  \/ Fails(s, c) \/ Observe(s, c) \/ AskToCreate(s, c) \/ Create(s, c)
             \/ Done(s, c)
             \/ \E E \in SUBSET (Rows \cup {"", "custom"}) : Returns(s, c, E)
             \/ \E r \in todo[s][c] : Emits(s, c, r)
  <2>1. ~Panic /\ ~Lock(s, c)
    BY <1>2 DEF Quiet, Panic, Lock, workerVars, gatherVars
  <2>2. CASE QueryFails(s, c)
    BY <2>1, <2>2 DEF QueryFails, Step, Fails
  <2>3. ASSUME NEW R \in SUBSET Rows, QueryReturns(s, c, R)
        PROVE  Returns(s, c, ToEmit(c, R))
    BY <2>1, <2>3 DEF QueryReturns, Step, Returns
  <2>4. CASE Emit(s, c)
    BY <2>1, <2>4 DEF Emit, Step, Emits
  <2> QED BY <1>1, <1>2, <2>1, <2>2, <2>3, <2>4 DEF Execute, Query
<1>3. CASE \E s \in Scrapes, c \in Collectors : Execute(s, c)
  BY <1>2, <1>3
<1>4. CASE \E s \in Scrapes : Gather(s) \/ Collect(s)
  BY <1>4 DEF Gather, Collect
<1>5. CASE RefreshTags \/ Rest \/ UNCHANGED vars
  BY <1>5 DEF RefreshTags, Rest, vars, Quiet, workerVars, gatherVars
<1> QED BY <1>3, <1>4, <1>5 DEF Next

-----------------------------------------------------------------------------
(* One lemma for each part.                                                *)

\* The goroutines of a scrape go on in their order.
LEMMA InOrderStep ==
  ASSUME IInv, [Next]_vars
  PROVE  InOrder'
<1>0. Places /\ Contents /\ Messages /\ Counts
  BY Parts DEF IInv
<1>1. CASE Quiet
  BY <1>1, <1>0 DEF IInv, InOrder, Places, Quiet, workerVars, gatherVars
<1>2. ASSUME NEW s \in Scrapes, Request(s) PROVE InOrder'
  BY <1>2, <1>0 DEF IInv, InOrder, Places, Request, workerVars
<1>3. ASSUME NEW s \in Scrapes, Receive(s) PROVE InOrder'
  BY <1>3, <1>0 DEF IInv, InOrder, Places, Messages, Receive, workerVars
<1>4. ASSUME NEW s \in Scrapes, Respond(s) PROVE InOrder'
  BY <1>4, <1>0 DEF IInv, InOrder, Places, Respond, workerVars
<1>5. ASSUME NEW s \in Scrapes, Spawn(s) PROVE InOrder'
  BY <1>5, <1>0 DEF IInv, InOrder, Places, Spawn, gatherVars
<1>6. ASSUME NEW s \in Scrapes, Wait(s) PROVE InOrder'
  BY <1>6, <1>0 DEF IInv, InOrder, Places, Wait, workerVars, gatherVars
<1>7. ASSUME NEW s \in Scrapes, SendChild(s) PROVE InOrder'
  BY <1>7, <1>0 DEF IInv, InOrder, Places, Messages, SendChild, workerVars,
        gatherVars, Send
<1>8. ASSUME NEW s \in Scrapes, Close(s) PROVE InOrder'
  BY <1>8, <1>0 DEF IInv, InOrder, Places, Close, workerVars, gatherVars
<1>9. ASSUME NEW s \in Scrapes, NEW c \in Collectors, Fails(s, c)
      PROVE  InOrder'
  BY <1>9, <1>0 DEF IInv, InOrder, Places, Fails, gatherVars
<1>10. ASSUME NEW s \in Scrapes, NEW c \in Collectors, Observe(s, c)
       PROVE  InOrder'
  <2>1. \A t \in Scrapes, d \in Collectors : worker'[t][d] = "off" <=> worker[t][d] = "off"
    BY <1>10, <1>0 DEF Places, Observe, Step
  <2> QED BY <1>10, <2>1 DEF IInv, InOrder, Observe, gatherVars
<1>11. ASSUME NEW s \in Scrapes, NEW c \in Collectors, AskToCreate(s, c)
       PROVE  InOrder'
  BY <1>11, <1>0 DEF IInv, InOrder, Places, AskToCreate, Step, gatherVars
<1>12. ASSUME NEW s \in Scrapes, NEW c \in Collectors, Create(s, c)
       PROVE  InOrder'
  BY <1>12, <1>0 DEF IInv, InOrder, Places, Create, Step, gatherVars
<1>13. ASSUME NEW s \in Scrapes, NEW c \in Collectors, Done(s, c)
       PROVE  InOrder'
  BY <1>13, <1>0 DEF IInv, InOrder, Places, Done, Step, gatherVars
<1>14. ASSUME NEW s \in Scrapes, NEW c \in Collectors,
              NEW E \in SUBSET (Rows \cup {"", "custom"}), Returns(s, c, E)
       PROVE  InOrder'
  <2>1. \A t \in Scrapes, d \in Collectors : worker'[t][d] = "off" <=> worker[t][d] = "off"
    BY <1>14, <1>0 DEF Places, Returns
  <2>2. UNCHANGED <<scrape, collect, chan, pending>>
    BY <1>14 DEF Returns, gatherVars
  <2>3. InOrder
    BY DEF IInv
  <2> QED BY <2>1, <2>2, <2>3 DEF InOrder
<1>15. ASSUME NEW s \in Scrapes, NEW c \in Collectors, NEW r \in todo[s][c],
              Emits(s, c, r)
       PROVE  InOrder'
  BY <1>15, <1>0 DEF IInv, InOrder, Places, NoSendAfterClose, Messages, Emits, Send,
        gatherVars
<1> QED BY <1>1, <1>2, <1>3, <1>4, <1>5, <1>6, <1>7, <1>8,
           <1>9, <1>10, <1>11, <1>12, <1>13, <1>14, <1>15, Steps DEF IInv

\* A worker's result is set with its query, and kept.
LEMMA ResultStep ==
  ASSUME IInv, [Next]_vars
  PROVE  ResultOfQuery'
<1>0. Places /\ Contents /\ Messages /\ Counts
  BY Parts DEF IInv
<1>1. CASE Quiet
  BY <1>1, <1>0 DEF IInv, ResultOfQuery, ResultAt, Quiet, workerVars, gatherVars
<1>2. ASSUME NEW s \in Scrapes, Request(s) PROVE ResultOfQuery'
  BY <1>2, <1>0 DEF IInv, ResultOfQuery, ResultAt, Request, workerVars
<1>3. ASSUME NEW s \in Scrapes, Receive(s) PROVE ResultOfQuery'
  BY <1>3, <1>0 DEF IInv, ResultOfQuery, ResultAt, Receive, workerVars
<1>4. ASSUME NEW s \in Scrapes, Respond(s) PROVE ResultOfQuery'
  BY <1>4, <1>0 DEF IInv, ResultOfQuery, ResultAt, Respond, workerVars
<1>5. ASSUME NEW s \in Scrapes, Spawn(s) PROVE ResultOfQuery'
  <2>1. ASSUME NEW t \in Scrapes, NEW d \in Collectors
        PROVE  ResultAt(t, d)'
    <3>1. UNCHANGED <<result, todo, rows, failed>>
      BY <1>5 DEF Spawn
    <3>2. UNCHANGED worker[t][d] \/ (worker[t][d] = "off" /\ worker'[t][d] = "query")
      BY <1>5, <1>0 DEF IInv, InOrder, Places, Spawn
    <3> QED BY <3>1, <3>2 DEF IInv, ResultOfQuery, ResultAt, Working
  <2> QED BY <2>1 DEF ResultOfQuery
<1>6. ASSUME NEW s \in Scrapes, Wait(s) PROVE ResultOfQuery'
  BY <1>6, <1>0 DEF IInv, ResultOfQuery, ResultAt, Wait, workerVars, gatherVars
<1>7. ASSUME NEW s \in Scrapes, SendChild(s) PROVE ResultOfQuery'
  BY <1>7, <1>0 DEF IInv, ResultOfQuery, ResultAt, SendChild, workerVars, gatherVars,
        Send
<1>8. ASSUME NEW s \in Scrapes, Close(s) PROVE ResultOfQuery'
  BY <1>8, <1>0 DEF IInv, ResultOfQuery, ResultAt, Close, workerVars, gatherVars
<1>9. ASSUME NEW s \in Scrapes, NEW c \in Collectors, Fails(s, c)
      PROVE  ResultOfQuery'
  <2>1. /\ worker[s][c] = "query" /\ worker'[s][c] = "observe"
        /\ result'[s][c] = IF Kind[c] = "template" THEN "success" ELSE "error"
        /\ c \in failed'[s] /\ UNCHANGED <<rows[s][c], todo[s][c]>>
    BY <1>9, <1>0 DEF Places, Contents, Fails
  <2>2. ResultAt(s, c)
    BY DEF IInv, ResultOfQuery
  <2>3. ResultAt(s, c)'
    BY <2>1, <2>2 DEF ResultAt, Working
  <2>4. ASSUME NEW t \in Scrapes, NEW d \in Collectors, t # s \/ d # c
        PROVE  ResultAt(t, d)'
    <3>1. UNCHANGED <<worker[t][d], result[t][d], todo[t][d], rows[t][d]>>
      BY <1>9, <1>0, <2>4 DEF Places, Contents, Fails
    <3>2. d \in failed[t] <=> d \in failed'[t]
      BY <1>9, <1>0, <2>4 DEF Contents, Fails
    <3> QED BY <3>1, <3>2 DEF IInv, ResultOfQuery, ResultAt
  <2> QED BY <2>3, <2>4 DEF ResultOfQuery
<1>10. ASSUME NEW s \in Scrapes, NEW c \in Collectors, Observe(s, c)
       PROVE  ResultOfQuery'
  <2>0. PICK to \in {"missed", "observed"} :
          Step(s, c, "observe", to) /\ UNCHANGED <<rows, todo, result, failed>>
    BY <1>10 DEF Observe
  <2>1. /\ worker[s][c] = "observe" /\ worker'[s][c] \in {"missed", "observed"}
        /\ UNCHANGED <<result[s][c], rows[s][c], todo[s][c], failed>>
    BY <2>0, <1>0 DEF Places, Contents, Step
  <2>2. ResultAt(s, c)
    BY DEF IInv, ResultOfQuery
  <2>3. ResultAt(s, c)'
    BY <2>1, <2>2 DEF ResultAt, Working
  <2>4. ASSUME NEW t \in Scrapes, NEW d \in Collectors, t # s \/ d # c
        PROVE  ResultAt(t, d)'
    <3>1. UNCHANGED <<worker[t][d], result[t][d], todo[t][d], rows[t][d]>>
      BY <2>0, <1>0, <2>4 DEF Places, Contents, Step
    <3>2. d \in failed[t] <=> d \in failed'[t]
      BY <2>0, <1>0, <2>4 DEF Contents
    <3> QED BY <3>1, <3>2 DEF IInv, ResultOfQuery, ResultAt
  <2> QED BY <2>3, <2>4 DEF ResultOfQuery
<1>11. ASSUME NEW s \in Scrapes, NEW c \in Collectors, AskToCreate(s, c)
       PROVE  ResultOfQuery'
  <2>1. /\ worker[s][c] = "missed" /\ worker'[s][c] = "create"
        /\ UNCHANGED <<result[s][c], rows[s][c], todo[s][c], failed>>
    BY <1>11, <1>0 DEF Places, Contents, AskToCreate, Step
  <2>2. ResultAt(s, c)
    BY DEF IInv, ResultOfQuery
  <2>3. ResultAt(s, c)'
    BY <2>1, <2>2 DEF ResultAt, Working
  <2>4. ASSUME NEW t \in Scrapes, NEW d \in Collectors, t # s \/ d # c
        PROVE  ResultAt(t, d)'
    <3>1. UNCHANGED <<worker[t][d], result[t][d], todo[t][d], rows[t][d]>>
      BY <1>11, <1>0, <2>4 DEF Places, Contents, AskToCreate, Step
    <3>2. d \in failed[t] <=> d \in failed'[t]
      BY <1>11, <1>0, <2>4 DEF Contents, AskToCreate, Step
    <3> QED BY <3>1, <3>2 DEF IInv, ResultOfQuery, ResultAt
  <2> QED BY <2>3, <2>4 DEF ResultOfQuery
<1>12. ASSUME NEW s \in Scrapes, NEW c \in Collectors, Create(s, c)
       PROVE  ResultOfQuery'
  <2>1. /\ worker[s][c] = "create" /\ worker'[s][c] = "observed"
        /\ UNCHANGED <<result[s][c], rows[s][c], todo[s][c], failed>>
    BY <1>12, <1>0 DEF Places, Contents, Create, Step
  <2>2. ResultAt(s, c)
    BY DEF IInv, ResultOfQuery
  <2>3. ResultAt(s, c)'
    BY <2>1, <2>2 DEF ResultAt, Working
  <2>4. ASSUME NEW t \in Scrapes, NEW d \in Collectors, t # s \/ d # c
        PROVE  ResultAt(t, d)'
    <3>1. UNCHANGED <<worker[t][d], result[t][d], todo[t][d], rows[t][d]>>
      BY <1>12, <1>0, <2>4 DEF Places, Contents, Create, Step
    <3>2. d \in failed[t] <=> d \in failed'[t]
      BY <1>12, <1>0, <2>4 DEF Contents, Create, Step
    <3> QED BY <3>1, <3>2 DEF IInv, ResultOfQuery, ResultAt
  <2> QED BY <2>3, <2>4 DEF ResultOfQuery
<1>13. ASSUME NEW s \in Scrapes, NEW c \in Collectors, Done(s, c)
       PROVE  ResultOfQuery'
  <2>1. /\ worker[s][c] = "observed" /\ worker'[s][c] = "done"
        /\ UNCHANGED <<result[s][c], rows[s][c], todo[s][c], failed>>
    BY <1>13, <1>0 DEF Places, Contents, Done, Step
  <2>2. ResultAt(s, c)
    BY DEF IInv, ResultOfQuery
  <2>3. ResultAt(s, c)'
    BY <2>1, <2>2 DEF ResultAt, Working
  <2>4. ASSUME NEW t \in Scrapes, NEW d \in Collectors, t # s \/ d # c
        PROVE  ResultAt(t, d)'
    <3>1. UNCHANGED <<worker[t][d], result[t][d], todo[t][d], rows[t][d]>>
      BY <1>13, <1>0, <2>4 DEF Places, Contents, Done, Step
    <3>2. d \in failed[t] <=> d \in failed'[t]
      BY <1>13, <1>0, <2>4 DEF Contents, Done, Step
    <3> QED BY <3>1, <3>2 DEF IInv, ResultOfQuery, ResultAt
  <2> QED BY <2>3, <2>4 DEF ResultOfQuery
<1>14. ASSUME NEW s \in Scrapes, NEW c \in Collectors,
              NEW E \in SUBSET (Rows \cup {"", "custom"}), Returns(s, c, E)
       PROVE  ResultOfQuery'
  <2>1. /\ worker[s][c] = "query" /\ worker'[s][c] = IF E = {} THEN "observe" ELSE "emit"
        /\ result'[s][c] = "success" /\ rows'[s][c] = E /\ todo'[s][c] = E
        /\ UNCHANGED failed
    BY <1>14, <1>0 DEF Places, Contents, Returns
  <2>2. ResultAt(s, c)
    BY DEF IInv, ResultOfQuery
  <2>3. ResultAt(s, c)'
    BY <2>1, <2>2 DEF ResultAt, Working
  <2>4. ASSUME NEW t \in Scrapes, NEW d \in Collectors, t # s \/ d # c
        PROVE  ResultAt(t, d)'
    <3>1. UNCHANGED <<worker[t][d], result[t][d], todo[t][d], rows[t][d]>>
      BY <1>14, <1>0, <2>4 DEF Places, Contents, Returns
    <3>2. d \in failed[t] <=> d \in failed'[t]
      BY <1>14, <1>0, <2>4 DEF Contents, Returns
    <3> QED BY <3>1, <3>2 DEF IInv, ResultOfQuery, ResultAt
  <2> QED BY <2>3, <2>4 DEF ResultOfQuery
<1>15. ASSUME NEW s \in Scrapes, NEW c \in Collectors, NEW r \in todo[s][c],
              Emits(s, c, r)
       PROVE  ResultOfQuery'
  <2>1. /\ worker[s][c] = "emit" /\ worker'[s][c] = IF todo[s][c] = {r} THEN "observe" ELSE "emit"
        /\ todo'[s][c] = todo[s][c] \ {r}
        /\ UNCHANGED <<result[s][c], rows[s][c], failed>>
    BY <1>15, <1>0 DEF Places, Contents, Emits
  <2>2. ResultAt(s, c)
    BY DEF IInv, ResultOfQuery
  <2>3. ResultAt(s, c)'
    BY <2>1, <2>2 DEF ResultAt, Working
  <2>4. ASSUME NEW t \in Scrapes, NEW d \in Collectors, t # s \/ d # c
        PROVE  ResultAt(t, d)'
    <3>1. UNCHANGED <<worker[t][d], result[t][d], todo[t][d], rows[t][d]>>
      BY <1>15, <1>0, <2>4 DEF Places, Contents, Emits
    <3>2. d \in failed[t] <=> d \in failed'[t]
      BY <1>15, <1>0, <2>4 DEF Contents, Emits
    <3> QED BY <3>1, <3>2 DEF IInv, ResultOfQuery, ResultAt
  <2> QED BY <2>3, <2>4 DEF ResultOfQuery
<1> QED BY <1>1, <1>2, <1>3, <1>4, <1>5, <1>6, <1>7, <1>8,
           <1>9, <1>10, <1>11, <1>12, <1>13, <1>14, <1>15, Steps DEF IInv

\* Nobody runs on once wg.Wait() has returned.
LEMMA CloseStep ==
  ASSUME IInv, [Next]_vars
  PROVE  NoSendAfterClose'
<1>0. Places /\ Contents /\ Messages /\ Counts
  BY Parts DEF IInv
<1>1. CASE Quiet
  BY <1>1, <1>0 DEF IInv, NoSendAfterClose, Places, Quiet, workerVars, gatherVars
<1>2. ASSUME NEW s \in Scrapes, Request(s) PROVE NoSendAfterClose'
  BY <1>2, <1>0 DEF IInv, NoSendAfterClose, Places, Request, workerVars
<1>3. ASSUME NEW s \in Scrapes, Receive(s) PROVE NoSendAfterClose'
  BY <1>3, <1>0 DEF IInv, NoSendAfterClose, Places, Receive, workerVars
<1>4. ASSUME NEW s \in Scrapes, Respond(s) PROVE NoSendAfterClose'
  BY <1>4, <1>0 DEF IInv, NoSendAfterClose, Places, Respond, workerVars
<1>5. ASSUME NEW s \in Scrapes, Spawn(s) PROVE NoSendAfterClose'
  BY <1>5, <1>0 DEF IInv, NoSendAfterClose, Places, Spawn, gatherVars
<1>6. ASSUME NEW s \in Scrapes, Wait(s) PROVE NoSendAfterClose'
  <2>1. IsFiniteSet(NotDone(s)) /\ Cardinality(NotDone(s)) = 0
    <3>1. IsFiniteSet(NotDone(s))
      BY CollectorsAssumption, FS_Subset DEF NotDone
    <3> QED BY <1>6, <3>1 DEF IInv, WaitGroupExact, Wait, NotDone
  <2>2. NotDone(s) = {}
    BY <2>1, FS_EmptySet
  <2> QED BY <1>6, <1>0, <2>2 DEF IInv, NoSendAfterClose, Places, Wait, workerVars,
        NotDone
<1>7. ASSUME NEW s \in Scrapes, SendChild(s) PROVE NoSendAfterClose'
  BY <1>7, <1>0 DEF IInv, NoSendAfterClose, Places, SendChild, workerVars,
        gatherVars, Send
<1>8. ASSUME NEW s \in Scrapes, Close(s) PROVE NoSendAfterClose'
  BY <1>8, <1>0 DEF IInv, NoSendAfterClose, Places, Close, workerVars, gatherVars
<1>9. ASSUME NEW s \in Scrapes, NEW c \in Collectors, Fails(s, c)
      PROVE  NoSendAfterClose'
  BY <1>9, <1>0 DEF IInv, NoSendAfterClose, Places, Fails, gatherVars
<1>10. ASSUME NEW s \in Scrapes, NEW c \in Collectors, Observe(s, c)
       PROVE  NoSendAfterClose'
  BY <1>10, <1>0 DEF IInv, NoSendAfterClose, Places, Observe, Step, gatherVars
<1>11. ASSUME NEW s \in Scrapes, NEW c \in Collectors, AskToCreate(s, c)
       PROVE  NoSendAfterClose'
  BY <1>11, <1>0 DEF IInv, NoSendAfterClose, Places, AskToCreate, Step, gatherVars
<1>12. ASSUME NEW s \in Scrapes, NEW c \in Collectors, Create(s, c)
       PROVE  NoSendAfterClose'
  BY <1>12, <1>0 DEF IInv, NoSendAfterClose, Places, Create, Step, gatherVars
<1>13. ASSUME NEW s \in Scrapes, NEW c \in Collectors, Done(s, c)
       PROVE  NoSendAfterClose'
  BY <1>13, <1>0 DEF IInv, NoSendAfterClose, Places, Done, Step, gatherVars
<1>14. ASSUME NEW s \in Scrapes, NEW c \in Collectors,
              NEW E \in SUBSET (Rows \cup {"", "custom"}), Returns(s, c, E)
       PROVE  NoSendAfterClose'
  BY <1>14, <1>0 DEF IInv, NoSendAfterClose, Places, Returns, gatherVars
<1>15. ASSUME NEW s \in Scrapes, NEW c \in Collectors, NEW r \in todo[s][c],
              Emits(s, c, r)
       PROVE  NoSendAfterClose'
  BY <1>15, <1>0 DEF IInv, NoSendAfterClose, Places, Emits, Send, gatherVars
<1> QED BY <1>1, <1>2, <1>3, <1>4, <1>5, <1>6, <1>7, <1>8,
           <1>9, <1>10, <1>11, <1>12, <1>13, <1>14, <1>15, Steps DEF IInv

\* The counter goes down with the workers that are not done.
LEMMA WaitGroupStep ==
  ASSUME IInv, [Next]_vars
  PROVE  WaitGroupExact'
<1>0. Places /\ Contents /\ Messages /\ Counts
  BY Parts DEF IInv
<1>1. CASE Quiet
  BY <1>1, <1>0 DEF IInv, WaitGroupExact, Places, Quiet, workerVars, gatherVars
<1>2. ASSUME NEW s \in Scrapes, Request(s) PROVE WaitGroupExact'
  BY <1>2, <1>0 DEF IInv, WaitGroupExact, Places, Request, workerVars
<1>3. ASSUME NEW s \in Scrapes, Receive(s) PROVE WaitGroupExact'
  BY <1>3, <1>0 DEF IInv, WaitGroupExact, Places, Receive, workerVars
<1>4. ASSUME NEW s \in Scrapes, Respond(s) PROVE WaitGroupExact'
  BY <1>4, <1>0 DEF IInv, WaitGroupExact, Places, Respond, workerVars
<1>5. ASSUME NEW s \in Scrapes, Spawn(s) PROVE WaitGroupExact'
  <2>1. NotDone(s)' = Collectors
    BY <1>5, <1>0 DEF Places, Spawn, NotDone
  <2>2. wg'[s] = Cardinality(Collectors)
    BY <1>5, <1>0 DEF Counts, Spawn
  <2>3. ASSUME NEW t \in Scrapes, t # s
        PROVE  UNCHANGED <<wg[t], collect[t], worker[t]>>
    BY <1>5, <1>0, <2>3 DEF Places, Counts, Spawn
  <2> QED BY <2>1, <2>2, <2>3 DEF IInv, WaitGroupExact, NotDone
<1>6. ASSUME NEW s \in Scrapes, Wait(s) PROVE WaitGroupExact'
  BY <1>6, <1>0 DEF IInv, WaitGroupExact, Places, Wait, workerVars, gatherVars
<1>7. ASSUME NEW s \in Scrapes, SendChild(s) PROVE WaitGroupExact'
  BY <1>7, <1>0 DEF IInv, WaitGroupExact, Places, SendChild, workerVars, gatherVars,
        Send
<1>8. ASSUME NEW s \in Scrapes, Close(s) PROVE WaitGroupExact'
  BY <1>8, <1>0 DEF IInv, WaitGroupExact, Places, Close, workerVars, gatherVars
<1>9. ASSUME NEW s \in Scrapes, NEW c \in Collectors, Fails(s, c)
      PROVE  WaitGroupExact'
  <2>1. \A t \in Scrapes, d \in Collectors : worker'[t][d] = "done" <=> worker[t][d] = "done"
    BY <1>9, <1>0 DEF Places, Fails
  <2>2. \A t \in Scrapes : NotDone(t)' = NotDone(t)
    BY <2>1 DEF NotDone
  <2>3. UNCHANGED <<collect, wg>>
    BY <1>9 DEF Fails
  <2> QED BY <2>2, <2>3 DEF IInv, WaitGroupExact, NotDone
<1>10. ASSUME NEW s \in Scrapes, NEW c \in Collectors, Observe(s, c)
       PROVE  WaitGroupExact'
  <2>0. PICK to \in {"missed", "observed"} : Step(s, c, "observe", to)
    BY <1>10 DEF Observe
  <2>1. \A t \in Scrapes, d \in Collectors : worker'[t][d] = "done" <=> worker[t][d] = "done"
    BY <1>0, <2>0 DEF Places, Step
  <2>2. \A t \in Scrapes : NotDone(t)' = NotDone(t)
    BY <2>1 DEF NotDone
  <2>3. UNCHANGED <<collect, wg>>
    BY <1>10 DEF Observe
  <2> QED BY <2>2, <2>3 DEF IInv, WaitGroupExact, NotDone
<1>11. ASSUME NEW s \in Scrapes, NEW c \in Collectors, AskToCreate(s, c)
       PROVE  WaitGroupExact'
  <2>1. \A t \in Scrapes, d \in Collectors : worker'[t][d] = "done" <=> worker[t][d] = "done"
    BY <1>11, <1>0 DEF Places, AskToCreate, Step
  <2>2. \A t \in Scrapes : NotDone(t)' = NotDone(t)
    BY <2>1 DEF NotDone
  <2>3. UNCHANGED <<collect, wg>>
    BY <1>11 DEF AskToCreate
  <2> QED BY <2>2, <2>3 DEF IInv, WaitGroupExact, NotDone
<1>12. ASSUME NEW s \in Scrapes, NEW c \in Collectors, Create(s, c)
       PROVE  WaitGroupExact'
  <2>1. \A t \in Scrapes, d \in Collectors : worker'[t][d] = "done" <=> worker[t][d] = "done"
    BY <1>12, <1>0 DEF Places, Create, Step
  <2>2. \A t \in Scrapes : NotDone(t)' = NotDone(t)
    BY <2>1 DEF NotDone
  <2>3. UNCHANGED <<collect, wg>>
    BY <1>12 DEF Create
  <2> QED BY <2>2, <2>3 DEF IInv, WaitGroupExact, NotDone
<1>13. ASSUME NEW s \in Scrapes, NEW c \in Collectors, Done(s, c)
       PROVE  WaitGroupExact'
  <2>1. worker[s][c] = "observed" /\ UNCHANGED collect
    BY <1>13 DEF Done, Step
  <2>2. collect[s] \notin {"off", "spawn"}
    BY <2>1 DEF IInv, InOrder
  <2>3. IsFiniteSet(NotDone(s)) /\ c \in NotDone(s)
    BY <2>1, CollectorsAssumption, FS_Subset DEF NotDone
  <2>4. NotDone(s)' = NotDone(s) \ {c}
    BY <1>13, <1>0 DEF Places, Done, Step, NotDone
  <2>5. Cardinality(NotDone(s)') = Cardinality(NotDone(s)) - 1
    BY <2>3, <2>4, FS_RemoveElement
  <2>6. wg'[s] = wg[s] - 1 /\ wg[s] = Cardinality(NotDone(s))
    BY <1>13, <1>0, <2>2 DEF Counts, Done, IInv, WaitGroupExact, NotDone
  <2>7. ASSUME NEW t \in Scrapes, t # s
        PROVE  UNCHANGED <<wg[t], worker[t]>>
    BY <1>13, <1>0, <2>7 DEF Places, Counts, Done, Step
  <2>8. ASSUME NEW t \in Scrapes, collect'[t] \notin {"off", "spawn"}
        PROVE  wg'[t] = Cardinality(NotDone(t)')
    <3>1. CASE t = s
      BY <2>5, <2>6, <3>1
    <3>2. CASE t # s
      BY <2>1, <2>7, <2>8, <3>2 DEF IInv, WaitGroupExact, NotDone
    <3> QED BY <3>1, <3>2
  <2> QED BY <2>8 DEF WaitGroupExact, NotDone
<1>14. ASSUME NEW s \in Scrapes, NEW c \in Collectors,
              NEW E \in SUBSET (Rows \cup {"", "custom"}), Returns(s, c, E)
       PROVE  WaitGroupExact'
  <2>1. \A t \in Scrapes, d \in Collectors : worker'[t][d] = "done" <=> worker[t][d] = "done"
    BY <1>14, <1>0 DEF Places, Returns
  <2>2. \A t \in Scrapes : NotDone(t)' = NotDone(t)
    BY <2>1 DEF NotDone
  <2>3. UNCHANGED <<collect, wg>>
    BY <1>14 DEF Returns
  <2> QED BY <2>2, <2>3 DEF IInv, WaitGroupExact, NotDone
<1>15. ASSUME NEW s \in Scrapes, NEW c \in Collectors, NEW r \in todo[s][c],
              Emits(s, c, r)
       PROVE  WaitGroupExact'
  <2>1. \A t \in Scrapes, d \in Collectors : worker'[t][d] = "done" <=> worker[t][d] = "done"
    BY <1>15, <1>0 DEF Places, Emits
  <2>2. \A t \in Scrapes : NotDone(t)' = NotDone(t)
    BY <2>1 DEF NotDone
  <2>3. UNCHANGED <<collect, wg>>
    BY <1>15 DEF Emits
  <2> QED BY <2>2, <2>3 DEF IInv, WaitGroupExact, NotDone
<1> QED BY <1>1, <1>2, <1>3, <1>4, <1>5, <1>6, <1>7, <1>8,
           <1>9, <1>10, <1>11, <1>12, <1>13, <1>14, <1>15, Steps DEF IInv

\* An observation is made when its child was found, and not when it was missed.
LEMMA MissedOrObserved ==
  ASSUME NEW s \in Scrapes, NEW c \in Collectors, Places, Observe(s, c),
         worker' = [worker EXCEPT ![s][c] = "observed"]
  PROVE  /\ worker[s][c] = "observe"
         /\ UNCHANGED result /\ obs' = [obs EXCEPT ![c][result[s][c]] = @ + 1]
<1>1. worker'[s][c] = "observed"
  BY DEF Places
<1>2. ~Step(s, c, "observe", "missed")
  BY <1>1 DEF Step, Places
<1> QED BY <1>2 DEF Observe, Step

\* One more finished run and one more observation of it go together.
LEMMA CountOne ==
  ASSUME IInv, NEW s \in Scrapes, NEW c \in Collectors,
         Places, Contents, Counts, worker[s][c] \in Working \ Finished,
         worker' = [worker EXCEPT ![s][c] = "observed"], UNCHANGED result,
         obs' = [obs EXCEPT ![c][result[s][c]] = @ + 1]
  PROVE  RunsCounted'
<1>1. result[s][c] \in Outcome
  BY DEF IInv, ResultOfQuery, ResultAt, Outcome
<1>2. ASSUME NEW d \in Collectors, NEW o \in Outcome
      PROVE  obs'[d][o] = Cardinality(Counted(d, o)')
  <2>0. obs[d][o] = Cardinality(Counted(d, o))
    BY DEF IInv, RunsCounted, Counted, Finished
  <2>1. CASE d = c /\ o = result[s][c]
    <3>1. obs'[d][o] = obs[d][o] + 1
      BY <1>1, <2>1 DEF Counts
    <3>2. Counted(d, o)' = Counted(d, o) \cup {s} /\ s \notin Counted(d, o)
      BY <2>1 DEF Counted, Places, Finished
    <3>3. IsFiniteSet(Counted(d, o))
      BY ScrapesAssumption, FS_Subset DEF Counted
    <3>4. Cardinality(Counted(d, o)') = Cardinality(Counted(d, o)) + 1
      BY <3>2, <3>3, FS_AddElement
    <3> QED BY <2>0, <3>1, <3>4
  <2>2. CASE ~(d = c /\ o = result[s][c])
    <3>1. obs'[d][o] = obs[d][o]
      BY <1>1, <2>2 DEF Counts
    <3>2. Counted(d, o)' = Counted(d, o)
      BY <2>2 DEF Counted, Places, Finished
    <3> QED BY <2>0, <3>1, <3>2
  <2> QED BY <2>1, <2>2
<1> QED BY <1>2 DEF RunsCounted, Counted, Finished

\* Observations go with finished runs.
LEMMA CountedStep ==
  ASSUME IInv, [Next]_vars
  PROVE  RunsCounted'
<1>0. Places /\ Contents /\ Messages /\ Counts
  BY Parts DEF IInv
<1>1. CASE Quiet
  <2>1. UNCHANGED <<worker, result, obs>>
    BY <1>1 DEF Quiet, workerVars
  <2> QED BY <2>1 DEF IInv, RunsCounted
<1>2. ASSUME NEW s \in Scrapes, Request(s) PROVE RunsCounted'
  <2>1. UNCHANGED <<worker, result, obs>>
    BY <1>2 DEF Request, workerVars
  <2> QED BY <2>1 DEF IInv, RunsCounted
<1>3. ASSUME NEW s \in Scrapes, Receive(s) PROVE RunsCounted'
  <2>1. UNCHANGED <<worker, result, obs>>
    BY <1>3 DEF Receive, workerVars
  <2> QED BY <2>1 DEF IInv, RunsCounted
<1>4. ASSUME NEW s \in Scrapes, Respond(s) PROVE RunsCounted'
  <2>1. UNCHANGED <<worker, result, obs>>
    BY <1>4 DEF Respond, workerVars
  <2> QED BY <2>1 DEF IInv, RunsCounted
<1>5. ASSUME NEW s \in Scrapes, Spawn(s) PROVE RunsCounted'
  <2>1. ASSUME NEW t \in Scrapes, NEW d \in Collectors
        PROVE  worker'[t][d] \in Finished <=> worker[t][d] \in Finished
    BY <1>5, <1>0 DEF IInv, InOrder, Places, Finished, Spawn
  <2>2. UNCHANGED <<result, obs>>
    BY <1>5 DEF Spawn
  <2>3. \A d \in Collectors, o \in Outcome : Counted(d, o)' = Counted(d, o)
    BY <2>1, <2>2 DEF Counted
  <2> QED BY <2>2, <2>3 DEF IInv, RunsCounted, Counted, Finished
<1>6. ASSUME NEW s \in Scrapes, Wait(s) PROVE RunsCounted'
  <2>1. UNCHANGED <<worker, result, obs>>
    BY <1>6 DEF Wait, workerVars
  <2> QED BY <2>1 DEF IInv, RunsCounted
<1>7. ASSUME NEW s \in Scrapes, SendChild(s) PROVE RunsCounted'
  <2>1. UNCHANGED <<worker, result, obs>>
    BY <1>7 DEF SendChild, workerVars
  <2> QED BY <2>1 DEF IInv, RunsCounted
<1>8. ASSUME NEW s \in Scrapes, Close(s) PROVE RunsCounted'
  <2>1. UNCHANGED <<worker, result, obs>>
    BY <1>8 DEF Close, workerVars
  <2> QED BY <2>1 DEF IInv, RunsCounted
<1>9. ASSUME NEW s \in Scrapes, NEW c \in Collectors, Fails(s, c)
      PROVE  RunsCounted'
  <2>1. ASSUME NEW t \in Scrapes, NEW d \in Collectors
        PROVE  /\ worker'[t][d] \in Finished <=> worker[t][d] \in Finished
               /\ worker[t][d] \in Finished => UNCHANGED result[t][d]
    BY <1>9, <1>0 DEF Places, Contents, Finished, Fails
  <2>2. \A d \in Collectors, o \in Outcome : Counted(d, o)' = Counted(d, o)
    BY <2>1 DEF Counted
  <2>3. UNCHANGED obs
    BY <1>9 DEF Fails
  <2>4. \A d \in Collectors, o \in Outcome : obs[d][o] = Cardinality(Counted(d, o))
    BY DEF IInv, RunsCounted, Counted, Finished
  <2>5. \A d \in Collectors, o \in Outcome : obs'[d][o] = Cardinality(Counted(d, o)')
    BY <2>2, <2>3, <2>4
  <2> QED BY <2>5 DEF RunsCounted, Counted, Finished
<1>10. ASSUME NEW s \in Scrapes, NEW c \in Collectors, Observe(s, c)
       PROVE  RunsCounted'
  <2>1. CASE worker' = [worker EXCEPT ![s][c] = "observed"]
    <3>0. /\ worker[s][c] = "observe"
          /\ UNCHANGED result /\ obs' = [obs EXCEPT ![c][result[s][c]] = @ + 1]
      BY <1>10, <1>0, <2>1, MissedOrObserved
    <3>5. worker[s][c] \in Working \ Finished
      BY <3>0 DEF Working, Finished
    <3> QED BY <1>0, <2>1, <3>0, CountOne, <3>5
  <2>2. CASE worker' # [worker EXCEPT ![s][c] = "observed"]
    <3>0. /\ worker[s][c] = "observe" /\ worker' = [worker EXCEPT ![s][c] = "missed"]
          /\ UNCHANGED <<result, obs>>
      BY <1>10, <2>2 DEF Observe, Step
    <3>1. ASSUME NEW t \in Scrapes, NEW d \in Collectors
          PROVE  worker'[t][d] \in Finished <=> worker[t][d] \in Finished
      BY <1>0, <3>0 DEF Places, Finished
    <3>2. \A d \in Collectors, o \in Outcome : Counted(d, o)' = Counted(d, o)
      BY <3>0, <3>1 DEF Counted
    <3> QED BY <3>0, <3>2 DEF IInv, RunsCounted, Counted, Finished
  <2> QED BY <2>1, <2>2
<1>11. ASSUME NEW s \in Scrapes, NEW c \in Collectors, AskToCreate(s, c)
       PROVE  RunsCounted'
  <2>1. ASSUME NEW t \in Scrapes, NEW d \in Collectors
        PROVE  /\ worker'[t][d] \in Finished <=> worker[t][d] \in Finished
               /\ worker[t][d] \in Finished => UNCHANGED result[t][d]
    BY <1>11, <1>0 DEF Places, Contents, Finished, AskToCreate, Step
  <2>2. \A d \in Collectors, o \in Outcome : Counted(d, o)' = Counted(d, o)
    BY <2>1 DEF Counted
  <2>3. UNCHANGED obs
    BY <1>11 DEF AskToCreate
  <2>4. \A d \in Collectors, o \in Outcome : obs[d][o] = Cardinality(Counted(d, o))
    BY DEF IInv, RunsCounted, Counted, Finished
  <2>5. \A d \in Collectors, o \in Outcome : obs'[d][o] = Cardinality(Counted(d, o)')
    BY <2>2, <2>3, <2>4
  <2> QED BY <2>5 DEF RunsCounted, Counted, Finished
<1>12. ASSUME NEW s \in Scrapes, NEW c \in Collectors, Create(s, c)
       PROVE  RunsCounted'
  <2>0. /\ worker[s][c] = "create" /\ worker' = [worker EXCEPT ![s][c] = "observed"]
        /\ UNCHANGED result /\ obs' = [obs EXCEPT ![c][result[s][c]] = @ + 1]
    BY <1>12 DEF Create, Step
  <2>5. worker[s][c] \in Working \ Finished
    BY <2>0 DEF Working, Finished
  <2> QED BY <1>0, <2>0, CountOne, <2>5
<1>13. ASSUME NEW s \in Scrapes, NEW c \in Collectors, Done(s, c)
       PROVE  RunsCounted'
  <2>1. ASSUME NEW t \in Scrapes, NEW d \in Collectors
        PROVE  /\ worker'[t][d] \in Finished <=> worker[t][d] \in Finished
               /\ worker[t][d] \in Finished => UNCHANGED result[t][d]
    BY <1>13, <1>0 DEF Places, Contents, Finished, Done, Step
  <2>2. \A d \in Collectors, o \in Outcome : Counted(d, o)' = Counted(d, o)
    BY <2>1 DEF Counted
  <2>3. UNCHANGED obs
    BY <1>13 DEF Done
  <2>4. \A d \in Collectors, o \in Outcome : obs[d][o] = Cardinality(Counted(d, o))
    BY DEF IInv, RunsCounted, Counted, Finished
  <2>5. \A d \in Collectors, o \in Outcome : obs'[d][o] = Cardinality(Counted(d, o)')
    BY <2>2, <2>3, <2>4
  <2> QED BY <2>5 DEF RunsCounted, Counted, Finished
<1>14. ASSUME NEW s \in Scrapes, NEW c \in Collectors,
              NEW E \in SUBSET (Rows \cup {"", "custom"}), Returns(s, c, E)
       PROVE  RunsCounted'
  <2>1. ASSUME NEW t \in Scrapes, NEW d \in Collectors
        PROVE  /\ worker'[t][d] \in Finished <=> worker[t][d] \in Finished
               /\ worker[t][d] \in Finished => UNCHANGED result[t][d]
    BY <1>14, <1>0 DEF Places, Contents, Finished, Returns
  <2>2. \A d \in Collectors, o \in Outcome : Counted(d, o)' = Counted(d, o)
    BY <2>1 DEF Counted
  <2>3. UNCHANGED obs
    BY <1>14 DEF Returns
  <2>4. \A d \in Collectors, o \in Outcome : obs[d][o] = Cardinality(Counted(d, o))
    BY DEF IInv, RunsCounted, Counted, Finished
  <2>5. \A d \in Collectors, o \in Outcome : obs'[d][o] = Cardinality(Counted(d, o)')
    BY <2>2, <2>3, <2>4
  <2> QED BY <2>5 DEF RunsCounted, Counted, Finished
<1>15. ASSUME NEW s \in Scrapes, NEW c \in Collectors, NEW r \in todo[s][c],
              Emits(s, c, r)
       PROVE  RunsCounted'
  <2>1. ASSUME NEW t \in Scrapes, NEW d \in Collectors
        PROVE  /\ worker'[t][d] \in Finished <=> worker[t][d] \in Finished
               /\ worker[t][d] \in Finished => UNCHANGED result[t][d]
    BY <1>15, <1>0 DEF Places, Contents, Finished, Emits
  <2>2. \A d \in Collectors, o \in Outcome : Counted(d, o)' = Counted(d, o)
    BY <2>1 DEF Counted
  <2>3. UNCHANGED obs
    BY <1>15 DEF Emits
  <2>4. \A d \in Collectors, o \in Outcome : obs[d][o] = Cardinality(Counted(d, o))
    BY DEF IInv, RunsCounted, Counted, Finished
  <2>5. \A d \in Collectors, o \in Outcome : obs'[d][o] = Cardinality(Counted(d, o)')
    BY <2>2, <2>3, <2>4
  <2> QED BY <2>5 DEF RunsCounted, Counted, Finished
<1> QED BY <1>1, <1>2, <1>3, <1>4, <1>5, <1>6, <1>7, <1>8,
           <1>9, <1>10, <1>11, <1>12, <1>13, <1>14, <1>15, Steps DEF IInv

-----------------------------------------------------------------------------
(* What goes through the channel.                                          *)

\* A send adds its message to what was sent, for its own scrape only.
LEMMA SendAdds ==
  ASSUME Messages, NEW s \in Scrapes, NEW m, Send(s, m), UNCHANGED seen
  PROVE  /\ Sent(s)' = Sent(s) \cup {m}
         /\ \A t \in Scrapes \ {s} : Sent(t)' = Sent(t)
<1>1. chan[s] \in Seq(Data \cup Children)
  BY DEF Messages
<1>2. chan'[s] = Append(chan[s], m) /\ \A t \in Scrapes \ {s} : chan'[t] = chan[t]
  BY DEF Messages, Send
<1>3. InQueue(chan'[s]) = InQueue(chan[s]) \cup {m}
  BY <1>1, <1>2, InQueueAppend
<1> QED BY <1>2, <1>3 DEF Sent

\* A metric that Gather receives stays among what was sent.
LEMMA ReceiveKeeps ==
  ASSUME Messages, NEW s \in Scrapes, Receive(s)
  PROVE  \A t \in Scrapes : Sent(t)' = Sent(t)
<1>1. chan[s] \in Seq(Data \cup Children) /\ chan[s] # <<>>
  BY DEF Messages, Receive
<1>2. /\ chan'[s] = Tail(chan[s]) /\ seen'[s] = seen[s] \cup {Head(chan[s])}
      /\ \A t \in Scrapes \ {s} : chan'[t] = chan[t] /\ seen'[t] = seen[t]
  BY DEF Messages, Receive
<1>3. InQueue(chan[s]) = InQueue(chan'[s]) \cup {Head(chan[s])}
  BY <1>1, <1>2, InQueueTail
<1>4. Sent(s)' = Sent(s)
  BY <1>2, <1>3 DEF Sent
<1> QED BY <1>2, <1>4 DEF Sent

\* What the workers emit, and only that, is in the channel or through it.
LEMMA DeliveredStep ==
  ASSUME IInv, [Next]_vars
  PROVE  Delivered'
<1>0. Places /\ Contents /\ Messages /\ Counts
  BY Parts DEF IInv
<1>1. CASE Quiet
  <2>1. UNCHANGED <<seen, chan, rows, todo>>
    BY <1>1 DEF Quiet, workerVars, gatherVars
  <2> QED BY <2>1 DEF IInv, Delivered, Sent
<1>2. ASSUME NEW s \in Scrapes, Request(s) PROVE Delivered'
  <2>1. UNCHANGED <<seen, chan, rows, todo>>
    BY <1>2 DEF Request, workerVars, gatherVars
  <2> QED BY <2>1 DEF IInv, Delivered, Sent
<1>3. ASSUME NEW s \in Scrapes, Receive(s) PROVE Delivered'
  <2>1. \A t \in Scrapes : Sent(t)' = Sent(t)
    BY <1>3, <1>0, ReceiveKeeps
  <2>2. UNCHANGED <<rows, todo>>
    BY <1>3 DEF Receive, workerVars
  <2> QED BY <2>1, <2>2 DEF IInv, Delivered
<1>4. ASSUME NEW s \in Scrapes, Respond(s) PROVE Delivered'
  <2>1. UNCHANGED <<seen, chan, rows, todo>>
    BY <1>4 DEF Respond, workerVars, gatherVars
  <2> QED BY <2>1 DEF IInv, Delivered, Sent
<1>5. ASSUME NEW s \in Scrapes, Spawn(s) PROVE Delivered'
  <2>1. UNCHANGED <<seen, chan, rows, todo>>
    BY <1>5 DEF Spawn, workerVars, gatherVars
  <2> QED BY <2>1 DEF IInv, Delivered, Sent
<1>6. ASSUME NEW s \in Scrapes, Wait(s) PROVE Delivered'
  <2>1. UNCHANGED <<seen, chan, rows, todo>>
    BY <1>6 DEF Wait, workerVars, gatherVars
  <2> QED BY <2>1 DEF IInv, Delivered, Sent
<1>7. ASSUME NEW s \in Scrapes, SendChild(s) PROVE Delivered'
  <2>1. PICK m \in pending[s] : Send(s, m)
    BY <1>7 DEF SendChild
  <2>2. UNCHANGED <<rows, todo, seen>>
    BY <1>7 DEF SendChild, workerVars, gatherVars
  <2>3. Sent(s)' = Sent(s) \cup {m} /\ \A t \in Scrapes \ {s} : Sent(t)' = Sent(t)
    BY <1>0, <2>1, <2>2, SendAdds
  <2>4. m \notin Data
    BY <1>0, Apart DEF Messages
  <2>5. \A t \in Scrapes : Sent(t) \subseteq Sent(t)' /\ Sent(t)' \cap Data = Sent(t) \cap Data
    BY <2>3, <2>4
  <2> QED BY <2>2, <2>5 DEF IInv, Delivered
<1>8. ASSUME NEW s \in Scrapes, Close(s) PROVE Delivered'
  <2>1. UNCHANGED <<seen, chan, rows, todo>>
    BY <1>8 DEF Close, workerVars, gatherVars
  <2> QED BY <2>1 DEF IInv, Delivered, Sent
<1>9. ASSUME NEW s \in Scrapes, NEW c \in Collectors, Fails(s, c)
      PROVE  Delivered'
  <2>1. UNCHANGED <<seen, chan, rows, todo>>
    BY <1>9 DEF Fails, workerVars, gatherVars
  <2> QED BY <2>1 DEF IInv, Delivered, Sent
<1>10. ASSUME NEW s \in Scrapes, NEW c \in Collectors, Observe(s, c)
       PROVE  Delivered'
  <2>1. UNCHANGED <<seen, chan, rows, todo>>
    BY <1>10 DEF Observe, workerVars, gatherVars
  <2> QED BY <2>1 DEF IInv, Delivered, Sent
<1>11. ASSUME NEW s \in Scrapes, NEW c \in Collectors, AskToCreate(s, c)
       PROVE  Delivered'
  <2>1. UNCHANGED <<seen, chan, rows, todo>>
    BY <1>11 DEF AskToCreate, workerVars, gatherVars
  <2> QED BY <2>1 DEF IInv, Delivered, Sent
<1>12. ASSUME NEW s \in Scrapes, NEW c \in Collectors, Create(s, c)
       PROVE  Delivered'
  <2>1. UNCHANGED <<seen, chan, rows, todo>>
    BY <1>12 DEF Create, workerVars, gatherVars
  <2> QED BY <2>1 DEF IInv, Delivered, Sent
<1>13. ASSUME NEW s \in Scrapes, NEW c \in Collectors, Done(s, c)
       PROVE  Delivered'
  <2>1. UNCHANGED <<seen, chan, rows, todo>>
    BY <1>13 DEF Done, workerVars, gatherVars
  <2> QED BY <2>1 DEF IInv, Delivered, Sent
<1>14. ASSUME NEW s \in Scrapes, NEW c \in Collectors,
              NEW E \in SUBSET (Rows \cup {"", "custom"}), Returns(s, c, E)
       PROVE  Delivered'
  <2>1. UNCHANGED <<seen, chan>>
    BY <1>14 DEF Returns, gatherVars
  <2>2. ResultAt(s, c) /\ worker[s][c] \notin Working
    BY <1>14 DEF IInv, ResultOfQuery, Returns, Working
  <2>3. rows[s][c] \ todo[s][c] = {} /\ rows'[s][c] \ todo'[s][c] = {}
    BY <1>14, <1>0, <2>2 DEF ResultAt, Contents, Returns
  <2>4. \A t \in Scrapes, d \in Collectors :
          rows'[t][d] \ todo'[t][d] = rows[t][d] \ todo[t][d]
    <3>1. ASSUME NEW t \in Scrapes, NEW d \in Collectors, t # s \/ d # c
          PROVE  rows'[t][d] = rows[t][d] /\ todo'[t][d] = todo[t][d]
      BY <1>14, <1>0, <3>1 DEF Contents, Returns
    <3> QED BY <2>3, <3>1
  <2>5. \A t : Sent(t)' = Sent(t)
    BY <2>1 DEF Sent
  <2>6. ASSUME NEW t \in Scrapes, NEW d \in Collectors, NEW q \in rows'[t][d] \ todo'[t][d]
        PROVE  Metric(d, LabelOf(q)) \in Sent(t)'
    BY <2>4, <2>5 DEF IInv, Delivered
  <2>7. ASSUME NEW t \in Scrapes, NEW n \in Sent(t)' \cap Data
        PROVE  \E d \in Collectors : \E q \in rows'[t][d] \ todo'[t][d] :
                 n = Metric(d, LabelOf(q))
    <3>1. PICK d \in Collectors : \E q \in rows[t][d] \ todo[t][d] :
                                    n = Metric(d, LabelOf(q))
      BY <2>5 DEF IInv, Delivered
    <3> QED BY <2>4, <3>1
  <2> QED BY <2>6, <2>7 DEF Delivered
<1>15. ASSUME NEW s \in Scrapes, NEW c \in Collectors, NEW r \in todo[s][c],
              Emits(s, c, r)
       PROVE  Delivered'
  <2> DEFINE m == Metric(c, LabelOf(r))
  <2>1. Send(s, m) /\ UNCHANGED seen
    BY <1>15 DEF Emits, gatherVars
  <2>2. Sent(s)' = Sent(s) \cup {m} /\ \A t \in Scrapes \ {s} : Sent(t)' = Sent(t)
    BY <1>0, <2>1, SendAdds
  <2>3. r \in rows[s][c]
    BY DEF IInv, ResultOfQuery, ResultAt
  <2>4. /\ UNCHANGED rows /\ todo'[s][c] = todo[s][c] \ {r}
        /\ \A t \in Scrapes, d \in Collectors : t # s \/ d # c => todo'[t][d] = todo[t][d]
    BY <1>15, <1>0 DEF Contents, Emits
  <2>5. ASSUME NEW t \in Scrapes, NEW d \in Collectors, NEW q \in rows'[t][d] \ todo'[t][d]
        PROVE  Metric(d, LabelOf(q)) \in Sent(t)'
    <3>1. CASE t = s /\ d = c /\ q = r
      BY <2>2, <3>1
    <3>2. CASE ~(t = s /\ d = c /\ q = r)
      <4>1. q \in rows[t][d] \ todo[t][d]
        BY <2>4, <2>5, <3>2
      <4> QED BY <2>2, <4>1 DEF IInv, Delivered
    <3> QED BY <3>1, <3>2
  <2>6. ASSUME NEW t \in Scrapes, NEW n \in Sent(t)' \cap Data
        PROVE  \E d \in Collectors : \E q \in rows'[t][d] \ todo'[t][d] :
                 n = Metric(d, LabelOf(q))
    <3>1. CASE n \in Sent(t)
      <4>1. PICK d \in Collectors : \E q \in rows[t][d] \ todo[t][d] :
                                      n = Metric(d, LabelOf(q))
        BY <3>1 DEF IInv, Delivered
      <4> QED BY <2>4, <4>1
    <3>2. CASE n \notin Sent(t)
      <4>1. t = s /\ n = m
        BY <2>2, <2>6, <3>2
      <4>2. r \in rows'[s][c] \ todo'[s][c]
        BY <2>3, <2>4
      <4> QED BY <4>1, <4>2
    <3> QED BY <3>1, <3>2
  <2> QED BY <2>5, <2>6 DEF Delivered
<1> QED BY <1>1, <1>2, <1>3, <1>4, <1>5, <1>6, <1>7, <1>8,
           <1>9, <1>10, <1>11, <1>12, <1>13, <1>14, <1>15, Steps DEF IInv

\* After wg.Wait() every worker's own child has been found.
LEMMA ChildrenStep ==
  ASSUME IInv, [Next]_vars
  PROVE  OwnChildren'
<1>0. Places /\ Contents /\ Messages /\ Counts
  BY Parts DEF IInv
<1>1. CASE Quiet
  <2>1. UNCHANGED <<seen, chan, pending, result, collect>>
    BY <1>1 DEF Quiet, workerVars, gatherVars
  <2> QED BY <2>1 DEF IInv, OwnChildren, Sent
<1>2. ASSUME NEW s \in Scrapes, Request(s) PROVE OwnChildren'
  <2>1. UNCHANGED <<seen, chan, pending, result>>
    BY <1>2 DEF Request, workerVars, gatherVars
  <2>2. \A t \in Scrapes : collect'[t] \in {"summaries", "done"} =>
          collect[t] \in {"summaries", "done"}
    BY <1>2, <1>0 DEF Places, Request
  <2> QED BY <2>1, <2>2 DEF IInv, OwnChildren, Sent
<1>3. ASSUME NEW s \in Scrapes, Receive(s) PROVE OwnChildren'
  <2>1. \A t \in Scrapes : Sent(t)' = Sent(t)
    BY <1>3, <1>0, ReceiveKeeps
  <2>2. UNCHANGED <<collect, result, pending>>
    BY <1>3 DEF Receive, workerVars
  <2> QED BY <2>1, <2>2 DEF IInv, OwnChildren
<1>4. ASSUME NEW s \in Scrapes, Respond(s) PROVE OwnChildren'
  <2>1. UNCHANGED <<seen, chan, pending, result>>
    BY <1>4 DEF Respond, workerVars, gatherVars
  <2>2. \A t \in Scrapes : collect'[t] \in {"summaries", "done"} =>
          collect[t] \in {"summaries", "done"}
    BY <1>4, <1>0 DEF Places, Respond
  <2> QED BY <2>1, <2>2 DEF IInv, OwnChildren, Sent
<1>5. ASSUME NEW s \in Scrapes, Spawn(s) PROVE OwnChildren'
  <2>1. UNCHANGED <<seen, chan, pending, result>>
    BY <1>5 DEF Spawn, workerVars, gatherVars
  <2>2. \A t \in Scrapes : collect'[t] \in {"summaries", "done"} =>
          collect[t] \in {"summaries", "done"}
    BY <1>5, <1>0 DEF Places, Spawn
  <2> QED BY <2>1, <2>2 DEF IInv, OwnChildren, Sent
<1>6. ASSUME NEW s \in Scrapes, Wait(s) PROVE OwnChildren'
  <2>1. UNCHANGED <<seen, chan, result, worker>> /\ collect'[s] = "summaries"
        /\ pending'[s] = {m \in Children : obs[m.summary][m.result] > 0}
        /\ \A t \in Scrapes \ {s} : UNCHANGED <<collect[t], pending[t]>>
    BY <1>6, <1>0 DEF Places, Messages, Wait, workerVars, gatherVars
  <2>2. ASSUME NEW c \in Collectors PROVE Child(c, result[s][c]) \in pending'[s]
    <3>1. worker[s][c] = "done"
      BY <2>1, CloseStep DEF NoSendAfterClose
    <3>2. result[s][c] \in Outcome
      BY <3>1 DEF IInv, ResultOfQuery, ResultAt, Working, Outcome
    <3>3. s \in Counted(c, result[s][c])
      BY <3>1 DEF Counted, Finished
    <3>4. IsFiniteSet(Counted(c, result[s][c]))
      BY ScrapesAssumption, FS_Subset DEF Counted
    <3>5. Cardinality(Counted(c, result[s][c])) > 0
      BY <3>3, <3>4, FS_EmptySet, FS_CardinalityType
    <3>6. obs[c][result[s][c]] > 0
      BY <3>2, <3>5 DEF IInv, RunsCounted, Counted, Finished
    <3> QED BY <2>1, <3>2, <3>6 DEF Child, Children
  <2> QED BY <2>1, <2>2 DEF IInv, OwnChildren, Sent
<1>7. ASSUME NEW s \in Scrapes, SendChild(s) PROVE OwnChildren'
  <2>1. PICK m \in pending[s] : Send(s, m) /\ pending' = [pending EXCEPT ![s] = @ \ {m}]
    BY <1>7 DEF SendChild
  <2>2. UNCHANGED <<collect, result, seen>>
    BY <1>7 DEF SendChild, workerVars, gatherVars
  <2>3. Sent(s)' = Sent(s) \cup {m} /\ \A t \in Scrapes \ {s} : Sent(t)' = Sent(t)
    BY <1>0, <2>1, <2>2, SendAdds
  <2>4. \A t \in Scrapes : pending[t] \cup Sent(t) \subseteq pending'[t] \cup Sent(t)'
    BY <1>0, <2>1, <2>3 DEF Messages
  <2> QED BY <2>2, <2>4 DEF IInv, OwnChildren
<1>8. ASSUME NEW s \in Scrapes, Close(s) PROVE OwnChildren'
  <2>1. UNCHANGED <<seen, chan, pending, result>>
    BY <1>8 DEF Close, workerVars, gatherVars
  <2>2. \A t \in Scrapes : collect'[t] \in {"summaries", "done"} =>
          collect[t] \in {"summaries", "done"}
    BY <1>8, <1>0 DEF Places, Close
  <2> QED BY <2>1, <2>2 DEF IInv, OwnChildren, Sent
<1>9. ASSUME NEW s \in Scrapes, NEW c \in Collectors, Fails(s, c)
      PROVE  OwnChildren'
  <2>1. UNCHANGED <<seen, chan, pending, collect>>
    BY <1>9 DEF Fails, workerVars, gatherVars
  <2>2. collect[s] \notin {"summaries", "done"}
    BY <1>9 DEF IInv, NoSendAfterClose, Fails
  <2>3. \A t \in Scrapes, d \in Collectors : t # s => result'[t][d] = result[t][d]
    BY <1>9, <1>0 DEF Contents, Fails
  <2> QED BY <2>1, <2>2, <2>3 DEF IInv, OwnChildren, Sent
<1>10. ASSUME NEW s \in Scrapes, NEW c \in Collectors, Observe(s, c)
       PROVE  OwnChildren'
  <2>1. UNCHANGED <<seen, chan, pending, result, collect>>
    BY <1>10 DEF Observe, workerVars, gatherVars
  <2> QED BY <2>1 DEF IInv, OwnChildren, Sent
<1>11. ASSUME NEW s \in Scrapes, NEW c \in Collectors, AskToCreate(s, c)
       PROVE  OwnChildren'
  <2>1. UNCHANGED <<seen, chan, pending, result, collect>>
    BY <1>11 DEF AskToCreate, workerVars, gatherVars
  <2> QED BY <2>1 DEF IInv, OwnChildren, Sent
<1>12. ASSUME NEW s \in Scrapes, NEW c \in Collectors, Create(s, c)
       PROVE  OwnChildren'
  <2>1. UNCHANGED <<seen, chan, pending, result, collect>>
    BY <1>12 DEF Create, workerVars, gatherVars
  <2> QED BY <2>1 DEF IInv, OwnChildren, Sent
<1>13. ASSUME NEW s \in Scrapes, NEW c \in Collectors, Done(s, c)
       PROVE  OwnChildren'
  <2>1. UNCHANGED <<seen, chan, pending, result, collect>>
    BY <1>13 DEF Done, workerVars, gatherVars
  <2> QED BY <2>1 DEF IInv, OwnChildren, Sent
<1>14. ASSUME NEW s \in Scrapes, NEW c \in Collectors,
              NEW E \in SUBSET (Rows \cup {"", "custom"}), Returns(s, c, E)
       PROVE  OwnChildren'
  <2>1. UNCHANGED <<seen, chan, pending, collect>>
    BY <1>14 DEF Returns, workerVars, gatherVars
  <2>2. collect[s] \notin {"summaries", "done"}
    BY <1>14 DEF IInv, NoSendAfterClose, Returns
  <2>3. \A t \in Scrapes, d \in Collectors : t # s => result'[t][d] = result[t][d]
    BY <1>14, <1>0 DEF Contents, Returns
  <2> QED BY <2>1, <2>2, <2>3 DEF IInv, OwnChildren, Sent
<1>15. ASSUME NEW s \in Scrapes, NEW c \in Collectors, NEW r \in todo[s][c],
              Emits(s, c, r)
       PROVE  OwnChildren'
  <2>1. Send(s, Metric(c, LabelOf(r))) /\ UNCHANGED <<seen, pending, result, collect>>
    BY <1>15 DEF Emits, gatherVars
  <2>2. \A t \in Scrapes : Sent(t) \subseteq Sent(t)'
    BY <1>0, <2>1, SendAdds
  <2> QED BY <2>1, <2>2 DEF IInv, OwnChildren
<1> QED BY <1>1, <1>2, <1>3, <1>4, <1>5, <1>6, <1>7, <1>8,
           <1>9, <1>10, <1>11, <1>12, <1>13, <1>14, <1>15, Steps DEF IInv

-----------------------------------------------------------------------------
(* The types.                                                              *)

\* The parts of the state that no other lemma looks at.
LEMMA RestStep ==
  ASSUME TypeOK, [Next]_vars
  PROVE  /\ alive' \in BOOLEAN /\ custom' \in Customs /\ tagged' \in BOOLEAN
         /\ wmi' \in Workers \cup {Nobody} /\ errs' \in [Scrapes -> BOOLEAN]
<1> DEFINE Ok == /\ alive' \in BOOLEAN /\ custom' \in Customs /\ tagged' \in BOOLEAN
                 /\ wmi' \in Workers \cup {Nobody} /\ errs' \in [Scrapes -> BOOLEAN]
<1>0. /\ alive \in BOOLEAN /\ custom \in Customs /\ tagged \in BOOLEAN
      /\ wmi \in Workers \cup {Nobody} /\ errs \in [Scrapes -> BOOLEAN]
  BY DEF TypeOK
<1>1. CASE RefreshTags \/ Rest \/ UNCHANGED vars
  BY <1>0, <1>1 DEF RefreshTags, Rest, vars, gatherVars
<1>2. ASSUME NEW s \in Scrapes, Gather(s) \/ Collect(s) PROVE Ok
  <2>1. CASE Receive(s)
    BY <1>0, <2>1 DEF Receive
  <2> QED BY <1>0, <1>2, <2>1 DEF Gather, Collect, Request, Respond, Spawn, Wait,
             SendChild, Close, gatherVars
<1>3. ASSUME NEW s \in Scrapes, NEW c \in Collectors, Execute(s, c) PROVE Ok
  <2>1. CASE Lock(s, c)
    BY <1>0, <2>1 DEF Lock, Workers, gatherVars
  <2>2. CASE QueryFails(s, c)
    BY <1>0, <2>2 DEF QueryFails, Panic, gatherVars
  <2>3. ASSUME NEW R \in SUBSET Rows, QueryReturns(s, c, R) PROVE Ok
    BY <1>0, <2>3 DEF QueryReturns, Panic, gatherVars
  <2>4. CASE Emit(s, c)
    BY <1>0, <2>4 DEF Emit, Panic, gatherVars
  <2>5. CASE Observe(s, c) \/ AskToCreate(s, c) \/ Create(s, c) \/ Done(s, c)
    BY <1>0, <2>5 DEF Observe, AskToCreate, Create, Done, gatherVars
  <2> QED BY <1>3, <2>1, <2>2, <2>3, <2>4, <2>5 DEF Execute, Query
<1> QED BY <1>1, <1>2, <1>3 DEF Next

\* A set of scrapes has no more members than there are scrapes.
LEMMA FewScrapes ==
  ASSUME NEW S \in SUBSET Scrapes
  PROVE  Cardinality(S) \in 0..Cardinality(Scrapes)
<1>1. IsFiniteSet(S) /\ Cardinality(S) <= Cardinality(Scrapes)
  BY ScrapesAssumption, FS_Subset
<1>2. Cardinality(S) \in Nat /\ Cardinality(Scrapes) \in Nat
  BY <1>1, ScrapesAssumption, FS_CardinalityType
<1> QED BY <1>1, <1>2

\* A message sent fits the channel.
LEMMA SendType ==
  ASSUME Messages, \A t \in Scrapes : Len(chan[t]) <= ChanCap,
         NEW s \in Scrapes, NEW m \in Data \cup Children, Send(s, m)
  PROVE  /\ chan' \in [Scrapes -> Seq(Data \cup Children)]
         /\ \A t \in Scrapes : Len(chan'[t]) <= ChanCap
<1>1. chan[s] \in Seq(Data \cup Children) /\ Len(chan[s]) < ChanCap
  BY DEF Messages, Send
<1>2. Append(chan[s], m) \in Seq(Data \cup Children)
      /\ Len(Append(chan[s], m)) <= ChanCap
  BY <1>1, ChanCapAssumption
<1> QED BY <1>2 DEF Messages, Send

\* Every step keeps the types: the counter of a WaitGroup because it is exact, and
\* the observations because each is of a run of one scrape.
LEMMA TypeStep ==
  ASSUME IInv, [Next]_vars
  PROVE  TypeOK'
<1> DEFINE Fits == \A t \in Scrapes : Len(chan[t]) <= ChanCap
           Numbers == wg \in [Scrapes -> Int] /\ obs \in [Collectors -> [Outcome -> Int]]
           Typed == Places /\ Contents /\ Messages /\ Fits /\ Numbers
<1>0. Typed /\ Counts /\ Cardinality(Collectors) \in Nat /\ Cardinality(Scrapes) \in Nat
  <2>1. Places /\ Contents /\ Messages /\ Counts /\ Fits
    BY Parts DEF IInv, TypeOK
  <2>2. Cardinality(Collectors) \in Nat /\ Cardinality(Scrapes) \in Nat
    BY CollectorsAssumption, ScrapesAssumption, FS_CardinalityType
  <2>3. Numbers
    BY <2>1, <2>2 DEF Counts
  <2> QED BY <2>1, <2>2, <2>3
<1>1. ASSUME Quiet PROVE Typed'
  BY <1>0, <1>1 DEF Quiet, workerVars, gatherVars, Places, Contents, Messages
<1>2. ASSUME NEW s \in Scrapes, Request(s) \/ Respond(s) \/ Close(s) \/ Wait(s) PROVE Typed'
  <2>1. Places'
    BY <1>0, <1>2 DEF Places, Request, Respond, Close, Wait, workerVars, gatherVars
  <2>2. Contents' /\ Fits' /\ Numbers'
    BY <1>0, <1>2 DEF Contents, Request, Respond, Close, Wait, workerVars
  <2>3. Messages'
    BY <1>0, <1>2 DEF Messages, Request, Respond, Close, Wait, gatherVars
  <2> QED BY <2>1, <2>2, <2>3
<1>3. ASSUME NEW s \in Scrapes, Receive(s) PROVE Typed'
  <2>1. Places' /\ Contents' /\ Numbers'
    BY <1>0, <1>3 DEF Places, Contents, Receive, workerVars
  <2>2. chan[s] \in Seq(Data \cup Children) /\ chan[s] # <<>> /\ Len(chan[s]) <= ChanCap
    BY <1>0, <1>3 DEF Messages, Receive
  <2>3. /\ Tail(chan[s]) \in Seq(Data \cup Children) /\ Len(Tail(chan[s])) <= ChanCap
        /\ Head(chan[s]) \in Data \cup Children
    BY <2>2, ChanCapAssumption
  <2>4. Messages' /\ Fits'
    BY <1>0, <1>3, <2>3 DEF Messages, Receive
  <2> QED BY <2>1, <2>4
<1>4. ASSUME NEW s \in Scrapes, Spawn(s) PROVE Typed'
  <2>1. Places'
    BY <1>0, <1>4 DEF Places, Spawn, gatherVars
  <2>2. Contents' /\ Messages' /\ Fits'
    BY <1>0, <1>4 DEF Contents, Messages, Spawn, gatherVars
  <2>3. Numbers'
    BY <1>0, <1>4 DEF Spawn
  <2> QED BY <2>1, <2>2, <2>3
<1>5. ASSUME NEW s \in Scrapes, SendChild(s) PROVE Typed'
  <2>1. PICK m \in pending[s] : Send(s, m) /\ pending' = [pending EXCEPT ![s] = @ \ {m}]
    BY <1>5 DEF SendChild
  <2>2. m \in Data \cup Children
    BY <1>0 DEF Messages
  <2>3. Fits' /\ chan' \in [Scrapes -> Seq(Data \cup Children)]
    BY <1>0, <2>1, <2>2, SendType
  <2>4. Messages'
    BY <1>0, <1>5, <2>1, <2>3 DEF Messages, SendChild, gatherVars
  <2>5. Places' /\ Contents' /\ Numbers'
    BY <1>0, <1>5 DEF Places, Contents, SendChild, workerVars, gatherVars
  <2> QED BY <2>3, <2>4, <2>5
<1>6. ASSUME NEW s \in Scrapes, NEW c \in Collectors, Fails(s, c) PROVE Typed'
  <2>1. Places' /\ Messages' /\ Fits' /\ Numbers'
    BY <1>0, <1>6 DEF Places, Messages, Fails, Working, gatherVars
  <2>2. Contents'
    BY <1>0, <1>6 DEF Contents, Fails, Outcome
  <2> QED BY <2>1, <2>2
<1>7. ASSUME NEW s \in Scrapes, NEW c \in Collectors,
             Observe(s, c) \/ Create(s, c) \/ AskToCreate(s, c) \/ Done(s, c)
      PROVE  Typed'
  <2>1. Contents' /\ Messages' /\ Fits'
    BY <1>0, <1>7 DEF Contents, Messages, Observe, Create, AskToCreate, Done, gatherVars
  <2>2. Places'
    <3>1. /\ UNCHANGED <<scrape, collect>>
          /\ \E to \in Working : worker' = [worker EXCEPT ![s][c] = to]
      BY <1>7 DEF Working, Step, Observe, Create, AskToCreate, Done, gatherVars
    <3> QED BY <1>0, <3>1 DEF Places
  <2>3. Numbers'
    <3>1. result[s][c] \in Outcome
      BY <1>0, <1>7 DEF IInv, ResultOfQuery, ResultAt, Working, Outcome, Observe, Create,
            AskToCreate, Done, Step
    <3>2. CASE Observe(s, c) \/ Create(s, c)
      <4>1. \/ obs' = obs
            \/ obs' = [obs EXCEPT ![c][result[s][c]] = @ + 1]
        BY <3>2 DEF Observe, Create
      <4>2. UNCHANGED wg
        BY <3>2 DEF Observe, Create
      <4>3. obs' \in [Collectors -> [Outcome -> Int]]
        <5>1. CASE obs' = [obs EXCEPT ![c][result[s][c]] = @ + 1]
          <6>1. obs[c] \in [Outcome -> Int] /\ obs[c][result[s][c]] + 1 \in Int
            BY <1>0, <3>1
          <6>2. [obs[c] EXCEPT ![result[s][c]] = @ + 1] \in [Outcome -> Int]
            BY <6>1
          <6> QED BY <1>0, <5>1, <6>2
        <5> QED BY <1>0, <4>1, <5>1
      <4> QED BY <1>0, <4>2, <4>3
    <3>3. CASE AskToCreate(s, c)
      BY <1>0, <3>3 DEF AskToCreate
    <3>4. CASE Done(s, c)
      BY <1>0, <3>4 DEF Done
    <3> QED BY <1>7, <3>2, <3>3, <3>4
  <2> QED BY <2>1, <2>2, <2>3
<1>8. ASSUME NEW s \in Scrapes, NEW c \in Collectors,
             NEW E \in SUBSET (Rows \cup {"", "custom"}), Returns(s, c, E)
      PROVE  Typed'
  <2>1. Messages' /\ Fits' /\ Numbers'
    BY <1>0, <1>8 DEF Messages, Returns, gatherVars
  <2>2. Contents'
    BY <1>0, <1>8 DEF Contents, Returns, Outcome
  <2>3. Places'
    BY <1>0, <1>8 DEF Places, Working, Returns, gatherVars
  <2> QED BY <2>1, <2>2, <2>3
<1>9. ASSUME NEW s \in Scrapes, NEW c \in Collectors, NEW r \in todo[s][c], Emits(s, c, r)
      PROVE  Typed'
  <2>1. Metric(c, LabelOf(r)) \in Data
    <3>1. todo[s][c] \in SUBSET (Rows \cup {"", "custom"})
      <4>1. todo \in [Scrapes -> [Collectors -> SUBSET (Rows \cup {"", "custom"})]]
        BY <1>0 DEF Contents
      <4>2. todo[s] \in [Collectors -> SUBSET (Rows \cup {"", "custom"})]
        BY <4>1
      <4> QED BY <4>2
    <3>2. r \in Rows \cup {"", "custom"}
      BY <3>1
    <3> QED BY <3>2, MetricType
  <2>2. Fits' /\ chan' \in [Scrapes -> Seq(Data \cup Children)]
    BY <1>0, <1>9, <2>1, SendType DEF Emits
  <2>3. Messages'
    BY <1>0, <1>9, <2>2 DEF Messages, Emits, gatherVars
  <2>4. Contents' /\ Numbers'
    BY <1>0, <1>9 DEF Contents, Emits
  <2>5. Places'
    BY <1>0, <1>9 DEF Places, Working, Emits, gatherVars
  <2> QED BY <2>2, <2>3, <2>4, <2>5
<1>10. Typed'
  BY <1>1, <1>2, <1>3, <1>4, <1>5, <1>6, <1>7, <1>8, <1>9, Steps DEF IInv
<1>11. \A t \in Scrapes : wg'[t] \in 0..Cardinality(Collectors)
  <2>1. ASSUME NEW t \in Scrapes, collect'[t] \notin {"off", "spawn"}
        PROVE  wg'[t] \in 0..Cardinality(Collectors)
    <3>1. wg'[t] = Cardinality(NotDone(t)')
      BY <2>1, WaitGroupStep DEF WaitGroupExact, NotDone
    <3>2. /\ IsFiniteSet(NotDone(t)')
          /\ Cardinality(NotDone(t)') <= Cardinality(Collectors)
      BY CollectorsAssumption, FS_Subset DEF NotDone
    <3> QED BY <1>0, <3>1, <3>2, FS_CardinalityType
  <2>2. ASSUME NEW t \in Scrapes, collect'[t] \in {"off", "spawn"}
        PROVE  UNCHANGED wg[t]
    <3>1. ASSUME NEW s \in Scrapes, Spawn(s) PROVE UNCHANGED wg[t]
      BY <1>0, <2>2, <3>1 DEF Places, Counts, Spawn
    <3>2. ASSUME NEW s \in Scrapes, NEW c \in Collectors, Done(s, c) PROVE UNCHANGED wg[t]
      BY <1>0, <2>2, <3>2 DEF IInv, InOrder, Counts, Done, Step
    <3>3. CASE UNCHANGED wg
      BY <3>3
    <3>4. ASSUME NEW s \in Scrapes, \/ Request(s) \/ Receive(s) \/ Respond(s)
                                   \/ Wait(s) \/ SendChild(s) \/ Close(s)
          PROVE  UNCHANGED wg
      BY <3>4 DEF Request, Receive, Respond, Wait, SendChild, Close
    <3>5. ASSUME NEW s \in Scrapes, NEW c \in Collectors,
                 \/ Fails(s, c) \/ Observe(s, c) \/ AskToCreate(s, c) \/ Create(s, c)
                 \/ \E E \in SUBSET (Rows \cup {"", "custom"}) : Returns(s, c, E)
                 \/ \E r \in todo[s][c] : Emits(s, c, r)
          PROVE  UNCHANGED wg
      BY <3>5 DEF Fails, Observe, AskToCreate, Create, Returns, Emits
    <3>6. CASE Quiet
      BY <3>6 DEF Quiet
    <3> QED BY <3>1, <3>2, <3>3, <3>4, <3>5, <3>6, Steps DEF IInv
  <2> QED BY <1>0, <2>1, <2>2 DEF Counts
<1>12. \A c \in Collectors, o \in Outcome : obs'[c][o] \in 0..Cardinality(Scrapes)
  BY CountedStep, FewScrapes DEF RunsCounted
<1>13. Counts'
  BY <1>10, <1>11, <1>12 DEF Counts
<1>14. {"off", "query"} \cup Working = {"off", "query", "emit", "observe", "missed", "create",
                                       "observed", "done"}
  BY DEF Working
<1> QED BY <1>10, <1>13, <1>14, RestStep DEF IInv, TypeOK, Places, Contents, Messages, Counts

-----------------------------------------------------------------------------
(* The theorems.                                                           *)

\* The parts, true at first and kept together by every step.
LEMMA Inductive == Spec => []IInv
<1>1. Init => IInv
  <2> SUFFICES ASSUME Init PROVE IInv
    OBVIOUS
  <2>1. /\ Cardinality(Collectors) \in Nat /\ Cardinality(Scrapes) \in Nat
        /\ Cardinality({}) = 0
    BY CollectorsAssumption, ScrapesAssumption, FS_CardinalityType, FS_EmptySet
  <2>2. TypeOK
    <3>1. \A s \in Scrapes : chan[s] = <<>> /\ Len(chan[s]) <= ChanCap
      BY ChanCapAssumption DEF Init
    <3>2. /\ alive \in BOOLEAN /\ custom \in Customs /\ tagged \in BOOLEAN
          /\ wmi \in Workers \cup {Nobody}
          /\ scrape \in [Scrapes -> {"new", "gather", "ok", "error"}]
          /\ collect \in [Scrapes -> {"off", "spawn", "wait", "summaries", "done"}]
          /\ errs \in [Scrapes -> BOOLEAN]
      BY DEF Init
    <3>3. wg \in [Scrapes -> 0..Cardinality(Collectors)]
      BY <2>1 DEF Init
    <3>4. obs \in [Collectors -> [Outcome -> 0..Cardinality(Scrapes)]]
      <4>1. [o \in Outcome |-> 0] \in [Outcome -> 0..Cardinality(Scrapes)]
        BY <2>1
      <4> QED BY <4>1 DEF Init
    <3>5. worker \in [Scrapes -> [Collectors ->
            {"off", "query", "emit", "observe", "missed", "create", "observed", "done"}]]
      BY DEF Init
    <3>6. Contents
      BY DEF Init, Contents, Outcome
    <3>7. <<>> \in Seq(Data \cup Children)
      OBVIOUS
    <3>8. Messages
      BY <3>7 DEF Init, Messages
    <3> QED BY <3>1, <3>2, <3>3, <3>4, <3>5, <3>6, <3>8 DEF TypeOK, Contents, Messages
  <2>3. InOrder /\ WaitGroupExact /\ NoSendAfterClose /\ OwnChildren
    BY DEF Init, InOrder, WaitGroupExact, NoSendAfterClose, OwnChildren
  <2>4. ResultOfQuery
    BY DEF Init, ResultOfQuery, ResultAt, Working
  <2>5. RunsCounted
    <3>1. \A c \in Collectors, o \in Outcome :
            {s \in Scrapes : worker[s][c] \in Finished /\ result[s][c] = o} = {}
      BY DEF Init, Finished
    <3> QED BY <2>1, <3>1 DEF Init, RunsCounted, Finished
  <2>6. Delivered
    <3>1. \A s \in Scrapes : Sent(s) = {}
      BY DEF Init, Sent, InQueue
    <3> QED BY <3>1 DEF Init, Delivered
  <2> QED BY <2>2, <2>3, <2>4, <2>5, <2>6 DEF IInv
<1>2. IInv /\ [Next]_vars => IInv'
  BY TypeStep, InOrderStep, WaitGroupStep, CloseStep, ResultStep, CountedStep,
     DeliveredStep, ChildrenStep DEF IInv
<1> QED BY <1>1, <1>2, PTL DEF Spec

\* Every variable keeps its type; above all the counter of a WaitGroup never goes
\* negative, which sync.WaitGroup answers with a panic (exporter.go:57-65).
THEOREM TypeCorrect == Spec => []TypeOK
<1>1. IInv => TypeOK
  BY DEF IInv
<1> QED BY <1>1, Inductive, PTL

\* The WaitGroup counts the workers that are not done, for any number of scrapes
\* and collectors (exporter.go:57-65).
THEOREM WaitGroup == Spec => []WaitGroupExact
<1>1. IInv => WaitGroupExact
  BY DEF IInv
<1> QED BY <1>1, Inductive, PTL

\* No worker is left when Collect goes on to the summaries and returns, so none
\* sends on a closed channel (exporter.go:65-66).
THEOREM NoLateSend == Spec => []NoSendAfterClose
<1>1. IInv => NoSendAfterClose
  BY DEF IInv
<1> QED BY <1>1, Inductive, PTL

\* Each run is counted once under its own result, however many scrapes race to
\* create the summary's child (exporter.go:83).
THEOREM Runs == Spec => []RunsCounted
<1>1. IInv => RunsCounted
  BY DEF IInv
<1> QED BY <1>1, Inductive, PTL

\* What an answered scrape has seen is all that was sent to it.
LEMMA AnsweredHasAll ==
  ASSUME IInv, NEW s \in Scrapes, scrape[s] = "ok"
  PROVE  /\ seen[s] = Sent(s) /\ pending[s] = {} /\ collect[s] = "done"
         /\ \A c \in Collectors : worker[s][c] = "done" /\ todo[s][c] = {}
<1>1. collect[s] = "done" /\ chan[s] = <<>> /\ pending[s] = {}
  BY DEF IInv, InOrder
<1>2. \A c \in Collectors : worker[s][c] = "done"
  BY <1>1 DEF IInv, NoSendAfterClose
<1>3. \A c \in Collectors : todo[s][c] = {}
  BY <1>2 DEF IInv, ResultOfQuery, ResultAt
<1>4. InQueue(chan[s]) = {}
  BY <1>1 DEF InQueue
<1> QED BY <1>1, <1>2, <1>3, <1>4 DEF Sent

\* A scrape answered with 200 holds exactly the metrics of its own queries, for any
\* capacity of the channel (registry.go:455).
THEOREM Complete == Spec => []ResponseComplete
<1>1. IInv => ResponseComplete
  <2> SUFFICES ASSUME IInv, NEW s \in Scrapes, scrape[s] = "ok"
               PROVE  seen[s] \cap Data = Expected(s)
    BY DEF ResponseComplete
  <2>1. seen[s] = Sent(s) /\ \A c \in Collectors : todo[s][c] = {}
    BY AnsweredHasAll
  <2>2. ASSUME NEW m \in seen[s] \cap Data PROVE m \in Expected(s)
    <3>1. PICK c \in Collectors : \E r \in rows[s][c] \ todo[s][c] :
                                    m = Metric(c, LabelOf(r))
      BY <2>1 DEF IInv, Delivered
    <3> QED BY <3>1 DEF Expected
  <2>3. ASSUME NEW m \in Expected(s) PROVE m \in seen[s] \cap Data
    <3>1. PICK c \in Collectors : \E r \in rows[s][c] : m = Metric(c, LabelOf(r))
      BY DEF Expected
    <3>2. PICK r \in rows[s][c] : m = Metric(c, LabelOf(r))
      BY <3>1
    <3>3. m \in Sent(s)
      BY <2>1, <3>2 DEF IInv, Delivered
    <3>4. r \in Rows \cup {"", "custom"}
      <4>1. Contents
        BY Parts DEF IInv
      <4> QED BY <4>1, RowType
    <3> QED BY <2>1, <3>2, <3>3, <3>4, MetricType
  <2> QED BY <2>2, <2>3
<1> QED BY <1>1, Inductive, PTL

\* ... and counts the run of every collector in this scrape, a template's failed one
\* as a success (exporter.go:65-66, templatedcollector.go:61).
THEOREM Reported == Spec => []OwnRunsReported
<1>1. IInv => OwnRunsReported
  <2> SUFFICES ASSUME IInv, NEW s \in Scrapes, scrape[s] = "ok", NEW c \in Collectors
               PROVE  Child(c, IF c \in failed[s] /\ Kind[c] # "template"
                               THEN "error" ELSE "success") \in seen[s]
    BY DEF OwnRunsReported
  <2>1. /\ seen[s] = Sent(s) /\ pending[s] = {} /\ collect[s] = "done"
        /\ worker[s][c] = "done"
    BY AnsweredHasAll
  <2>2. Child(c, result[s][c]) \in seen[s]
    BY <2>1 DEF IInv, OwnChildren
  <2> QED BY <2>1, <2>2 DEF IInv, ResultOfQuery, ResultAt, Working
<1> QED BY <1>1, Inductive, PTL

=============================================================================
