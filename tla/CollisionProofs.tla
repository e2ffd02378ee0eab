--------------------------- MODULE CollisionProofs ---------------------------
(***************************************************************************)
(* Proof that a scrape fails only when two instances of one WMI class are  *)
(* given the same labels, on top of the invariant of ScrapeProofs.         *)
(***************************************************************************)
EXTENDS ScrapeProofs

\* What Gather will have met before it receives the i-th message of the channel.
Earlier(s, i) == seen[s] \cup {chan[s][j] : j \in 1..(i - 1)}

\* Gather has refused a metric, or is going to when the channel is drained.
Repeated(s) == errs[s] \/ \E i \in 1..Len(chan[s]) : chan[s][i] \in Earlier(s, i)

\* Two of the emitted rows of a collector have equal labels.
Collides(s) ==
  \E c \in Collectors : \E q, r \in rows[s][c] \ todo[s][c] :
    q # r /\ LabelOf(q) = LabelOf(r)

\* No summary is sent twice.
Fresh(s) ==
  /\ pending[s] \cap Sent(s) = {}
  /\ collect[s] \notin {"summaries", "done"} => Sent(s) \cap Children = {}

\* An answer tells whether Gather has refused a metric.
Answered(s) ==
  /\ scrape[s] = "error" => errs[s]
  /\ scrape[s] = "ok" => ~errs[s]

CollisionInv ==
  \A s \in Scrapes : Fresh(s) /\ Answered(s) /\ (Repeated(s) <=> Collides(s))

-----------------------------------------------------------------------------
(* The channel.                                                            *)

\* A message sent will be refused if it was sent before.
LEMMA SendRepeats ==
  ASSUME Messages, NEW s \in Scrapes, NEW m, Send(s, m), UNCHANGED <<seen, errs>>
  PROVE  /\ Repeated(s)' <=> Repeated(s) \/ m \in Sent(s)
         /\ \A t \in Scrapes \ {s} : Repeated(t)' <=> Repeated(t)
<1> DEFINE n == Len(chan[s])
<1>1. chan[s] \in Seq(Data \cup Children) /\ n \in Nat
  BY DEF Messages
<1>2. chan'[s] = Append(chan[s], m) /\ \A t \in Scrapes \ {s} : chan'[t] = chan[t]
  BY DEF Messages, Send
<1>3. /\ Len(chan'[s]) = n + 1 /\ chan'[s][n + 1] = m
      /\ \A i \in 1..n : chan'[s][i] = chan[s][i]
  BY <1>1, <1>2
<1>4. \A i \in 1..(n + 1) : Earlier(s, i)' = Earlier(s, i)
  <2>1. ASSUME NEW i \in 1..(n + 1) PROVE Earlier(s, i)' = Earlier(s, i)
    <3>1. \A j \in 1..(i - 1) : j \in 1..n
      BY <1>1
    <3>2. \A j \in 1..(i - 1) : chan'[s][j] = chan[s][j]
      BY <1>3, <3>1
    <3> QED BY <3>2 DEF Earlier
  <2> QED BY <2>1
<1>5. Earlier(s, n + 1) = Sent(s)
  BY <1>1 DEF Earlier, Sent, InQueue
<1>6. (\E i \in 1..(n + 1) : chan'[s][i] \in Earlier(s, i)')
        <=> (\E i \in 1..n : chan[s][i] \in Earlier(s, i)) \/ m \in Sent(s)
  <2>1. 1..(n + 1) = (1..n) \cup {n + 1}
    BY <1>1
  <2> QED BY <1>3, <1>4, <1>5, <2>1
<1>7. Repeated(s)' <=> Repeated(s) \/ m \in Sent(s)
  BY <1>3, <1>6 DEF Repeated
<1>8. \A t \in Scrapes \ {s} : Repeated(t)' <=> Repeated(t)
  BY <1>2 DEF Repeated, Earlier
<1> QED BY <1>7, <1>8

\* What is going to be refused is refused in its turn.
LEMMA ReceiveRepeats ==
  ASSUME TypeOK, NEW s \in Scrapes, Receive(s)
  PROVE  \A t \in Scrapes : Repeated(t)' <=> Repeated(t)
<1> DEFINE q == chan[s]
           n == Len(chan[s])
<1>0. Messages /\ errs \in [Scrapes -> BOOLEAN]
  BY Parts DEF TypeOK
<1>1. q \in Seq(Data \cup Children) /\ q # <<>> /\ n \in Nat \ {0}
  BY <1>0 DEF Messages, Receive
<1>2. /\ chan'[s] = Tail(q) /\ seen'[s] = seen[s] \cup {q[1]}
      /\ errs'[s] = (errs[s] \/ q[1] \in seen[s])
      /\ \A t \in Scrapes \ {s} : UNCHANGED <<chan[t], seen[t], errs[t]>>
  BY <1>0, <1>1 DEF Messages, Receive
<1>3. Len(chan'[s]) = n - 1 /\ \A i \in 1..(n - 1) : chan'[s][i] = q[i + 1]
  BY <1>1, <1>2
<1>4. ASSUME NEW i \in 1..(n - 1) PROVE Earlier(s, i)' = Earlier(s, i + 1)
  <2>1. {chan'[s][j] : j \in 1..(i - 1)} = {q[j + 1] : j \in 1..(i - 1)}
    <3>1. \A j \in 1..(i - 1) : j \in 1..(n - 1)
      BY <1>1
    <3> QED BY <1>3, <3>1
  <2>2. {q[j] : j \in 1..i} = {q[1]} \cup {q[j + 1] : j \in 1..(i - 1)}
    <3>1. ASSUME NEW j \in 1..i, j # 1 PROVE q[j] \in {q[k + 1] : k \in 1..(i - 1)}
      BY <3>1, j - 1 \in 1..(i - 1), (j - 1) + 1 = j
    <3> QED BY <3>1
  <2>3. (i + 1) - 1 = i
    OBVIOUS
  <2>4. seen'[s] \cup {chan'[s][j] : j \in 1..(i - 1)} = seen[s] \cup {q[j] : j \in 1..i}
    BY <1>2, <2>1, <2>2
  <2> QED BY <2>3, <2>4 DEF Earlier
<1>5. Earlier(s, 1) = seen[s]
  BY DEF Earlier
<1>6. (\E i \in 1..n : q[i] \in Earlier(s, i))
        <=> q[1] \in seen[s] \/ \E i \in 1..(n - 1) : q[i + 1] \in Earlier(s, i + 1)
  <2>1. ASSUME NEW i \in 1..n, i # 1, q[i] \in Earlier(s, i)
        PROVE  \E k \in 1..(n - 1) : q[k + 1] \in Earlier(s, k + 1)
    BY <1>1, <2>1, i - 1 \in 1..(n - 1), (i - 1) + 1 = i
  <2>2. 1 \in 1..n /\ \A i \in 1..(n - 1) : i + 1 \in 1..n
    BY <1>1
  <2> QED BY <1>5, <2>1, <2>2
<1>7. Repeated(s)' <=> Repeated(s)
  <2>1. (\E i \in 1..Len(chan'[s]) : chan'[s][i] \in Earlier(s, i)')
          <=> \E i \in 1..(n - 1) : q[i + 1] \in Earlier(s, i + 1)
    BY <1>3, <1>4
  <2> QED BY <1>2, <1>6, <2>1 DEF Repeated
<1>8. \A t \in Scrapes \ {s} : Repeated(t)' <=> Repeated(t)
  BY <1>2 DEF Repeated, Earlier
<1> QED BY <1>7, <1>8

-----------------------------------------------------------------------------
(* The steps.                                                              *)

\* A step that leaves the messages and the rows alone leaves the rest as it is.
LEMMA Untouched ==
  ASSUME CollisionInv, UNCHANGED <<chan, seen, errs, rows, todo, pending, collect, scrape>>
  PROVE  CollisionInv'
BY DEF CollisionInv, Fresh, Answered, Repeated, Earlier, Collides, Sent, InQueue, LabelOf

\* The steps of a handler and of Collect.
LEMMA GatherStep ==
  ASSUME IInv, CollisionInv, NEW s \in Scrapes,
         \/ Request(s) \/ Receive(s) \/ Respond(s)
         \/ Spawn(s) \/ Wait(s) \/ SendChild(s) \/ Close(s)
  PROVE  CollisionInv'
<1>0. TypeOK /\ Places /\ Contents /\ Messages /\ Counts
  BY Parts DEF IInv
<1>1. UNCHANGED <<rows, todo>>
  BY DEF Request, Receive, Respond, Spawn, Wait, SendChild, Close, workerVars
<1>2. \A t \in Scrapes : Collides(t)' <=> Collides(t)
  BY <1>1 DEF Collides
<1>3. CASE Request(s) \/ Spawn(s) \/ Close(s)
  <2>1. UNCHANGED <<chan, seen, errs, pending>>
    BY <1>3 DEF Request, Spawn, Close, gatherVars
  <2>2. \A t \in Scrapes : collect'[t] \notin {"summaries", "done"} =>
          collect[t] \notin {"summaries", "done"}
    BY <1>0, <1>3 DEF IInv, InOrder, Places, Request, Spawn, Close
  <2>3. \A t \in Scrapes : scrape'[t] \in {"ok", "error"} => scrape'[t] = scrape[t]
    BY <1>0, <1>3 DEF Places, Request, Spawn, Close, gatherVars
  <2> QED BY <1>2, <2>1, <2>2, <2>3 DEF CollisionInv, Fresh, Answered, Repeated, Earlier,
             Sent, InQueue
<1>4. CASE Receive(s)
  <2>1. \A t \in Scrapes : Sent(t)' = Sent(t)
    BY <1>0, <1>4, ReceiveKeeps
  <2>2. \A t \in Scrapes : Repeated(t)' <=> Repeated(t)
    BY <1>0, <1>4, ReceiveRepeats
  <2>3. UNCHANGED <<pending, collect, scrape>> /\ scrape[s] = "gather"
    BY <1>4 DEF Receive
  <2>4. \A t \in Scrapes : t # s => errs'[t] = errs[t]
    BY <1>0, <1>4 DEF TypeOK, Receive
  <2> QED BY <1>2, <2>1, <2>2, <2>3, <2>4 DEF CollisionInv, Fresh, Answered
<1>5. CASE Respond(s)
  <2>1. UNCHANGED <<chan, seen, errs, pending, collect>>
    BY <1>5 DEF Respond
  <2>2. /\ scrape'[s] = IF errs[s] THEN "error" ELSE "ok"
        /\ \A t \in Scrapes : t # s => scrape'[t] = scrape[t]
    BY <1>0, <1>5 DEF Places, Respond
  <2> QED BY <1>2, <2>1, <2>2 DEF CollisionInv, Fresh, Answered, Repeated, Earlier, Sent,
             InQueue
<1>6. CASE Wait(s)
  <2>1. /\ UNCHANGED <<chan, seen, errs, scrape>> /\ collect[s] = "wait"
        /\ collect'[s] = "summaries" /\ pending'[s] \subseteq Children
        /\ \A t \in Scrapes : t # s => UNCHANGED <<pending[t], collect[t]>>
    BY <1>0, <1>6 DEF Places, Messages, Wait, gatherVars
  <2>2. \A t : (Sent(t)' = Sent(t)) /\ (Repeated(t)' <=> Repeated(t))
    BY <2>1 DEF Sent, InQueue, Repeated, Earlier
  <2> QED BY <1>2, <2>1, <2>2 DEF CollisionInv, Fresh, Answered
<1>7. CASE SendChild(s)
  <2>1. PICK m \in pending[s] : Send(s, m) /\ pending' = [pending EXCEPT ![s] = @ \ {m}]
    BY <1>7 DEF SendChild
  <2>2. UNCHANGED <<collect, seen, errs, scrape>> /\ collect[s] = "summaries"
    BY <1>7 DEF SendChild, gatherVars
  <2>3. Sent(s)' = Sent(s) \cup {m} /\ \A t \in Scrapes \ {s} : Sent(t)' = Sent(t)
    BY <1>0, <2>1, <2>2, SendAdds
  <2>4. m \notin Sent(s)
    BY DEF CollisionInv, Fresh
  <2>5. \A t \in Scrapes : Repeated(t)' <=> Repeated(t)
    BY <1>0, <2>1, <2>2, <2>4, SendRepeats
  <2>6. \A t \in Scrapes : pending'[t] \cap Sent(t)' = {}
    BY <1>0, <2>1, <2>3 DEF Messages, CollisionInv, Fresh
  <2> QED BY <1>2, <2>2, <2>3, <2>5, <2>6 DEF CollisionInv, Fresh, Answered
<1> QED BY <1>3, <1>4, <1>5, <1>6, <1>7

\* A worker that emits a row sends what it has sent before exactly when it has
\* emitted a row with the same labels.
LEMMA EmitStep ==
  ASSUME IInv, CollisionInv, NEW s \in Scrapes, NEW c \in Collectors,
         NEW r \in todo[s][c], Emits(s, c, r)
  PROVE  CollisionInv'
<1> DEFINE m == Metric(c, LabelOf(r))
           Emitted == rows[s][c] \ todo[s][c]
<1>0. Places /\ Contents /\ Messages
  BY Parts DEF IInv
<1>1. Send(s, m) /\ UNCHANGED <<seen, errs, scrape, collect, pending, rows>>
  BY DEF Emits, gatherVars
<1>2. Sent(s)' = Sent(s) \cup {m} /\ \A t \in Scrapes \ {s} : Sent(t)' = Sent(t)
  BY <1>0, <1>1, SendAdds
<1>3. m \in Data /\ m \notin Children /\ r \in rows[s][c]
  <2>1. r \in rows[s][c]
    BY DEF IInv, ResultOfQuery, ResultAt
  <2> QED BY <1>0, <2>1, RowType, MetricType, Apart
<1>4. /\ Repeated(s)' <=> Repeated(s) \/ m \in Sent(s)
      /\ \A t \in Scrapes \ {s} : Repeated(t)' <=> Repeated(t)
  BY <1>0, <1>1, SendRepeats
<1>5. m \in Sent(s) <=> \E q \in Emitted : LabelOf(q) = LabelOf(r)
  <2>1. ASSUME m \in Sent(s) PROVE \E q \in Emitted : LabelOf(q) = LabelOf(r)
    <3>1. PICK d \in Collectors : \E q \in rows[s][d] \ todo[s][d] :
                                    m = Metric(d, LabelOf(q))
      BY <1>3, <2>1 DEF IInv, Delivered
    <3> QED BY <3>1 DEF Metric
  <2>2. ASSUME NEW q \in Emitted, LabelOf(q) = LabelOf(r) PROVE m \in Sent(s)
    BY <2>2 DEF IInv, Delivered
  <2> QED BY <2>1, <2>2
<1>6. /\ rows'[s][c] \ todo'[s][c] = Emitted \cup {r} /\ r \notin Emitted
      /\ \A t \in Scrapes, d \in Collectors : t # s \/ d # c => todo'[t][d] = todo[t][d]
  <2>1. /\ todo'[s][c] = todo[s][c] \ {r}
        /\ \A t \in Scrapes, d \in Collectors : t # s \/ d # c => todo'[t][d] = todo[t][d]
    BY <1>0 DEF Contents, Emits
  <2> QED BY <1>1, <1>3, <2>1
<1>7. Collides(s)' <=> Collides(s) \/ \E q \in Emitted : LabelOf(q) = LabelOf(r)
  <2>1. ASSUME NEW d \in Collectors, NEW p \in rows'[s][d] \ todo'[s][d],
               NEW q \in rows'[s][d] \ todo'[s][d], p # q, LabelOf(p) = LabelOf(q)
        PROVE  Collides(s) \/ \E x \in Emitted : LabelOf(x) = LabelOf(r)
    <3>1. CASE d = c /\ (p = r \/ q = r)
      BY <1>6, <2>1, <3>1
    <3>2. CASE ~(d = c /\ (p = r \/ q = r))
      BY <1>1, <1>6, <2>1, <3>2 DEF Collides
    <3> QED BY <3>1, <3>2
  <2>2. ASSUME NEW d \in Collectors, NEW p \in rows[s][d] \ todo[s][d],
               NEW q \in rows[s][d] \ todo[s][d], p # q, LabelOf(p) = LabelOf(q)
        PROVE  Collides(s)'
    <3>1. p \in rows'[s][d] \ todo'[s][d] /\ q \in rows'[s][d] \ todo'[s][d]
      BY <1>1, <1>6
    <3> QED BY <2>2, <3>1 DEF Collides
  <2>3. ASSUME NEW q \in Emitted, LabelOf(q) = LabelOf(r)
        PROVE  Collides(s)'
    BY <1>6, <2>3 DEF Collides
  <2> QED BY <2>1, <2>2, <2>3 DEF Collides
<1>8. \A t \in Scrapes \ {s} : Collides(t)' <=> Collides(t)
  BY <1>1, <1>6 DEF Collides
<1>9. \A t \in Scrapes : Repeated(t)' <=> Collides(t)'
  BY <1>4, <1>5, <1>7, <1>8 DEF CollisionInv
<1>10. \A t \in Scrapes : Fresh(t)'
  <2>1. pending[s] \subseteq Children
    BY <1>0 DEF Messages
  <2> QED BY <1>1, <1>2, <1>3, <2>1 DEF CollisionInv, Fresh
<1> QED BY <1>1, <1>9, <1>10 DEF CollisionInv, Answered

\* The other steps of a worker.
LEMMA WorkerStep ==
  ASSUME IInv, CollisionInv, NEW s \in Scrapes, NEW c \in Collectors,
         \/ Fails(s, c) \/ Observe(s, c) \/ AskToCreate(s, c) \/ Create(s, c)
         \/ Done(s, c)
         \/ \E E \in SUBSET (Rows \cup {"", "custom"}) : Returns(s, c, E)
  PROVE  CollisionInv'
<1>1. CASE Fails(s, c) \/ Observe(s, c) \/ AskToCreate(s, c) \/ Create(s, c) \/ Done(s, c)
  <2>1. UNCHANGED <<chan, seen, errs, rows, todo, pending, collect, scrape>>
    BY <1>1 DEF Fails, Observe, AskToCreate, Create, Done, gatherVars
  <2> QED BY <2>1, Untouched
<1>2. ASSUME NEW E \in SUBSET (Rows \cup {"", "custom"}), Returns(s, c, E)
      PROVE  CollisionInv'
  <2>0. Places /\ Contents
    BY Parts DEF IInv
  <2>1. UNCHANGED <<chan, seen, errs, pending, collect, scrape>>
    BY <1>2 DEF Returns, gatherVars
  <2>2. ResultAt(s, c) /\ worker[s][c] \notin Working
    BY <1>2 DEF IInv, ResultOfQuery, Returns, Working
  <2>3. rows[s][c] \ todo[s][c] = {} /\ rows'[s][c] \ todo'[s][c] = {}
    <3>1. rows[s][c] = {}
      BY <2>2 DEF ResultAt
    <3>2. rows'[s][c] = E /\ todo'[s][c] = E
      <4>1. /\ rows' = [rows EXCEPT ![s][c] = E]
            /\ todo' = [todo EXCEPT ![s][c] = E]
        BY <1>2 DEF Returns
      <4>2. /\ DOMAIN rows = Scrapes /\ DOMAIN todo = Scrapes
            /\ DOMAIN rows[s] = Collectors /\ DOMAIN todo[s] = Collectors
        BY <2>0 DEF Contents
      <4> QED BY <4>1, <4>2
    <3> QED BY <3>1, <3>2
  <2>4. \A t \in Scrapes, d \in Collectors :
          rows'[t][d] \ todo'[t][d] = rows[t][d] \ todo[t][d]
    <3>1. rows' = [rows EXCEPT ![s][c] = E] /\ todo' = [todo EXCEPT ![s][c] = E]
      BY <1>2 DEF Returns
    <3>2. ASSUME NEW t \in Scrapes, NEW d \in Collectors, t # s \/ d # c
          PROVE  rows'[t][d] = rows[t][d] /\ todo'[t][d] = todo[t][d]
      BY <2>0, <3>1, <3>2 DEF Contents
    <3> QED BY <2>3, <3>2
  <2>5. \A t \in Scrapes : Collides(t)' <=> Collides(t)
    BY <2>4 DEF Collides
  <2>6. \A t \in Scrapes : (Sent(t)' = Sent(t)) /\ (Repeated(t)' <=> Repeated(t))
    BY <2>1 DEF Sent, InQueue, Repeated, Earlier
  <2> QED BY <2>1, <2>5, <2>6 DEF CollisionInv, Fresh, Answered
<1> QED BY <1>1, <1>2

-----------------------------------------------------------------------------
\* The whole scrape fails exactly when two rows of one query have equal labels, for
\* any rows and labels and whichever collectors fail (registry.go, net.go:136).
THEOREM OnlyCollisions == Spec => []FailsOnlyOnCollision
<1>1. Init => CollisionInv
  <2> SUFFICES ASSUME Init, NEW s \in Scrapes
               PROVE  Fresh(s) /\ Answered(s) /\ ~Repeated(s) /\ ~Collides(s)
    BY DEF CollisionInv
  <2>1. Sent(s) = {} /\ chan[s] = <<>> /\ errs[s] = FALSE /\ scrape[s] = "new"
    BY DEF Init, Sent, InQueue
  <2>2. \A c \in Collectors : rows[s][c] = {}
    BY DEF Init
  <2>3. ~Repeated(s)
    BY <2>1 DEF Repeated
  <2> QED BY <2>1, <2>2, <2>3 DEF Fresh, Answered, Collides
<1>2. IInv /\ CollisionInv /\ [Next]_vars => CollisionInv'
  <2> SUFFICES ASSUME IInv, CollisionInv, [Next]_vars PROVE CollisionInv'
    OBVIOUS
  <2>1. CASE Quiet
    BY <2>1, Untouched DEF Quiet, workerVars, gatherVars
  <2> QED BY <2>1, Steps, GatherStep, WorkerStep, EmitStep DEF IInv
<1>3. IInv /\ CollisionInv => FailsOnlyOnCollision
  <2> SUFFICES ASSUME IInv, CollisionInv, NEW s \in Scrapes, scrape[s] \in {"ok", "error"}
               PROVE  scrape[s] = "error" <=>
                        \E c \in Collectors : \E q, r \in rows[s][c] :
                          q # r /\ LabelOf(q) = LabelOf(r)
    BY DEF FailsOnlyOnCollision
  <2>1. collect[s] = "done" /\ chan[s] = <<>>
    BY DEF IInv, InOrder
  <2>2. \A c \in Collectors : todo[s][c] = {}
    BY <2>1 DEF IInv, NoSendAfterClose, ResultOfQuery, ResultAt
  <2>3. Repeated(s) <=> errs[s]
    BY <2>1 DEF Repeated
  <2>4. scrape[s] = "error" <=> errs[s]
    BY DEF CollisionInv, Answered
  <2>5. Collides(s) <=> \E c \in Collectors : \E q, r \in rows[s][c] :
                          q # r /\ LabelOf(q) = LabelOf(r)
    <3>1. \A c \in Collectors : rows[s][c] \ todo[s][c] = rows[s][c]
      BY <2>2
    <3> QED BY <3>1 DEF Collides
  <2> QED BY <2>3, <2>4, <2>5 DEF CollisionInv
<1> QED BY <1>1, <1>2, <1>3, Inductive, PTL DEF Spec

=============================================================================
