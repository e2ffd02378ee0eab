----------------------- MODULE TemplateCollectorProofs -----------------------
(***************************************************************************)
(* Proofs about TemplateCollector: what a scrape computes over all cores   *)
(* covers its own rows, is what the function's name says, and does not     *)
(* fail for cores that come and go.                                        *)
(***************************************************************************)
EXTENDS TemplateCollector, SequenceTheorems, FiniteSetTheorems, TLAPS

MapType == [rows : [Cores -> 0..MaxRuns], writers : SUBSET Workers]
WorkerType ==
  [pc : PCs, run : 0..MaxRuns, rows : SUBSET Cores, todo : SUBSET Cores, base : Nat,
   into : Nat, key : Cores \cup {All}, next : Nat \ {0}, size : Nat, iter : Nat,
   must : SUBSET Cores, list : List]

Types ==
  /\ metrics \in Configs /\ metrics \in Seq(MetricType) /\ serial \in BOOLEAN
  /\ run \in 0..MaxRuns
  /\ maps \in Seq(MapType) /\ lmap = Len(maps)
  /\ worker \in [Workers -> WorkerType]

\* The places of a goroutine: it has rows to store, has stored them, has a metric.
Storing == {"store", "storing"}
Reckoning == {"list", "range", "eval"}
Filling == Storing \cup {"metric"} \cup Reckoning

-----------------------------------------------------------------------------
(* One goroutine.                                                          *)

\* Rows that a query returned, and a metric that there is.
Placed(w) ==
  /\ worker[w].run <= run /\ (worker[w].pc # "idle" => worker[w].run > 0)
  /\ worker[w].todo \subseteq worker[w].rows
  /\ worker[w].pc \in {"check", "make"} => worker[w].todo = worker[w].rows
  /\ worker[w].pc \in Filling \ Storing => worker[w].todo = {}
  /\ worker[w].next <= Len(metrics) + 1
  /\ worker[w].pc \in Reckoning => worker[w].next <= Len(metrics)
  /\ worker[w].pc \in {"list", "range"} => Metric(w).core = All

\* The map it fills is there, and c.lmap has not gone back behind it.
Based(w) ==
  /\ worker[w].base <= lmap /\ worker[w].iter <= lmap
  /\ worker[w].pc \in Filling => worker[w].base # 0
  /\ worker[w].pc = "storing" =>
       /\ worker[w].into \in worker[w].base..lmap /\ worker[w].key \in worker[w].todo
  /\ worker[w].pc = "range" => worker[w].iter >= worker[w].base
  /\ serial /\ worker[w].pc \in Filling => worker[w].base = lmap

\* While c.lmap is the map it fills, its rows are in it as far as it has stored them.
Filled(w) ==
  worker[w].pc \in Filling /\ worker[w].base = lmap =>
    \A c \in worker[w].rows \ worker[w].todo :
      /\ maps[lmap].rows[c] > 0
      /\ serial => maps[lmap].rows[c] = worker[w].run

\* Its list over all cores has rows of that map, one for each core, and at the end
\* every core that the map had when the range began.
Over(w) == worker[w].pc = "range" \/ (worker[w].pc = "eval" /\ Metric(w).core = All)
Ranged(w) ==
  Over(w) /\ worker[w].base = lmap =>
    /\ worker[w].pc = "range" => worker[w].iter = lmap
    /\ worker[w].rows \subseteq worker[w].must
    /\ \A i \in 1..Len(worker[w].list) :
         /\ worker[w].list[i][2] > 0
         /\ serial /\ worker[w].list[i][1] \in worker[w].rows =>
              worker[w].list[i][2] = worker[w].run
Listed(w) ==
  /\ \A i, j \in 1..Len(worker[w].list) :
       worker[w].list[i][1] = worker[w].list[j][1] => i = j
  /\ \A i \in 1..Len(worker[w].list) : worker[w].list[i][2] <= run
  /\ worker[w].pc = "list" => worker[w].list = <<>>
  /\ worker[w].pc = "eval" /\ Metric(w).core = All => worker[w].must \subseteq Seen(w)

\* The list has a place for each core in the map: for as many as there are when it is
\* made, but with one scrape at a time there are no others.
Sized(w) ==
  /\ worker[w].size <= Cardinality(Cores)
  /\ serial =>
       /\ worker[w].pc \in {"list", "range"} => worker[w].size = Cardinality(Present(lmap))
       /\ worker[w].pc = "range" => /\ worker[w].must = Present(lmap)
                                    /\ Seen(w) \subseteq worker[w].must
       /\ worker[w].pc = "eval" => Len(worker[w].list) = worker[w].size

WorkerInv(w) ==
  Placed(w) /\ Based(w) /\ Filled(w) /\ Ranged(w) /\ Listed(w) /\ Sized(w)

-----------------------------------------------------------------------------
(* All of them, and what they share.                                       *)

\* No row is from a query to come.
Past == \A k \in 1..Len(maps) : \A c \in Cores : maps[k].rows[c] <= run

\* With one scrape at a time one goroutine is at work, and only it writes.
Alone == serial =>
  /\ \A v, w \in Workers : worker[v].pc # "idle" /\ worker[w].pc # "idle" => v = w
  /\ \A k \in 1..Len(maps) : Written(k) =>
       \E w \in Workers : worker[w].pc = "storing" /\ worker[w].into = k

\* What was sent is a list of rows, for a metric of the configuration.
SentOK(w) ==
  /\ sent[w].metric \in 0..Len(metrics) /\ sent[w].list \in List
  /\ \A i, j \in 1..Len(sent[w].list) : sent[w].list[i][1] = sent[w].list[j][1] => i = j

Answered ==
  /\ sent = [w \in Workers |-> sent[w]] /\ \A w \in Workers : SentOK(w)
  /\ OwnRowsSummed /\ ComputedAsNamed

IInv == Types /\ Past /\ Alone /\ Answered /\ \A w \in Workers : WorkerInv(w)

-----------------------------------------------------------------------------
(* Lists and frames.                                                       *)

\* A list with one place for each core is as long as it has cores.
LEMMA OneEach ==
  ASSUME NEW list \in List,
         \A i, j \in 1..Len(list) : list[i][1] = list[j][1] => i = j
  PROVE  LET cores == {list[i][1] : i \in 1..Len(list)}
         IN  /\ cores \subseteq Cores /\ IsFiniteSet(cores)
             /\ Cardinality(cores) = Len(list) /\ Len(list) \in Nat
<1> DEFINE cores == {list[i][1] : i \in 1..Len(list)}
           f == [i \in 1..Len(list) |-> list[i][1]]
<1>1. list \in Seq(Cores \X (0..MaxRuns)) /\ Len(list) \in Nat
  BY LenProperties DEF List
<1>2. \A i \in 1..Len(list) : list[i] \in Cores \X (0..MaxRuns)
  BY <1>1, ElementOfSeq
<1>3. cores \subseteq Cores
  BY <1>2
<1>4. f \in Bijection(1..Len(list), cores)
  <2>1. f \in [1..Len(list) -> cores] /\ \A i \in 1..Len(list) : f[i] = list[i][1]
    OBVIOUS
  <2>2. \A c \in cores : \E i \in 1..Len(list) : f[i] = c
    BY <2>1
  <2> HIDE DEF f, cores
  <2>3. \A i, j \in 1..Len(list) : f[i] = f[j] => i = j
    BY <2>1
  <2> QED BY <2>1, <2>2, <2>3 DEF Bijection, Injection, Surjection, IsInjective
<1>5. ExistsBijection(1..Len(list), cores)
  BY <1>4 DEF ExistsBijection
<1>6. Cardinality(cores) = Len(list)
  BY <1>1, <1>5, FS_CountingElements
<1>7. IsFiniteSet(cores)
  BY <1>3, CoresAssumption, FS_Subset
<1> QED BY <1>1, <1>3, <1>6, <1>7

\* The map that c.lmap refers to, once there is one.
LEMMA CurrentMap ==
  ASSUME Types, lmap # 0
  PROVE  /\ lmap \in 1..Len(maps) /\ maps[lmap] \in MapType
         /\ Present(lmap) \subseteq Cores /\ IsFiniteSet(Present(lmap))
         /\ Cardinality(Present(lmap)) \in Nat
         /\ Cardinality(Present(lmap)) <= Cardinality(Cores)
<1>1. lmap \in 1..Len(maps)
  BY LenProperties DEF Types
<1>2. maps[lmap] \in MapType
  BY <1>1, ElementOfSeq DEF Types
<1>3. Present(lmap) \subseteq Cores
  BY DEF Present
<1>4. IsFiniteSet(Present(lmap)) /\ Cardinality(Present(lmap)) <= Cardinality(Cores)
  BY <1>3, CoresAssumption, FS_Subset
<1>5. Cardinality(Present(lmap)) \in Nat
  BY <1>4, FS_CardinalityType
<1> QED BY <1>1, <1>2, <1>3, <1>4, <1>5

\* The metric that a goroutine is at.
LEMMA MetricOf ==
  ASSUME Types, NEW w \in Workers, worker[w].next <= Len(metrics)
  PROVE  worker[w].next \in 1..Len(metrics) /\ Metric(w) \in MetricType
<1>1. worker[w].next \in Nat \ {0}
  BY DEF Types, WorkerType
<1>2. worker[w].next \in 1..Len(metrics)
  BY <1>1, LenProperties DEF Types
<1>3. metrics[worker[w].next] \in MetricType
  BY <1>2, ElementOfSeq DEF Types
<1> QED BY <1>2, <1>3 DEF Metric

\* What a goroutine has does not change by what another does to its own.
LEMMA Undisturbed ==
  ASSUME Types, NEW v \in Workers, WorkerInv(v), worker'[v] = worker[v],
         UNCHANGED <<metrics, serial, maps, lmap>>, run' \in Nat, run' >= run
  PROVE  WorkerInv(v)'
<1>1. run \in Nat /\ worker[v].run \in Nat
  BY DEF Types, WorkerType, RunsAssumption
<1>2. Placed(v)'
  BY <1>1 DEF WorkerInv, Placed, Metric
<1>3. Based(v)'
  BY DEF WorkerInv, Based
<1>4. Filled(v)'
  BY DEF WorkerInv, Filled
<1>5. Ranged(v)'
  BY DEF WorkerInv, Ranged, Over, Metric
<1>6. Listed(v)'
  <2>1. \A i \in 1..Len(worker[v].list) : worker[v].list[i][2] \in Nat
    <3>1. worker[v].list \in Seq(Cores \X (0..MaxRuns))
      BY DEF Types, WorkerType, List
    <3>2. \A i \in 1..Len(worker[v].list) : worker[v].list[i] \in Cores \X (0..MaxRuns)
      BY <3>1, ElementOfSeq
    <3> QED BY <3>2
  <2>2. \A i \in 1..Len(worker[v].list) : worker[v].list[i][2] <= run'
    BY <1>1, <2>1 DEF WorkerInv, Listed
  <2> QED BY <2>2, SMTT(30) DEF WorkerInv, Listed, Seen, Metric
<1>7. Sized(v)'
  BY DEF WorkerInv, Sized, Present, Seen
<1> QED BY <1>2, <1>3, <1>4, <1>5, <1>6, <1>7 DEF WorkerInv

\* A step of one goroutine that neither writes a map nor begins or ends a write.
LEMMA OneMoves ==
  ASSUME IInv, NEW w \in Workers, NEW new, worker' = [worker EXCEPT ![w] = new],
         new \in WorkerType, WorkerInv(w)',
         worker[w].pc # "storing" /\ new.pc # "storing",
         serial /\ worker[w].pc = "idle" => \A v \in Workers : worker[v].pc = "idle",
         UNCHANGED <<metrics, serial, maps, lmap>>, Answered',
         run' \in 0..MaxRuns, run' >= run
  PROVE  IInv'
<1>1. Types'
  BY DEF IInv, Types
<1>2. worker'[w] = new /\ \A v \in Workers : v # w => worker'[v] = worker[v]
  BY DEF IInv, Types
<1>3. \A v \in Workers : WorkerInv(v)'
  <2>1. ASSUME NEW v \in Workers, v # w PROVE WorkerInv(v)'
    BY <1>2, <2>1, Undisturbed, RunsAssumption DEF IInv
  <2> QED BY <2>1
<1>4. Alone'
  <2>1. CASE ~serial
    BY <2>1 DEF Alone
  <2>2. CASE serial
    <3>1. \A v, u \in Workers : worker'[v].pc # "idle" /\ worker'[u].pc # "idle" => v = u
      BY <1>2, <2>2 DEF IInv, Alone
    <3>2. \A v \in Workers : worker[v].pc = "storing" => worker'[v] = worker[v]
      BY <1>2
    <3> QED BY <2>2, <3>1, <3>2 DEF IInv, Alone, Written
  <2> QED BY <2>1, <2>2 DEF IInv, Types
<1>5. Past'
  <2>1. run \in Nat
    BY RunsAssumption DEF IInv, Types
  <2>2. \A k \in 1..Len(maps) : \A c \in Cores : maps[k].rows[c] \in Nat
    <3>1. ASSUME NEW k \in 1..Len(maps) PROVE maps[k] \in MapType
      BY <3>1, ElementOfSeq DEF IInv, Types
    <3> QED BY <3>1 DEF MapType
  <2> QED BY <2>1, <2>2 DEF IInv, Past
<1> QED BY <1>1, <1>3, <1>4, <1>5 DEF IInv

\* The same when it sends nothing.
LEMMA OneStep ==
  ASSUME IInv, NEW w \in Workers, NEW new, worker' = [worker EXCEPT ![w] = new],
         new \in WorkerType, WorkerInv(w)',
         worker[w].pc # "storing" /\ new.pc # "storing",
         serial /\ worker[w].pc = "idle" => \A v \in Workers : worker[v].pc = "idle",
         UNCHANGED <<metrics, serial, maps, lmap, sent>>,
         run' \in 0..MaxRuns, run' >= run
  PROVE  IInv'
<1>1. Answered'
  BY DEF IInv, Answered, SentOK, OwnRowsSummed, ComputedAsNamed, OverAll
<1> QED BY <1>1, OneMoves

-----------------------------------------------------------------------------
(* Folds over finite sets, by induction on their size.                      *)

\* The smallest of some numbers.
LEMMA Smallest ==
  ASSUME NEW T \in SUBSET Nat, T # {}
  PROVE  \E n \in T : \A m \in T : ~(m < n)
<1>1. PICK n \in T : \A m \in T : ~(<<m, n>> \in OpToRel(<, Nat))
  BY NatLessThanWellFounded, WFMin
<1>2. \A m \in T : m < n => <<m, n>> \in OpToRel(<, Nat)
  BY DEF OpToRel
<1> QED BY <1>1, <1>2

\* What holds of a set when it does of the set without any one of its elements holds
\* of every finite set.
LEMMA OneLess ==
  ASSUME NEW S, IsFiniteSet(S), NEW P,
         \A s \in SUBSET S : (\A x \in s : s \ {x} \in P) => s \in P
  PROVE  \A s \in SUBSET S : s \in P
<1> DEFINE Bad == {n \in Nat : \E s \in SUBSET S : s \notin P /\ Cardinality(s) = n}
<1>1. ASSUME NEW s \in SUBSET S
      PROVE  /\ Cardinality(s) \in Nat
             /\ \A x \in s : Cardinality(s \ {x}) = Cardinality(s) - 1
  BY FS_Subset, FS_CardinalityType, FS_RemoveElement
<1>2. Bad = {}
  <2> SUFFICES ASSUME Bad # {} PROVE FALSE
    OBVIOUS
  <2>1. PICK n \in Bad : \A m \in Bad : ~(m < n)
    BY Smallest
  <2>2. PICK s \in SUBSET S : s \notin P /\ Cardinality(s) = n
    BY <2>1
  <2>3. ASSUME NEW x \in s PROVE s \ {x} \in P
    <3>1. s \ {x} \in SUBSET S
      OBVIOUS
    <3>2. Cardinality(s \ {x}) < n /\ Cardinality(s \ {x}) \in Nat
      BY <1>1, <2>1, <2>2, <3>1
    <3> QED BY <2>1, <3>1, <3>2
  <2> QED BY <2>2, <2>3
<1> QED BY <1>1, <1>2

\* ch takes an element of every set that has one.
Chooses(ch, S) == \A s \in SUBSET S : s # {} => ch[s] \in s

\* it is the fold of op, from base, over the subsets of S in the order of ch.
IsFold(it, S, V, base, op, ch) ==
  /\ it \in [SUBSET S -> V]
  /\ \A s \in SUBSET S : it[s] = IF s = {} THEN base ELSE op[<<ch[s], it[s \ {ch[s]}]>>]

\* it is the sum of g over the subsets of S, whatever element comes first.
IsSum(it, S, g) ==
  /\ it[{}] = 0
  /\ \A s \in SUBSET S : it[s] \in Nat /\ \A y \in s : it[s] = g[y] + it[s \ {y}]

\* it is the sum of g in the order of ch.
IsSumBy(it, S, g, ch) ==
  /\ it[{}] = 0
  /\ \A s \in SUBSET S : s # {} => \/ it[s] = g[ch[s]] + it[s \ {ch[s]}]
                                   \/ it[s] = it[s \ {ch[s]}] + g[ch[s]]

\* A fold over a finite set is well defined, whatever element is taken first.
LEMMA Recursion ==
  ASSUME NEW S, IsFiniteSet(S), NEW V, NEW base \in V, NEW op \in [S \X V -> V],
         NEW ch, Chooses(ch, S)
  PROVE  \E it : IsFold(it, S, V, base, op, ch)
<1> USE DEF Chooses
<1> DEFINE L(n) == {s \in SUBSET S : Cardinality(s) <= n}
           Step(s, it) == IF s = {} THEN base ELSE op[<<ch[s], it[s \ {ch[s]}]>>]
           Good(n) == \E it \in [L(n) -> V] : \A s \in L(n) : it[s] = Step(s, it)
           Bad == {n \in Nat : ~Good(n)}
<1>1. ASSUME NEW s \in SUBSET S
      PROVE  /\ Cardinality(s) \in Nat /\ Cardinality(s) <= Cardinality(S)
             /\ Cardinality(s) = 0 <=> s = {}
             /\ \A x \in s : Cardinality(s \ {x}) = Cardinality(s) - 1
  BY FS_Subset, FS_CardinalityType, FS_RemoveElement, FS_EmptySet
<1>2. Good(0)
  <2>1. \A s \in L(0) : s = {}
    BY <1>1
  <2>2. [s \in L(0) |-> base] \in [L(0) -> V]
    OBVIOUS
  <2> QED BY <2>1, <2>2
<1>3. ASSUME NEW n \in Nat, Good(n) PROVE Good(n + 1)
  <2>1. PICK it \in [L(n) -> V] : \A s \in L(n) : it[s] = Step(s, it)
    BY <1>3
  <2> DEFINE more == [s \in L(n + 1) |-> Step(s, it)]
  <2>2. ASSUME NEW s \in L(n + 1), s # {} PROVE ch[s] \in S /\ s \ {ch[s]} \in L(n)
    <3>1. ch[s] \in s
      BY <2>2
    <3>2. Cardinality(s) \in Nat /\ Cardinality(s \ {ch[s]}) = Cardinality(s) - 1
      BY <1>1, <3>1
    <3> QED BY <3>1, <3>2
  <2>3. more \in [L(n + 1) -> V]
    BY <2>1, <2>2
  <2>4. \A s \in L(n) : s \in L(n + 1) /\ more[s] = it[s]
    BY <1>1, <2>1
  <2>5. \A s \in L(n + 1) : more[s] = Step(s, more)
    BY <2>2, <2>4
  <2> QED BY <2>3, <2>5
<1>4. Bad = {}
  <2> SUFFICES ASSUME Bad # {} PROVE FALSE
    OBVIOUS
  <2>1. PICK n \in Bad : \A m \in Bad : ~(m < n)
    BY Smallest
  <2> HIDE DEF Good
  <2>2. n # 0
    BY <1>2, <2>1
  <2>3. n - 1 \in Nat /\ Good(n - 1)
    BY <2>1, <2>2
  <2>4. Good(n - 1 + 1) /\ n - 1 + 1 = n
    BY <1>3, <2>3
  <2> QED BY <2>1, <2>4
<1>5. Cardinality(S) \in Nat /\ Good(Cardinality(S)) /\ L(Cardinality(S)) = SUBSET S
  <2>1. Cardinality(S) \in Nat /\ L(Cardinality(S)) = SUBSET S
    BY <1>1
  <2> HIDE DEF Good
  <2> QED BY <1>4, <2>1
<1>6. PICK it \in [SUBSET S -> V] : \A s \in SUBSET S : it[s] = Step(s, it)
  BY <1>5
<1> QED BY <1>6 DEF IsFold

\* A sum is the same whatever element is taken first.
LEMMA AnyFirst ==
  ASSUME NEW S, IsFiniteSet(S), NEW g \in [S -> Nat],
         NEW ch, Chooses(ch, S), NEW it, IsSumBy(it, S, g, ch)
  PROVE  IsSum(it, S, g)
<1> USE DEF Chooses, IsSumBy
<1> DEFINE Good(s) == it[s] \in Nat /\ \A y \in s : it[s] = g[y] + it[s \ {y}]
           P == {s \in SUBSET S : Good(s)}
<1>2. \A s \in SUBSET S : it[s] \in Nat
  <2> DEFINE N == {s \in SUBSET S : it[s] \in Nat}
  <2>1. ASSUME NEW s \in SUBSET S, \A x \in s : s \ {x} \in N PROVE s \in N
    <3>1. CASE s = {}
      BY <3>1
    <3>2. CASE s # {}
      <4>1. ch[s] \in s
        BY <3>2
      <4>2. it[s \ {ch[s]}] \in Nat /\ g[ch[s]] \in Nat
        BY <2>1, <4>1
      <4> QED BY <3>2, <4>2
    <3> QED BY <3>1, <3>2
  <2> HIDE DEF N
  <2>2. \A s \in SUBSET S : s \in N
    BY <2>1, OneLess
  <2> QED BY <2>2 DEF N
<1>3. ASSUME NEW s \in SUBSET S, \A x \in s : s \ {x} \in P PROVE s \in P
  <2>1. CASE s = {}
    BY <2>1
  <2>2. CASE s # {}
    <3>1. PICK x : x = ch[s]
      OBVIOUS
    <3>2. x \in s /\ it[s] = g[x] + it[s \ {x}]
      <4>1. x \in s
        BY <2>2, <3>1
      <4>2. s \ {x} \in SUBSET S /\ g[x] \in Nat
        BY <4>1
      <4>3. it[s \ {x}] \in Nat
        BY <1>2, <4>2
      <4>4. it[s] = g[x] + it[s \ {x}] \/ it[s] = it[s \ {x}] + g[x]
        BY <2>2, <3>1
      <4>5. \A i, j \in Nat : i + j = j + i
        OBVIOUS
      <4> HIDE DEF Good, P
      <4> QED BY <4>1, <4>2, <4>3, <4>4, <4>5
    <3>3. ASSUME NEW y \in s, y # x PROVE it[s] = g[y] + it[s \ {y}]
      <4> DEFINE t == (s \ {x}) \ {y}
      <4>1. y \in s \ {x} /\ x \in s \ {y} /\ t = (s \ {y}) \ {x}
        BY <3>2, <3>3
      <4> HIDE DEF t
      <4>2. it[s \ {x}] = g[y] + it[t]
        <5>1. Good(s \ {x})
          BY <1>3, <3>2
        <5> QED BY <4>1, <5>1 DEF t
      <4>3. it[s \ {y}] = g[x] + it[t]
        <5>1. Good(s \ {y})
          BY <1>3
        <5> QED BY <4>1, <5>1
      <4>4. g[x] \in Nat /\ g[y] \in Nat /\ it[t] \in Nat
        BY <1>2, <3>2 DEF t
      <4>5. it[s] = g[x] + (g[y] + it[t]) /\ it[s \ {y}] = g[x] + it[t]
        BY <3>2, <4>2, <4>3
      <4> HIDE DEF Good, P
      <4>6. \A i, j, k \in Nat : i + (j + k) = j + (i + k)
        OBVIOUS
      <4> QED BY <4>4, <4>5, <4>6
    <3>4. \A y \in s : it[s] = g[y] + it[s \ {y}]
      BY <3>2, <3>3
    <3> QED BY <1>2, <3>4
  <2> QED BY <1>2, <2>1, <2>2
<1> HIDE DEF P
<1>4. \A s \in SUBSET S : s \in P
  BY <1>3, OneLess
<1> QED BY <1>4 DEF P, IsSum

\* Two such sums are the same if one's terms are the other's, one for one.
LEMMA OneForOne ==
  ASSUME NEW S, IsFiniteSet(S), NEW g \in [S -> Nat], NEW it, NEW T, NEW h, NEW jt,
         NEW f \in [S -> T], \A x, y \in S : f[x] = f[y] => x = y,
         \A x \in S : g[x] = h[f[x]],
         IsSum(it, S, g), IsSum(jt, T, h)
  PROVE  it[S] = jt[{f[x] : x \in S}]
<1> USE DEF IsSum
<1> DEFINE image(s) == {f[x] : x \in s}
           P == {s \in SUBSET S : it[s] = jt[image(s)]}
<1>1. ASSUME NEW s \in SUBSET S, \A x \in s : s \ {x} \in P PROVE s \in P
  <2>1. CASE s = {}
    <3>1. image(s) = {}
      BY <2>1
    <3> QED BY <2>1, <3>1
  <2>2. CASE s # {}
    <3>1. PICK x \in s : TRUE
      BY <2>2
    <3>2. image(s \ {x}) = image(s) \ {f[x]} /\ f[x] \in image(s)
      OBVIOUS
    <3>3. image(s) \in SUBSET T
      OBVIOUS
    <3>4. it[s \ {x}] = jt[image(s \ {x})]
      BY <1>1, <3>1
    <3> HIDE DEF image
    <3>5. jt[image(s)] = h[f[x]] + jt[image(s) \ {f[x]}]
      BY <3>2, <3>3
    <3>6. it[s] = g[x] + it[s \ {x}] /\ g[x] = h[f[x]]
      BY <3>1
    <3> QED BY <3>2, <3>4, <3>5, <3>6
  <2> QED BY <2>1, <2>2
<1> HIDE DEF P
<1>2. S \in P
  BY <1>1, OneLess
<1> QED BY <1>2 DEF P

\* Max finds the greatest of some places.
LEMMA LastPlace ==
  ASSUME NEW n \in Nat, NEW s \in SUBSET (1..n), s # {}
  PROVE  Max(s) \in s
<1> DEFINE B == {k \in Nat : \E x \in s : k = n - x}
<1>1. B \in SUBSET Nat /\ B # {}
  <2>1. PICK x \in s : TRUE
    OBVIOUS
  <2>2. n - x \in B
    OBVIOUS
  <2> QED BY <2>2
<1>2. PICK k \in B : \A m \in B : ~(m < k)
  BY <1>1, Smallest
<1>3. PICK x \in s : k = n - x
  BY <1>2
<1>4. \A y \in s : n - y \in B
  OBVIOUS
<1>5. \A y \in s : x >= y
  BY <1>2, <1>3, <1>4
<1> QED BY <1>5 DEF Max

\* A fold over places that takes the last one first, as FoldLeft does.
LEMMA LastFirst ==
  ASSUME NEW n \in Nat, NEW op \in [(1..n) \X Nat -> Nat]
  PROVE  \E it \in [SUBSET (1..n) -> Nat] :
           /\ it[{}] = 0
           /\ \A s \in SUBSET (1..n) : s # {} => it[s] = op[<<Max(s), it[s \ {Max(s)}]>>]
<1>1. IsFiniteSet(1..n) /\ 0 \in Nat
  BY FS_Interval
<1>2. PICK ch : ch = [s \in SUBSET (1..n) |-> Max(s)]
  OBVIOUS
<1>3. \A s \in SUBSET (1..n) : ch[s] = Max(s)
  BY <1>2
<1>4. Chooses(ch, 1..n)
  BY <1>3, LastPlace DEF Chooses
<1>5. PICK it : IsFold(it, 1..n, Nat, 0, op, ch)
  BY <1>1, <1>4, Recursion
<1>6. it \in [SUBSET (1..n) -> Nat] /\ it[{}] = 0
  BY <1>5 DEF IsFold
<1>7. ASSUME NEW s \in SUBSET (1..n), s # {} PROVE it[s] = op[<<Max(s), it[s \ {Max(s)}]>>]
  BY <1>3, <1>5, <1>7 DEF IsFold
<1> QED BY <1>6, <1>7

\* What sum computes.
LEMMA SumFolds ==
  ASSUME NEW n \in Nat, NEW args \in [1..n -> Nat]
  PROVE  \E it : sum(args) = it[1..n] /\ IsSum(it, 1..n, args)
<1> DEFINE D == 1..n
           Further(s, it) == it[s \ {Max(s)}] + args[Max(s)]
           Body(it) == [s \in SUBSET D |-> IF s = {} THEN 0 ELSE Further(s, it)]
<1>1. PICK op : op = [p \in D \X Nat |-> p[2] + args[p[1]]]
  OBVIOUS
<1>2. /\ op \in [D \X Nat -> Nat]
      /\ \A x \in D, y \in Nat : op[<<x, y>>] = y + args[x]
  BY <1>1
<1>3. PICK jt \in [SUBSET D -> Nat] :
        /\ jt[{}] = 0
        /\ \A s \in SUBSET D : s # {} => jt[s] = op[<<Max(s), jt[s \ {Max(s)}]>>]
  BY <1>2, LastFirst
<1>4. \E kt : kt = Body(kt)
  <2>1. ASSUME NEW s \in SUBSET D, s # {} PROVE jt[s] = Further(s, jt)
    <3>1. Max(s) \in D /\ jt[s \ {Max(s)}] \in Nat
      BY <2>1, LastPlace
    <3> HIDE DEF D
    <3> QED BY <1>2, <1>3, <2>1, <3>1
  <2>2. \A s \in SUBSET D : jt[s] = IF s = {} THEN 0 ELSE Further(s, jt)
    BY <1>3, <2>1
  <2> HIDE DEF D, Further
  <2>3. jt = Body(jt)
    BY <2>2
  <2> HIDE DEF Body
  <2> QED BY <2>3
<1>5. PICK it : it = CHOOSE kt : kt = Body(kt)
  OBVIOUS
<1>6. it = Body(it)
  <2> HIDE DEF Body
  <2> QED BY <1>4, <1>5
<1>7. sum(args) = it[D]
  <2>1. DOMAIN args = D
    OBVIOUS
  <2>2. sum(args) = LET kt == CHOOSE kt : kt = [s \in SUBSET (DOMAIN args) |->
                          IF s = {} THEN 0 ELSE kt[s \ {Max(s)}] + args[Max(s)]]
                    IN  kt[DOMAIN args]
    BY SMTT(5) DEF sum, FoldLeft, MapThenFoldSet
  <2> QED BY <1>5, <2>1, <2>2
<1>8. it[{}] = 0 /\ \A s \in SUBSET D : s # {} => it[s] = Further(s, it)
  <2> HIDE DEF D, Further
  <2> QED BY <1>6
<1>9. IsSum(it, D, args)
  <2>1. PICK ch : ch = [s \in SUBSET D |-> Max(s)]
    OBVIOUS
  <2>2. \A s \in SUBSET D : ch[s] = Max(s)
    BY <2>1
  <2>3. IsSumBy(it, D, args, ch)
    BY <1>8, <2>2 DEF IsSumBy
  <2>4. Chooses(ch, D)
    BY <2>2, LastPlace DEF Chooses
  <2>5. args \in [D -> Nat]
    OBVIOUS
  <2>6. IsFiniteSet(D)
    BY FS_Interval
  <2> HIDE DEF D
  <2> QED BY <2>3, <2>4, <2>5, <2>6, AnyFirst
<1> QED BY <1>7, <1>9

\* What max computes.
LEMMA MaxFolds ==
  ASSUME NEW n \in Nat, NEW args \in [1..n -> Nat]
  PROVE  max(args) = Max({args[i] : i \in 1..n} \cup {0})
<1> DEFINE D == 1..n
           Further(s, it) == IF args[Max(s)] > it[s \ {Max(s)}]
                             THEN args[Max(s)] ELSE it[s \ {Max(s)}]
           Body(it) == [s \in SUBSET D |-> IF s = {} THEN 0 ELSE Further(s, it)]
<1>1. PICK op : op = [p \in D \X Nat |-> IF args[p[1]] > p[2] THEN args[p[1]] ELSE p[2]]
  OBVIOUS
<1>2. /\ op \in [D \X Nat -> Nat]
      /\ \A x \in D, y \in Nat : op[<<x, y>>] = IF args[x] > y THEN args[x] ELSE y
  BY <1>1
<1>3. PICK jt \in [SUBSET D -> Nat] :
        /\ jt[{}] = 0
        /\ \A s \in SUBSET D : s # {} => jt[s] = op[<<Max(s), jt[s \ {Max(s)}]>>]
  BY <1>2, LastFirst
<1>4. \E kt : kt = Body(kt)
  <2>1. ASSUME NEW s \in SUBSET D, s # {} PROVE jt[s] = Further(s, jt)
    <3>1. Max(s) \in D /\ jt[s \ {Max(s)}] \in Nat
      BY <2>1, LastPlace
    <3> HIDE DEF D
    <3> QED BY <1>2, <1>3, <2>1, <3>1
  <2>2. \A s \in SUBSET D : jt[s] = IF s = {} THEN 0 ELSE Further(s, jt)
    BY <1>3, <2>1
  <2> HIDE DEF D, Further
  <2>3. jt = Body(jt)
    BY <2>2
  <2> HIDE DEF Body
  <2> QED BY <2>3
<1>5. PICK it : it = CHOOSE kt : kt = Body(kt)
  OBVIOUS
<1>6. it = Body(it)
  <2> HIDE DEF Body
  <2> QED BY <1>4, <1>5
<1>7. max(args) = it[D]
  <2>1. DOMAIN args = D
    OBVIOUS
  <2>2. max(args) = LET kt == CHOOSE kt : kt = [s \in SUBSET (DOMAIN args) |->
                          IF s = {} THEN 0
                          ELSE LET y == kt[s \ {Max(s)}]  x == args[Max(s)]
                               IN  IF x > y THEN x ELSE y]
                    IN  kt[DOMAIN args]
    BY Zenon DEF max, FoldLeft, MapThenFoldSet
  <2> QED BY <1>5, <2>1, <2>2
<1>8. it[{}] = 0 /\ \A s \in SUBSET D : s # {} => it[s] = Further(s, it)
  <2> HIDE DEF D, Further
  <2> QED BY <1>6
<1> DEFINE P == {s \in SUBSET D : /\ it[s] \in {args[i] : i \in s} \cup {0}
                                  /\ \A i \in s : it[s] >= args[i]}
<1>9. ASSUME NEW s \in SUBSET D, \A x \in s : s \ {x} \in P PROVE s \in P
  <2>1. CASE s = {}
    BY <1>8, <2>1
  <2>2. CASE s # {}
    <3>1. PICK x : x = Max(s)
      OBVIOUS
    <3>2. x \in s
      BY <2>2, <3>1, LastPlace
    <3>3. s \ {x} \in P /\ args[x] \in Nat
      BY <1>9, <3>2
    <3>4. it[s] = IF args[x] > it[s \ {x}] THEN args[x] ELSE it[s \ {x}]
      BY <1>8, <2>2, <3>1
    <3> DEFINE y == it[s \ {x}]
    <3>5. y \in {args[i] : i \in s \ {x}} \cup {0} /\ \A i \in s \ {x} : y >= args[i]
      BY <3>3
    <3>6. y \in Nat /\ \A i \in s : args[i] \in Nat
      <4>1. \A i \in s : args[i] \in Nat
        OBVIOUS
      <4> HIDE DEF y, D
      <4> QED BY <3>5, <4>1
    <3>7. it[s] = IF args[x] > y THEN args[x] ELSE y
      BY <3>4
    <3> HIDE DEF y
    <3>8. it[s] \in {args[i] : i \in s} \cup {0}
      BY <3>2, <3>5, <3>7
    <3>9. \A i \in s : it[s] >= args[i]
      <4>1. it[s] >= args[x] /\ it[s] >= y /\ it[s] \in Nat
        BY <3>3, <3>6, <3>7
      <4>2. ASSUME NEW i \in s, i # x PROVE it[s] >= args[i]
        <5>1. y >= args[i] /\ args[i] \in Nat
          BY <3>5, <3>6, <4>2
        <5> QED BY <3>6, <4>1, <5>1
      <4> QED BY <4>1, <4>2
    <3> QED BY <3>8, <3>9
  <2> QED BY <2>1, <2>2
<1> HIDE DEF P
<1>10. D \in P
  <2>1. D \in SUBSET D /\ IsFiniteSet(D)
    BY FS_Interval
  <2> HIDE DEF D
  <2> QED BY <1>9, <2>1, OneLess
<1> DEFINE values == {args[i] : i \in 1..n} \cup {0}
<1>11. it[D] \in values /\ values \subseteq Nat
  BY <1>10 DEF P
<1>12. \A y \in values : it[D] >= y
  BY <1>10, <1>11 DEF P
<1> HIDE DEF values
<1>13. Max(values) \in values /\ \A y \in values : Max(values) >= y
  BY <1>11, <1>12 DEF Max
<1>14. \A i, j \in Nat : i >= j /\ j >= i => i = j
  OBVIOUS
<1>15. it[D] = Max(values)
  BY <1>11, <1>12, <1>13, <1>14
<1> QED BY <1>7, <1>15 DEF values

\* What min computes of numbers that are not negative: 0, from which it starts.
LEMMA MinFolds ==
  ASSUME NEW n \in Nat, NEW args \in [1..n -> Nat]
  PROVE  min(args) = 0
<1> DEFINE D == 1..n
           Further(s, it) == IF args[Max(s)] < it[s \ {Max(s)}]
                             THEN args[Max(s)] ELSE it[s \ {Max(s)}]
           Body(it) == [s \in SUBSET D |-> IF s = {} THEN 0 ELSE Further(s, it)]
<1>1. PICK op : op = [p \in D \X Nat |-> IF args[p[1]] < p[2] THEN args[p[1]] ELSE p[2]]
  OBVIOUS
<1>2. /\ op \in [D \X Nat -> Nat]
      /\ \A x \in D, y \in Nat : op[<<x, y>>] = IF args[x] < y THEN args[x] ELSE y
  BY <1>1
<1>3. PICK jt \in [SUBSET D -> Nat] :
        /\ jt[{}] = 0
        /\ \A s \in SUBSET D : s # {} => jt[s] = op[<<Max(s), jt[s \ {Max(s)}]>>]
  BY <1>2, LastFirst
<1>4. \E kt : kt = Body(kt)
  <2>1. ASSUME NEW s \in SUBSET D, s # {} PROVE jt[s] = Further(s, jt)
    <3>1. Max(s) \in D /\ jt[s \ {Max(s)}] \in Nat
      BY <2>1, LastPlace
    <3> HIDE DEF D
    <3> QED BY <1>2, <1>3, <2>1, <3>1
  <2>2. \A s \in SUBSET D : jt[s] = IF s = {} THEN 0 ELSE Further(s, jt)
    BY <1>3, <2>1
  <2> HIDE DEF D, Further
  <2>3. jt = Body(jt)
    BY <2>2
  <2> HIDE DEF Body
  <2> QED BY <2>3
<1>5. PICK it : it = CHOOSE kt : kt = Body(kt)
  OBVIOUS
<1>6. it = Body(it)
  <2> HIDE DEF Body
  <2> QED BY <1>4, <1>5
<1>7. min(args) = it[D]
  <2>1. DOMAIN args = D
    OBVIOUS
  <2>2. min(args) = LET kt == CHOOSE kt : kt = [s \in SUBSET (DOMAIN args) |->
                          IF s = {} THEN 0
                          ELSE LET y == kt[s \ {Max(s)}]  x == args[Max(s)]
                               IN  IF x < y THEN x ELSE y]
                    IN  kt[DOMAIN args]
    BY Zenon DEF min, FoldLeft, MapThenFoldSet
  <2> QED BY <1>5, <2>1, <2>2
<1>8. it[{}] = 0 /\ \A s \in SUBSET D : s # {} => it[s] = Further(s, it)
  <2> HIDE DEF D, Further
  <2> QED BY <1>6
<1> DEFINE P == {s \in SUBSET D : it[s] = 0}
<1>9. ASSUME NEW s \in SUBSET D, \A x \in s : s \ {x} \in P PROVE s \in P
  <2>1. CASE s = {}
    BY <1>8, <2>1
  <2>2. CASE s # {}
    <3>1. PICK x : x = Max(s)
      OBVIOUS
    <3>2. x \in s
      BY <2>2, <3>1, LastPlace
    <3>3. s \ {x} \in P /\ args[x] \in Nat
      BY <1>9, <3>2
    <3>4. it[s] = IF args[x] < it[s \ {x}] THEN args[x] ELSE it[s \ {x}]
      BY <1>8, <2>2, <3>1
    <3>5. it[s \ {x}] = 0
      BY <3>3
    <3> QED BY <3>3, <3>4, <3>5
  <2> QED BY <2>1, <2>2
<1> HIDE DEF P
<1>10. D \in P
  <2>1. D \in SUBSET D /\ IsFiniteSet(D)
    BY FS_Interval
  <2> HIDE DEF D
  <2> QED BY <1>9, <2>1, OneLess
<1> QED BY <1>7, <1>10 DEF P

\* A function of a list with one place for each core is what its name says.
LEMMA NamedApply ==
  ASSUME NEW list \in List,
         \A i, j \in 1..Len(list) : list[i][1] = list[j][1] => i = j,
         NEW function \in FunctionNames
  PROVE  Apply(function, [i \in 1..Len(list) |-> Reading[list[i][1]][list[i][2]]])
           = AsNamed(function, list)
<1> DEFINE n == Len(list)
           D == 1..n
           args == [i \in D |-> Reading[list[i][1]][list[i][2]]]
           cores == {list[i][1] : i \in D}
           Of(c) == Reading[c][list[CHOOSE i \in D : list[i][1] = c][2]]
           Total == MapThenSumSet(Of, cores)
<1>1. n \in Nat /\ IsFiniteSet(cores) /\ Cardinality(cores) = n
  BY OneEach
<1>2. \A i \in D : list[i] \in Cores \X (0..MaxRuns)
  BY ElementOfSeq DEF List
<1>3. args \in [D -> Nat]
  BY <1>2, ReadingAssumption
<1>4. \A i \in D : Of(list[i][1]) = args[i] /\ args[i] \in Nat
  <2>1. ASSUME NEW i \in D PROVE (CHOOSE j \in D : list[j][1] = list[i][1]) = i
    OBVIOUS
  <2> QED BY <1>3, <2>1
<1>5. \A c \in cores : Of(c) \in Nat
  <2> HIDE DEF Of, args
  <2> QED BY <1>4
<1>6. PICK it : sum(args) = it[D] /\ IsSum(it, D, args)
  BY <1>1, <1>3, SumFolds
<1>7. PICK h : h = [c \in cores |-> Of(c)]
  OBVIOUS
<1>8. h \in [cores -> Nat] /\ \A c \in cores : h[c] = Of(c)
  BY <1>5, <1>7
<1>9. PICK f : f = [i \in D |-> list[i][1]]
  OBVIOUS
<1>10. \A i \in D : f[i] = list[i][1] /\ f[i] \in cores
  BY <1>9
<1>19. f \in [D -> cores] /\ cores = {f[i] : i \in D}
  BY <1>9
<1> HIDE DEF Of, cores, args
<1>20. (\A i, j \in D : f[i] = f[j] => i = j) /\ \A i \in D : args[i] = h[f[i]]
  BY <1>4, <1>8, <1>10
<1>11. PICK jt : Total = jt[cores] /\ IsSum(jt, cores, h)
  <2> DEFINE first(s) == CHOOSE c \in s : TRUE
             Body(kt) == [s \in SUBSET cores |->
                            IF s = {} THEN 0 ELSE Of(first(s)) + kt[s \ {first(s)}]]
  <2>1. PICK ch : ch = [s \in SUBSET cores |-> first(s)]
    OBVIOUS
  <2>2. \A s \in SUBSET cores : ch[s] = first(s) /\ (s # {} => first(s) \in s)
    BY <2>1
  <2>3. Chooses(ch, cores)
    BY <2>2 DEF Chooses
  <2>4. PICK op : op = [p \in cores \X Nat |-> h[p[1]] + p[2]]
    OBVIOUS
  <2>5. /\ op \in [cores \X Nat -> Nat] /\ 0 \in Nat
        /\ \A c \in cores, y \in Nat : op[<<c, y>>] = Of(c) + y
    BY <1>8, <2>4
  <2>6. PICK kt : IsFold(kt, cores, Nat, 0, op, ch)
    BY <1>1, <2>3, <2>5, Recursion
  <2>7. \E lt : lt = Body(lt)
    <3>1. kt \in [SUBSET cores -> Nat] /\ kt[{}] = 0
      BY <2>6 DEF IsFold
    <3>2. ASSUME NEW s \in SUBSET cores, s # {}
          PROVE  kt[s] = Of(first(s)) + kt[s \ {first(s)}]
      <4>1. first(s) \in cores /\ kt[s \ {first(s)}] \in Nat /\ ch[s] = first(s)
        BY <2>2, <3>1, <3>2
      <4>2. kt[s] = op[<<ch[s], kt[s \ {ch[s]}]>>]
        BY <2>6, <3>2 DEF IsFold
      <4> HIDE DEF first
      <4> QED BY <2>5, <4>1, <4>2
    <3>3. \A s \in SUBSET cores :
            kt[s] = IF s = {} THEN 0 ELSE Of(first(s)) + kt[s \ {first(s)}]
      BY <3>1, <3>2
    <3> HIDE DEF first
    <3>4. kt = Body(kt)
      BY <3>1, <3>3
    <3> HIDE DEF Body
    <3> QED BY <3>4
  <2>8. PICK lt : lt = CHOOSE mt : mt = Body(mt)
    OBVIOUS
  <2>9. lt = Body(lt)
    <3> HIDE DEF Body
    <3> QED BY <2>7, <2>8
  <2>10. Total = lt[cores]
    BY <2>8, Zenon DEF MapThenSumSet, MapThenFoldSet
  <2>11. /\ lt[{}] = 0
         /\ \A s \in SUBSET cores : s # {} => lt[s] = Of(first(s)) + lt[s \ {first(s)}]
    <3> HIDE DEF first
    <3> QED BY <2>9
  <2>12. IsSumBy(lt, cores, h, ch)
    <3> HIDE DEF first
    <3> QED BY <1>8, <2>2, <2>11 DEF IsSumBy
  <2>13. IsSum(lt, cores, h)
    BY <1>1, <1>8, <2>3, <2>12, AnyFirst
  <2> QED BY <2>10, <2>13
<1>12. sum(args) = Total
  <2>1. IsFiniteSet(D)
    BY <1>1, FS_Interval
  <2> HIDE DEF D, Total
  <2>2. it[D] = jt[{f[i] : i \in D}]
    <3>1. f \in [D -> cores] /\ IsSum(it, D, args) /\ IsSum(jt, cores, h)
      BY <1>6, <1>11, <1>19
    <3> QED BY <1>3, <1>20, <2>1, <3>1, OneForOne
  <2> QED BY <1>6, <1>11, <1>19, <2>2
<1>13. max(args) = Max({Of(c) : c \in cores} \cup {0})
  <2>1. {args[i] : i \in 1..n} = {Of(c) : c \in cores}
    BY <1>4 DEF cores
  <2> QED BY <1>1, <1>3, <2>1, MaxFolds
<1>14. min(args) = 0
  BY <1>1, <1>3, MinFolds
<1>15. count(args) = n /\ (args = <<>> <=> n = 0)
  <2>1. args \in Seq(Nat) /\ Len(args) = n
    BY <1>1, <1>3 DEF args
  <2> QED BY <2>1, EmptySeq DEF count
<1>16. average(args) = <<Total, n>>
  <2>1. CASE n # 0
    BY <1>12, <1>15, <2>1 DEF average
  <2>2. CASE n = 0
    <3>1. sum(args) = 0
      BY <1>6, <2>2 DEF IsSum
    <3> QED BY <1>12, <1>15, <2>2, <3>1 DEF average, NoNumber
  <2> QED BY <2>1, <2>2
<1> HIDE DEF Total
<1>17. AsNamed(function, list) = CASE function = "sum"     -> <<Total, 1>>
                                   [] function = "count"   -> <<Cardinality(cores), 1>>
                                   [] function = "average" -> <<Total, Cardinality(cores)>>
                                   [] function = "max"     ->
                                        <<Max({Of(c) : c \in cores} \cup {0}), 1>>
                                   [] function = "min"     -> <<0, 1>>
  BY Zenon DEF AsNamed, Total, Of, cores
<1>18. Apply(function, args) = AsNamed(function, list)
  <2> DEFINE top == Max({Of(c) : c \in cores} \cup {0})
  <2> HIDE DEF top
  <2>1. AsNamed(function, list) = CASE function = "sum"     -> <<Total, 1>>
                                   [] function = "count"   -> <<n, 1>>
                                   [] function = "average" -> <<Total, n>>
                                   [] function = "max"     -> <<top, 1>>
                                   [] function = "min"     -> <<0, 1>>
    BY <1>1, <1>17 DEF top
  <2>2. max(args) = top
    BY <1>13 DEF top
  <2> QED BY <1>12, <1>14, <1>15, <1>16, <2>1, <2>2 DEF Apply, FunctionNames
<1> QED BY <1>18 DEF args

-----------------------------------------------------------------------------
(* The steps of collect.                                                   *)

LEMMA QueryStep ==
  ASSUME IInv, NEW w \in Workers, Query(w)
  PROVE  IInv'
<1>1. PICK rows \in SUBSET Cores :
        worker' = [worker EXCEPT ![w] = [Blank EXCEPT !.pc = "check", !.run = run + 1,
                                                      !.rows = rows, !.todo = rows]]
  BY DEF Query, Become
<1>2. PICK new : new = [Blank EXCEPT !.pc = "check", !.run = run + 1,
                                     !.rows = rows, !.todo = rows]
  OBVIOUS
<1>3. /\ run < MaxRuns /\ run' = run + 1 /\ worker[w].pc = "idle"
      /\ serial => \A v \in Workers : worker[v].pc = "idle"
      /\ UNCHANGED <<metrics, serial, maps, lmap, sent>>
  BY DEF Query, MayStart, At
<1>4. /\ run \in 0..MaxRuns /\ MaxRuns \in Nat
      /\ run' \in 0..MaxRuns /\ run' > 0 /\ run' >= run
  BY <1>3, RunsAssumption DEF IInv, Types
<1>5. <<>> \in List /\ Len(<<>>) = 0
  BY EmptySeq DEF List
<1>6. /\ new.pc = "check" /\ new.run = run' /\ new.rows = rows /\ new.todo = rows
      /\ new.base = 0 /\ new.iter = 0 /\ new.next = 1 /\ new.size = 0 /\ new.list = <<>>
  BY <1>2, <1>3 DEF Blank
<1>10. new \in WorkerType
  <2>1. Blank \in WorkerType
    BY <1>4, <1>5 DEF Blank, WorkerType, PCs
  <2>2. "check" \in PCs /\ run + 1 \in 0..MaxRuns
    BY <1>3, <1>4 DEF PCs
  <2> QED BY <1>2, <2>1, <2>2 DEF WorkerType
<1>7. worker'[w] = new
  BY <1>1, <1>2 DEF IInv, Types
<1>8. /\ Len(metrics) \in Nat /\ Len(maps) \in Nat /\ lmap \in Nat
      /\ Cardinality(Cores) \in Nat
  BY LenProperties, CoresAssumption, FS_CardinalityType DEF IInv, Types
<1>9. WorkerInv(w)'
  <2>1. Placed(w)'
    BY <1>3, <1>4, <1>6, <1>7, <1>8 DEF Placed, Filling, Storing, Reckoning
  <2>2. Based(w)'
    BY <1>3, <1>6, <1>7, <1>8 DEF Based, Filling, Storing, Reckoning
  <2>3. Filled(w)' /\ Ranged(w)'
    BY <1>6, <1>7 DEF Filled, Filling, Storing, Reckoning, Ranged, Over
  <2>4. Listed(w)' /\ Sized(w)'
    BY <1>5, <1>6, <1>7, <1>8 DEF Listed, Sized
  <2> QED BY <2>1, <2>2, <2>3, <2>4 DEF WorkerInv
<1>11. worker[w].pc # "storing" /\ new.pc # "storing"
  BY <1>3, <1>6
<1> QED BY <1>1, <1>2, <1>3, <1>4, <1>9, <1>10, <1>11, OneStep

LEMMA CheckStep ==
  ASSUME IInv, NEW w \in Workers, CheckMap(w)
  PROVE  IInv'
<1>1. PICK new : new = [worker[w] EXCEPT !.pc = IF lmap = 0 THEN "make" ELSE "store",
                                         !.base = lmap]
  OBVIOUS
<1>2. /\ worker[w].pc = "check" /\ worker' = [worker EXCEPT ![w] = new]
      /\ UNCHANGED <<metrics, serial, run, maps, lmap, sent>>
  BY <1>1 DEF CheckMap, At, Become
<1>3. worker[w] \in WorkerType /\ run \in 0..MaxRuns /\ MaxRuns \in Nat /\ lmap \in Nat
  BY RunsAssumption, LenProperties DEF IInv, Types
<1>4. /\ new.pc = IF lmap = 0 THEN "make" ELSE "store"
      /\ new.run = worker[w].run /\ new.rows = worker[w].rows /\ new.todo = worker[w].todo
      /\ new.base = lmap /\ new.iter = worker[w].iter /\ new.next = worker[w].next
      /\ new.size = worker[w].size /\ new.list = worker[w].list
      /\ new \in WorkerType
  BY <1>1, <1>3 DEF WorkerType, PCs
<1>5. worker'[w] = new
  BY <1>2 DEF IInv, Types
<1>6. WorkerInv(w)
  BY DEF IInv
<1>7. WorkerInv(w)'
  <2>1. Placed(w)'
    BY <1>2, <1>4, <1>5, <1>6 DEF WorkerInv, Placed, Filling, Storing, Reckoning
  <2>2. Based(w)'
    BY <1>2, <1>3, <1>4, <1>5, <1>6 DEF WorkerInv, Based, Filling, Storing, Reckoning
  <2>3. Filled(w)'
    BY <1>2, <1>4, <1>5, <1>6 DEF WorkerInv, Placed, Filled
  <2>4. Ranged(w)'
    BY <1>4, <1>5 DEF Ranged, Over
  <2>5. Listed(w)' /\ Sized(w)'
    BY <1>2, <1>4, <1>5, <1>6 DEF WorkerInv, Listed, Sized
  <2> QED BY <2>1, <2>2, <2>3, <2>4, <2>5 DEF WorkerInv
<1>8. run' \in 0..MaxRuns /\ run' >= run
  BY <1>2, <1>3
<1>9. worker[w].pc # "storing" /\ new.pc # "storing" /\ worker[w].pc # "idle"
  BY <1>2, <1>4
<1> QED BY <1>2, <1>4, <1>7, <1>8, <1>9, OneStep

LEMMA CollectedStep ==
  ASSUME IInv, NEW w \in Workers, Collected(w)
  PROVE  IInv'
<1>1. PICK new : new = [worker[w] EXCEPT !.pc = "metric"]
  OBVIOUS
<1>2. /\ worker[w].pc = "store" /\ worker[w].todo = {}
      /\ worker' = [worker EXCEPT ![w] = new]
      /\ UNCHANGED <<metrics, serial, run, maps, lmap, sent>>
  BY <1>1 DEF Collected, At, Become
<1>3. worker[w] \in WorkerType /\ run \in 0..MaxRuns /\ MaxRuns \in Nat
  BY RunsAssumption DEF IInv, Types
<1>4. /\ new.pc = "metric"
      /\ new.run = worker[w].run /\ new.rows = worker[w].rows /\ new.todo = worker[w].todo
      /\ new.base = worker[w].base /\ new.iter = worker[w].iter
      /\ new.next = worker[w].next /\ new.size = worker[w].size
      /\ new.list = worker[w].list /\ new \in WorkerType
  BY <1>1, <1>3 DEF WorkerType, PCs
<1>5. worker'[w] = new
  BY <1>2 DEF IInv, Types
<1>6. WorkerInv(w)
  BY DEF IInv
<1>7. WorkerInv(w)'
  <2>1. Placed(w)'
    BY <1>2, <1>4, <1>5, <1>6 DEF WorkerInv, Placed, Filling, Storing, Reckoning
  <2>2. Based(w)'
    BY <1>2, <1>4, <1>5, <1>6 DEF WorkerInv, Based, Filling, Storing, Reckoning
  <2>3. Filled(w)'
    BY <1>2, <1>4, <1>5, <1>6 DEF WorkerInv, Filled, Filling, Storing
  <2>4. Ranged(w)'
    BY <1>4, <1>5 DEF Ranged, Over
  <2>5. Listed(w)' /\ Sized(w)'
    BY <1>2, <1>4, <1>5, <1>6 DEF WorkerInv, Listed, Sized
  <2> QED BY <2>1, <2>2, <2>3, <2>4, <2>5 DEF WorkerInv
<1>8. run' \in 0..MaxRuns /\ run' >= run
  BY <1>2, <1>3
<1>9. worker[w].pc # "storing" /\ new.pc # "storing" /\ worker[w].pc # "idle"
  BY <1>2, <1>4
<1> QED BY <1>2, <1>4, <1>7, <1>8, <1>9, OneStep

\* Nobody else is at work when the scrapes come one at a time.
LEMMA Others ==
  ASSUME IInv, serial, NEW w \in Workers, worker[w].pc # "idle"
  PROVE  \A v \in Workers : v # w => worker[v].pc = "idle"
BY DEF IInv, Alone

\* A new map leaves what others have in the old ones, and makes it stale.
LEMMA MakeStep ==
  ASSUME IInv, NEW w \in Workers, MakeMap(w)
  PROVE  IInv'
<1>1. PICK new : new = [worker[w] EXCEPT !.pc = "store", !.base = Len(maps) + 1]
  OBVIOUS
<1>2. /\ worker[w].pc = "make" /\ worker' = [worker EXCEPT ![w] = new]
      /\ maps' = Append(maps, EmptyMap) /\ lmap' = Len(maps) + 1
      /\ UNCHANGED <<metrics, serial, run, sent>>
  BY <1>1 DEF MakeMap, At, Become
<1>3. /\ worker[w] \in WorkerType /\ run \in 0..MaxRuns /\ MaxRuns \in Nat
      /\ maps \in Seq(MapType) /\ Len(maps) \in Nat /\ lmap = Len(maps)
      /\ Len(metrics) \in Nat
  BY RunsAssumption, LenProperties DEF IInv, Types
<1>4. /\ new.pc = "store" /\ new.base = lmap' /\ new.base \in Nat
      /\ new.run = worker[w].run /\ new.rows = worker[w].rows /\ new.todo = worker[w].todo
      /\ new.iter = worker[w].iter /\ new.next = worker[w].next
      /\ new.size = worker[w].size /\ new.list = worker[w].list
  BY <1>1, <1>2, <1>3 DEF WorkerType
<1>14. new \in WorkerType
  <2>1. "store" \in PCs /\ Len(maps) + 1 \in Nat
    BY <1>3 DEF PCs
  <2> QED BY <1>1, <1>3, <2>1 DEF WorkerType
<1>5. worker'[w] = new /\ \A v \in Workers : v # w => worker'[v] = worker[v]
  BY <1>2 DEF IInv, Types
<1>6. EmptyMap \in MapType /\ EmptyMap.writers = {} /\ \A c \in Cores : EmptyMap.rows[c] = 0
  BY <1>3 DEF EmptyMap, MapType
<1>7. /\ maps' \in Seq(MapType) /\ Len(maps') = Len(maps) + 1
      /\ maps'[Len(maps) + 1] = EmptyMap
      /\ \A k \in 1..Len(maps) : maps'[k] = maps[k]
  BY <1>2, <1>3, <1>6, AppendProperties
<1>8. Types'
  BY <1>2, <1>3, <1>4, <1>5, <1>7, <1>14 DEF IInv, Types
<1>9. WorkerInv(w)'
  <2>1. WorkerInv(w)
    BY DEF IInv
  <2>2. Placed(w)'
    BY <1>2, <1>4, <1>5, <2>1 DEF WorkerInv, Placed, Filling, Storing, Reckoning
  <2>3. Based(w)'
    BY <1>2, <1>3, <1>4, <1>5, <2>1 DEF WorkerInv, Based, WorkerType
  <2>4. Filled(w)' /\ Ranged(w)'
    BY <1>2, <1>4, <1>5, <2>1 DEF WorkerInv, Placed, Filled, Ranged, Over
  <2>5. Listed(w)' /\ Sized(w)'
    BY <1>2, <1>4, <1>5, <2>1 DEF WorkerInv, Listed, Sized
  <2> QED BY <2>2, <2>3, <2>4, <2>5 DEF WorkerInv
<1>10. ASSUME NEW v \in Workers, v # w PROVE WorkerInv(v)'
  <2>1. WorkerInv(v) /\ worker'[v] = worker[v] /\ worker[v] \in WorkerType
    BY <1>5, <1>10 DEF IInv, Types
  <2>2. serial => worker[v].pc = "idle"
    BY <1>2, <1>10, Others
  <2>3. worker[v].base < lmap' /\ worker[v].iter < lmap' /\ lmap < lmap'
    BY <1>2, <1>3, <2>1, SMTT(30) DEF WorkerInv, Based, WorkerType
  <2>4. Placed(v)'
    BY <1>2, <2>1 DEF WorkerInv, Placed, Metric
  <2>5. Based(v)'
    <3>1. \A k \in worker[v].base..lmap : k \in worker[v].base..lmap'
      BY <1>2, <1>3, <2>1 DEF WorkerType
    <3>2. worker[v].base <= lmap' /\ worker[v].iter <= lmap'
      BY <1>2, <1>3, <2>1, <2>3 DEF WorkerType
    <3>3. ~(serial /\ worker[v].pc \in Filling)
      BY <2>2 DEF Filling, Storing, Reckoning
    <3> QED BY <1>2, <2>1, <3>1, <3>2, <3>3 DEF WorkerInv, Based
  <2>6. Filled(v)' /\ Ranged(v)'
    BY <1>3, <2>1, <2>3 DEF Filled, Ranged, WorkerType
  <2>7. Listed(v)'
    BY <1>2, <2>1 DEF WorkerInv, Listed, Seen, Metric
  <2>8. Sized(v)'
    BY <1>2, <2>1, <2>2 DEF WorkerInv, Sized
  <2> QED BY <2>4, <2>5, <2>6, <2>7, <2>8 DEF WorkerInv
<1>11. Past'
  <2>1. ASSUME NEW k \in 1..Len(maps'), NEW c \in Cores PROVE maps'[k].rows[c] <= run'
    <3>1. CASE k \in 1..Len(maps)
      BY <1>2, <1>7, <3>1 DEF IInv, Past
    <3>2. CASE k = Len(maps) + 1
      BY <1>2, <1>3, <1>6, <1>7, <3>2
    <3> QED BY <1>3, <1>7, <3>1, <3>2
  <2> QED BY <2>1 DEF Past
<1>12. Alone'
  <2> SUFFICES ASSUME serial PROVE Alone'
    BY <1>2, <1>8 DEF Alone, Types
  <2>1. \A v \in Workers : v # w => worker'[v].pc = "idle"
    BY <1>2, <1>5, Others
  <2>2. ASSUME NEW k \in 1..Len(maps') PROVE ~Written(k)'
    <3>1. CASE k \in 1..Len(maps)
      <4>1. ~Written(k)
        BY <1>2, <3>1, Others DEF IInv, Alone
      <4> QED BY <1>7, <3>1, <4>1 DEF Written
    <3>2. CASE k = Len(maps) + 1
      BY <1>6, <1>7, <3>2 DEF Written
    <3> QED BY <1>3, <1>7, <3>1, <3>2
  <2> QED BY <2>1, <2>2 DEF Alone
<1>13. Answered'
  BY <1>2 DEF IInv, Answered, SentOK, OwnRowsSummed, ComputedAsNamed, OverAll
<1> QED BY <1>8, <1>9, <1>10, <1>11, <1>12, <1>13 DEF IInv

\* A row stored in a map takes nothing from those who are not its writer: a core that
\* had a row has one.
LEMMA Kept ==
  ASSUME Types, NEW v \in Workers, WorkerInv(v), worker'[v] = worker[v],
         UNCHANGED <<metrics, serial, run, lmap>>, serial => worker[v].pc = "idle",
         lmap # 0 => \A c \in Cores : maps[lmap].rows[c] > 0 => maps'[lmap].rows[c] > 0
  PROVE  WorkerInv(v)'
<1>1. Placed(v)' /\ Based(v)'
  BY DEF WorkerInv, Placed, Based, Metric
<1>2. Filled(v)'
  <2> SUFFICES ASSUME worker[v].pc \in Filling, worker[v].base = lmap,
                      NEW c \in worker[v].rows \ worker[v].todo
               PROVE  maps'[lmap].rows[c] > 0 /\ ~serial
    BY DEF Filled
  <2>1. ~serial
    BY DEF Filling, Storing, Reckoning
  <2>2. lmap # 0 /\ c \in Cores /\ maps[lmap].rows[c] > 0
    BY DEF WorkerInv, Filled, Based, Types, WorkerType
  <2> QED BY <2>1, <2>2
<1>3. Ranged(v)' /\ Listed(v)'
  BY DEF WorkerInv, Ranged, Listed, Over, Seen, Metric
<1>4. Sized(v)'
  BY DEF WorkerInv, Sized
<1> QED BY <1>1, <1>2, <1>3, <1>4 DEF WorkerInv

\* A write begins.
LEMMA StoreBeginsStep ==
  ASSUME IInv, NEW w \in Workers, StoreBegins(w), proc' = proc
  PROVE  IInv'
<1>1. PICK c \in worker[w].todo :
        /\ ~Written(lmap) /\ maps' = [maps EXCEPT ![lmap].writers = {w}]
        /\ Become(w, [worker[w] EXCEPT !.pc = "storing", !.into = lmap, !.key = c])
        /\ UNCHANGED <<metrics, serial, proc, run, lmap, sent>>
  BY DEF StoreBegins, At, Die, Ends
<1>2. PICK new : new = [worker[w] EXCEPT !.pc = "storing", !.into = lmap, !.key = c]
  OBVIOUS
<1>3. /\ worker[w].pc = "store" /\ worker' = [worker EXCEPT ![w] = new]
      /\ UNCHANGED <<metrics, serial, run, lmap, sent>>
  BY <1>1, <1>2 DEF StoreBegins, At, Become
<1>4. /\ worker[w] \in WorkerType /\ run \in 0..MaxRuns /\ MaxRuns \in Nat
      /\ maps \in Seq(MapType) /\ Len(maps) \in Nat /\ lmap = Len(maps)
  BY RunsAssumption, LenProperties DEF IInv, Types
<1>5. /\ new.pc = "storing" /\ new.into = lmap /\ new.key = c /\ new.base = worker[w].base
      /\ new.run = worker[w].run /\ new.rows = worker[w].rows /\ new.todo = worker[w].todo
      /\ new.iter = worker[w].iter /\ new.next = worker[w].next
      /\ new.size = worker[w].size /\ new.list = worker[w].list
  BY <1>2, <1>4 DEF WorkerType
<1>6. new \in WorkerType
  <2>1. "storing" \in PCs /\ lmap \in Nat /\ c \in Cores
    BY <1>1, <1>4 DEF PCs, WorkerType
  <2> QED BY <1>2, <1>4, <2>1 DEF WorkerType
<1>7. worker'[w] = new /\ \A v \in Workers : v # w => worker'[v] = worker[v]
  BY <1>3 DEF IInv, Types
<1>8. WorkerInv(w)
  BY DEF IInv
<1>9. worker[w].base # 0 /\ worker[w].base <= lmap /\ lmap # 0
  BY <1>3, <1>4, <1>8 DEF WorkerInv, Based, WorkerType, Filling, Storing
<1>10. lmap \in 1..Len(maps) /\ maps[lmap] \in MapType
  BY <1>9, CurrentMap DEF IInv
<1>11. /\ maps' \in Seq(MapType) /\ Len(maps') = Len(maps)
       /\ maps'[lmap].rows = maps[lmap].rows /\ maps'[lmap].writers = {w}
       /\ \A k \in 1..Len(maps) : k # lmap => maps'[k] = maps[k]
  <2>1. PICK m : m = [maps[lmap] EXCEPT !.writers = {w}]
    OBVIOUS
  <2>2. m \in MapType /\ m.rows = maps[lmap].rows /\ m.writers = {w}
    BY <1>10, <2>1 DEF MapType
  <2>3. maps' = [maps EXCEPT ![lmap] = m]
    BY <1>1, <2>1
  <2> QED BY <1>4, <1>10, <2>2, <2>3, ExceptSeq
<1>12. Types'
  BY <1>3, <1>4, <1>6, <1>7, <1>11 DEF IInv, Types
<1>13. WorkerInv(w)'
  <2>1. Placed(w)'
    BY <1>3, <1>5, <1>7, <1>8 DEF WorkerInv, Placed, Filling, Storing, Reckoning
  <2>2. Based(w)'
    BY <1>1, <1>3, <1>4, <1>5, <1>7, <1>8, <1>9
       DEF WorkerInv, Based, WorkerType, Filling, Storing
  <2>3. Filled(w)'
    BY <1>3, <1>5, <1>7, <1>8, <1>11 DEF WorkerInv, Filled, Filling, Storing
  <2>4. Ranged(w)'
    BY <1>5, <1>7 DEF Ranged, Over
  <2>5. Listed(w)' /\ Sized(w)'
    BY <1>3, <1>5, <1>7, <1>8 DEF WorkerInv, Listed, Sized
  <2> QED BY <2>1, <2>2, <2>3, <2>4, <2>5 DEF WorkerInv
<1>14. ASSUME NEW v \in Workers, v # w PROVE WorkerInv(v)'
  <2>1. serial => worker[v].pc = "idle"
    BY <1>3, <1>14, Others
  <2> QED BY <1>3, <1>7, <1>11, <1>14, <2>1, Kept DEF IInv
<1>15. Past'
  <2>1. ASSUME NEW k \in 1..Len(maps) PROVE maps'[k].rows = maps[k].rows
    BY <1>11
  <2> QED BY <1>3, <1>11, <2>1 DEF IInv, Past
<1>16. Alone'
  <2> SUFFICES ASSUME serial PROVE Alone'
    BY <1>3, <1>12 DEF Alone, Types
  <2>1. \A v \in Workers : v # w => worker'[v].pc = "idle"
    BY <1>3, <1>7, Others
  <2>2. ASSUME NEW k \in 1..Len(maps), Written(k)' PROVE k = lmap
    <3> SUFFICES ASSUME k # lmap PROVE FALSE
      OBVIOUS
    <3>1. Written(k)
      BY <1>11, <2>2 DEF Written
    <3> QED BY <1>3, <3>1, Others DEF IInv, Alone
  <2> QED BY <1>5, <1>7, <1>11, <2>1, <2>2 DEF Alone
<1>17. Answered'
  BY <1>3 DEF IInv, Answered, SentOK, OwnRowsSummed, ComputedAsNamed, OverAll
<1> QED BY <1>12, <1>13, <1>14, <1>15, <1>16, <1>17 DEF IInv

\* It ends: the row is of the writer's query, over whatever was there.
LEMMA StoreEndsStep ==
  ASSUME IInv, NEW w \in Workers, StoreEnds(w)
  PROVE  IInv'
<1>1. PICK k, c : k = worker[w].into /\ c = worker[w].key
  OBVIOUS
<1>2. PICK new : new = [worker[w] EXCEPT !.pc = "store", !.todo = worker[w].todo \ {c}]
  OBVIOUS
<1>3. /\ worker[w].pc = "storing" /\ worker' = [worker EXCEPT ![w] = new]
      /\ maps' = [maps EXCEPT ![k].writers = {}, ![k].rows[c] = worker[w].run]
      /\ UNCHANGED <<metrics, serial, run, lmap, sent>>
  BY <1>1, <1>2 DEF StoreEnds, At, Become
<1>4. /\ worker[w] \in WorkerType /\ run \in 0..MaxRuns /\ MaxRuns \in Nat
      /\ maps \in Seq(MapType) /\ Len(maps) \in Nat /\ lmap = Len(maps)
  BY RunsAssumption, LenProperties DEF IInv, Types
<1>5. /\ new.pc = "store" /\ new.base = worker[w].base
      /\ new.run = worker[w].run /\ new.rows = worker[w].rows
      /\ new.todo = worker[w].todo \ {c}
      /\ new.iter = worker[w].iter /\ new.next = worker[w].next
      /\ new.size = worker[w].size /\ new.list = worker[w].list
  BY <1>2, <1>4 DEF WorkerType
<1>6. new \in WorkerType
  <2>1. "store" \in PCs
    BY DEF PCs
  <2> QED BY <1>2, <1>4, <2>1 DEF WorkerType
<1>7. worker'[w] = new /\ \A v \in Workers : v # w => worker'[v] = worker[v]
  BY <1>3 DEF IInv, Types
<1>8. WorkerInv(w)
  BY DEF IInv
<1>9. /\ worker[w].base # 0 /\ worker[w].base <= lmap /\ k \in worker[w].base..lmap
      /\ k \in 1..Len(maps) /\ c \in worker[w].todo /\ c \in Cores
      /\ worker[w].run > 0 /\ worker[w].run <= run
  BY <1>1, <1>3, <1>4, <1>8
     DEF WorkerInv, Placed, Based, WorkerType, Filling, Storing
<1>10. maps[k] \in MapType
  BY <1>4, <1>9, ElementOfSeq
<1>11. /\ maps' \in Seq(MapType) /\ Len(maps') = Len(maps)
       /\ maps'[k].rows[c] = worker[w].run /\ maps'[k].writers = {}
       /\ \A d \in Cores : d # c => maps'[k].rows[d] = maps[k].rows[d]
       /\ \A j \in 1..Len(maps) : j # k => maps'[j] = maps[j]
  <2>1. PICK m : m = [maps[k] EXCEPT !.writers = {}, !.rows[c] = worker[w].run]
    OBVIOUS
  <2>2. /\ m \in MapType /\ m.rows[c] = worker[w].run /\ m.writers = {}
        /\ \A d \in Cores : d # c => m.rows[d] = maps[k].rows[d]
    BY <1>4, <1>9, <1>10, <2>1 DEF MapType, WorkerType
  <2>3. maps' = [maps EXCEPT ![k] = m]
    BY <1>3, <2>1
  <2> QED BY <1>4, <1>9, <2>2, <2>3, ExceptSeq
<1>12. Types'
  BY <1>3, <1>4, <1>6, <1>7, <1>11 DEF IInv, Types
<1>13. WorkerInv(w)'
  <2>1. Placed(w)'
    BY <1>3, <1>5, <1>7, <1>8 DEF WorkerInv, Placed, Filling, Storing, Reckoning
  <2>2. Based(w)'
    BY <1>3, <1>5, <1>7, <1>8 DEF WorkerInv, Based, Filling, Storing
  <2>3. Filled(w)'
    <3> SUFFICES ASSUME worker[w].base = lmap,
                        NEW d \in worker[w].rows \ (worker[w].todo \ {c})
                 PROVE  /\ maps'[lmap].rows[d] > 0
                        /\ serial => maps'[lmap].rows[d] = worker[w].run
      BY <1>3, <1>5, <1>7 DEF Filled
    <3>1. k = lmap
      BY <1>4, <1>9
    <3>2. CASE d = c
      BY <1>9, <1>11, <3>1, <3>2
    <3>3. CASE d # c
      <4>1. d \in Cores /\ d \in worker[w].rows \ worker[w].todo
        BY <1>4, <3>3 DEF WorkerType
      <4> QED BY <1>3, <1>8, <1>11, <3>1, <3>3, <4>1
              DEF WorkerInv, Filled, Filling, Storing
    <3> QED BY <3>2, <3>3
  <2>4. Ranged(w)'
    BY <1>5, <1>7 DEF Ranged, Over
  <2>5. Listed(w)' /\ Sized(w)'
    BY <1>3, <1>5, <1>7, <1>8 DEF WorkerInv, Listed, Sized
  <2> QED BY <2>1, <2>2, <2>3, <2>4, <2>5 DEF WorkerInv
<1>14. ASSUME NEW v \in Workers, v # w PROVE WorkerInv(v)'
  <2>1. serial => worker[v].pc = "idle"
    BY <1>3, <1>14, Others
  <2>2. \A d \in Cores : maps[lmap].rows[d] > 0 /\ lmap # 0 => maps'[lmap].rows[d] > 0
    <3>1. CASE lmap = k
      BY <1>9, <1>11, <3>1
    <3>2. CASE lmap # k
      BY <1>4, <1>11, <3>2
    <3> QED BY <3>1, <3>2
  <2> QED BY <1>3, <1>7, <1>14, <2>1, <2>2, Kept DEF IInv
<1>15. Past'
  <2>1. ASSUME NEW j \in 1..Len(maps), NEW d \in Cores PROVE maps'[j].rows[d] <= run
    BY <1>9, <1>11 DEF IInv, Past
  <2> QED BY <1>3, <1>11, <2>1 DEF Past
<1>16. Alone'
  <2> SUFFICES ASSUME serial PROVE Alone'
    BY <1>3, <1>12 DEF Alone, Types
  <2>1. \A v \in Workers : v # w => worker'[v].pc = "idle"
    BY <1>3, <1>7, Others
  <2>2. ASSUME NEW j \in 1..Len(maps) PROVE ~Written(j)'
    <3>1. CASE j = k
      BY <1>11, <3>1 DEF Written
    <3>2. CASE j # k
      <4> SUFFICES ASSUME Written(j) PROVE FALSE
        BY <1>11, <3>2 DEF Written
      <4> QED BY <1>1, <1>3, <3>2, Others DEF IInv, Alone
    <3> QED BY <3>1, <3>2
  <2> QED BY <1>11, <2>1, <2>2 DEF Alone
<1>17. Answered'
  BY <1>3 DEF IInv, Answered, SentOK, OwnRowsSummed, ComputedAsNamed, OverAll
<1> QED BY <1>12, <1>13, <1>14, <1>15, <1>16, <1>17 DEF IInv

-----------------------------------------------------------------------------
(* The steps of compute.                                                   *)

\* What a goroutine that has stored its rows finds when it reads c.lmap.
LEMMA Reads ==
  ASSUME IInv, NEW w \in Workers, worker[w].pc \in Filling
  PROVE  /\ worker[w] \in WorkerType /\ run \in 0..MaxRuns /\ MaxRuns \in Nat
         /\ Len(maps) \in Nat /\ lmap = Len(maps) /\ Len(metrics) \in Nat
         /\ lmap # 0 /\ worker[w].base \in 1..lmap /\ worker[w].pc # "idle"
         /\ \A k \in 1..Len(maps) : maps[k] \in MapType
         /\ \A c \in Cores : Value(c) \in Cores \X (0..MaxRuns) /\ Value(c)[1] = c
                             /\ Value(c)[2] = maps[lmap].rows[c] /\ Value(c)[2] <= run
<1>1. /\ worker[w] \in WorkerType /\ run \in 0..MaxRuns /\ MaxRuns \in Nat
      /\ Len(maps) \in Nat /\ lmap = Len(maps) /\ Len(metrics) \in Nat
  BY RunsAssumption, LenProperties DEF IInv, Types
<1>2. lmap # 0 /\ worker[w].base \in 1..lmap
  BY <1>1 DEF IInv, WorkerInv, Based, WorkerType
<1>3. \A k \in 1..Len(maps) : maps[k] \in MapType
  BY ElementOfSeq DEF IInv, Types
<1>4. lmap \in 1..Len(maps)
  BY <1>1, <1>2
<1>5. \A c \in Cores : maps[lmap].rows[c] \in 0..MaxRuns /\ maps[lmap].rows[c] <= run
  BY <1>3, <1>4 DEF MapType, IInv, Past
<1>6. worker[w].pc # "idle"
  BY DEF Filling, Storing, Reckoning
<1> QED BY <1>1, <1>2, <1>3, <1>5, <1>6 DEF Value

\* A variable with a core has a list of one.
LEMMA ReadCoreStep ==
  ASSUME IInv, NEW w \in Workers, ReadCore(w), proc' = proc
  PROVE  IInv'
<1> DEFINE core == Metric(w).core
<1>1. PICK new : new = [worker[w] EXCEPT !.pc = "eval", !.list = <<Value(core)>>,
                                         !.size = 1]
  OBVIOUS
<1>2. /\ worker[w].pc = "metric" /\ worker[w].next <= Len(metrics) /\ core # All
      /\ worker' = [worker EXCEPT ![w] = new]
      /\ UNCHANGED <<metrics, serial, run, maps, lmap, sent>>
  BY <1>1 DEF ReadCore, Computes, At, Become, Die, Ends
<1>3. worker[w].pc \in Filling
  BY <1>2 DEF Filling
<1>4. core \in Cores
  BY <1>2, MetricOf DEF IInv, MetricType
<1> HIDE DEF core
<1>5. PICK list : list = <<Value(core)>>
  OBVIOUS
<1>6. list \in List /\ Len(list) = 1 /\ list[1] = Value(core)
  BY <1>3, <1>4, <1>5, Reads DEF List
<1>7. Cardinality(Cores) \in Nat /\ Cardinality(Cores) >= 1
  BY <1>4, CoresAssumption, FS_CardinalityType, FS_EmptySet
<1>8. /\ new.pc = "eval" /\ new.base = worker[w].base
      /\ new.run = worker[w].run /\ new.rows = worker[w].rows
      /\ new.todo = worker[w].todo /\ new.must = worker[w].must
      /\ new.iter = worker[w].iter /\ new.next = worker[w].next
      /\ new.size = 1 /\ new.list = list
  BY <1>1, <1>3, <1>5, Reads DEF WorkerType
<1>9. new \in WorkerType
  <2>1. "eval" \in PCs /\ 1 \in Nat
    BY DEF PCs
  <2>2. worker[w] \in WorkerType
    BY <1>3, Reads
  <2> QED BY <1>1, <1>5, <1>6, <2>1, <2>2 DEF WorkerType
<1>10. worker'[w] = new
  BY <1>2 DEF IInv, Types
<1>11. WorkerInv(w)
  BY DEF IInv
<1>12. Metric(w)' = Metric(w) /\ Metric(w).core # All
  BY <1>2, <1>8, <1>10 DEF Metric, core
<1>13. WorkerInv(w)'
  <2>1. Placed(w)'
    BY <1>2, <1>8, <1>10, <1>11 DEF WorkerInv, Placed, Filling, Storing
  <2>2. Based(w)'
    BY <1>2, <1>3, <1>8, <1>10, <1>11 DEF WorkerInv, Based
  <2>3. Filled(w)'
    BY <1>2, <1>3, <1>8, <1>10, <1>11 DEF WorkerInv, Filled
  <2>4. Ranged(w)'
    BY <1>8, <1>10, <1>12 DEF Ranged, Over
  <2>5. Listed(w)'
    <3>1. \A i \in 1..Len(list) : i = 1 /\ list[i][2] <= run
      BY <1>3, <1>4, <1>6, Reads
    <3> QED BY <1>2, <1>8, <1>10, <1>12, <3>1 DEF Listed
  <2>6. Sized(w)'
    BY <1>2, <1>6, <1>7, <1>8, <1>10 DEF Sized
  <2> QED BY <2>1, <2>2, <2>3, <2>4, <2>5, <2>6 DEF WorkerInv
<1>14. run' \in 0..MaxRuns /\ run' >= run
  BY <1>2, <1>3, Reads
<1>15. worker[w].pc # "storing" /\ new.pc # "storing" /\ worker[w].pc # "idle"
  BY <1>2, <1>8
<1> QED BY <1>2, <1>9, <1>13, <1>14, <1>15, OneStep

\* The list over all cores has a place for each core in the map.
LEMMA MakeListStep ==
  ASSUME IInv, NEW w \in Workers, MakeList(w)
  PROVE  IInv'
<1> DEFINE size == Cardinality(Present(lmap))
<1>1. PICK new : new = [worker[w] EXCEPT !.pc = "list", !.list = <<>>, !.size = size]
  OBVIOUS
<1>2. /\ worker[w].pc = "metric" /\ worker[w].next <= Len(metrics) /\ Metric(w).core = All
      /\ worker' = [worker EXCEPT ![w] = new]
      /\ UNCHANGED <<metrics, serial, run, maps, lmap, sent>>
  BY <1>1 DEF MakeList, Computes, At, Become
<1>3. worker[w].pc \in Filling
  BY <1>2 DEF Filling
<1>4. size \in Nat /\ size <= Cardinality(Cores)
  BY <1>3, Reads, CurrentMap DEF IInv
<1>5. Present(lmap)' = Present(lmap) /\ size' = size
  BY <1>2 DEF Present
<1>6. <<>> \in List /\ Len(<<>>) = 0
  BY EmptySeq DEF List
<1>7. /\ new.pc = "list" /\ new.base = worker[w].base
      /\ new.run = worker[w].run /\ new.rows = worker[w].rows
      /\ new.todo = worker[w].todo /\ new.must = worker[w].must
      /\ new.iter = worker[w].iter /\ new.next = worker[w].next
      /\ new.size = size /\ new.list = <<>>
  BY <1>1, <1>3, Reads DEF WorkerType
<1>8. new \in WorkerType
  <2>1. "list" \in PCs
    BY DEF PCs
  <2>2. worker[w] \in WorkerType
    BY <1>3, Reads
  <2> QED BY <1>1, <1>4, <1>6, <2>1, <2>2 DEF WorkerType
<1>9. worker'[w] = new
  BY <1>2 DEF IInv, Types
<1>10. WorkerInv(w)
  BY DEF IInv
<1>11. Metric(w)' = Metric(w)
  BY <1>2, <1>7, <1>9 DEF Metric
<1>12. WorkerInv(w)'
  <2>1. Placed(w)'
    BY <1>2, <1>7, <1>9, <1>10, <1>11 DEF WorkerInv, Placed, Filling, Storing
  <2>2. Based(w)'
    BY <1>2, <1>3, <1>7, <1>9, <1>10 DEF WorkerInv, Based
  <2>3. Filled(w)'
    BY <1>2, <1>3, <1>7, <1>9, <1>10 DEF WorkerInv, Filled
  <2>4. Ranged(w)'
    BY <1>7, <1>9 DEF Ranged, Over
  <2>5. Listed(w)'
    BY <1>6, <1>7, <1>9 DEF Listed
  <2>6. Sized(w)'
    BY <1>4, <1>5, <1>7, <1>9 DEF Sized
  <2> QED BY <2>1, <2>2, <2>3, <2>4, <2>5, <2>6 DEF WorkerInv
<1>13. run' \in 0..MaxRuns /\ run' >= run
  BY <1>2, <1>3, Reads
<1>14. worker[w].pc # "storing" /\ new.pc # "storing" /\ worker[w].pc # "idle"
  BY <1>2, <1>7
<1> QED BY <1>2, <1>8, <1>12, <1>13, <1>14, OneStep

\* The range begins over the map that c.lmap is, which has the scrape's own rows if it
\* is the map the scrape filled.
LEMMA RangeBeginsStep ==
  ASSUME IInv, NEW w \in Workers, RangeBegins(w), proc' = proc
  PROVE  IInv'
<1>1. PICK new : new = [worker[w] EXCEPT !.pc = "range", !.iter = lmap,
                                         !.must = Present(lmap)]
  OBVIOUS
<1>2. /\ worker[w].pc = "list" /\ worker' = [worker EXCEPT ![w] = new]
      /\ UNCHANGED <<metrics, serial, run, maps, lmap, sent>>
  BY <1>1 DEF RangeBegins, At, Become, Die, Ends
<1>3. worker[w].pc \in Filling
  BY <1>2 DEF Filling, Reckoning
<1>4. Present(lmap)' = Present(lmap) /\ Present(lmap) \subseteq Cores
  BY <1>2 DEF Present
<1>5. /\ new.pc = "range" /\ new.base = worker[w].base
      /\ new.run = worker[w].run /\ new.rows = worker[w].rows
      /\ new.todo = worker[w].todo /\ new.must = Present(lmap)
      /\ new.iter = lmap /\ new.next = worker[w].next
      /\ new.size = worker[w].size /\ new.list = worker[w].list
  BY <1>1, <1>3, Reads DEF WorkerType
<1>6. new \in WorkerType
  <2>1. "range" \in PCs /\ lmap \in Nat
    BY <1>3, Reads DEF PCs
  <2>2. worker[w] \in WorkerType
    BY <1>3, Reads
  <2> QED BY <1>1, <1>4, <2>1, <2>2 DEF WorkerType
<1>7. worker'[w] = new
  BY <1>2 DEF IInv, Types
<1>8. WorkerInv(w)
  BY DEF IInv
<1>9. worker[w].list = <<>> /\ Len(<<>>) = 0 /\ worker[w].todo = {}
  BY <1>2, <1>3, <1>8, EmptySeq DEF WorkerInv, Listed, Placed, Filling, Storing
<1>10. Metric(w)' = Metric(w)
  BY <1>2, <1>5, <1>7 DEF Metric
<1>11. WorkerInv(w)'
  <2>1. Placed(w)'
    BY <1>2, <1>5, <1>7, <1>8, <1>9, <1>10 DEF WorkerInv, Placed, Reckoning
  <2>2. Based(w)'
    BY <1>2, <1>3, <1>5, <1>7, <1>8, Reads DEF WorkerInv, Based
  <2>3. Filled(w)'
    BY <1>2, <1>3, <1>5, <1>7, <1>8 DEF WorkerInv, Filled
  <2>4. Ranged(w)'
    <3> SUFFICES ASSUME worker[w].base = lmap PROVE worker[w].rows \subseteq Present(lmap)
      BY <1>2, <1>5, <1>7, <1>9 DEF Ranged
    <3>1. ASSUME NEW c \in worker[w].rows PROVE c \in Present(lmap)
      <4>1. c \in Cores /\ maps[lmap].rows[c] > 0
        BY <1>3, <1>8, <1>9, Reads DEF WorkerInv, Filled, WorkerType
      <4> QED BY <4>1 DEF Present
    <3> QED BY <3>1
  <2>5. Listed(w)'
    BY <1>5, <1>7, <1>9 DEF Listed
  <2>6. Sized(w)'
    <3>1. Seen(w)' = {}
      BY <1>5, <1>7, <1>9 DEF Seen
    <3> QED BY <1>2, <1>4, <1>5, <1>7, <1>8, <3>1 DEF WorkerInv, Sized
  <2> QED BY <2>1, <2>2, <2>3, <2>4, <2>5, <2>6 DEF WorkerInv
<1>12. run' \in 0..MaxRuns /\ run' >= run
  BY <1>2, <1>3, Reads
<1>13. worker[w].pc # "storing" /\ new.pc # "storing" /\ worker[w].pc # "idle"
  BY <1>2, <1>5
<1> QED BY <1>2, <1>6, <1>11, <1>12, <1>13, OneStep

\* The range comes to a core it has not been to.
LEMMA RangeNextStep ==
  ASSUME IInv, NEW w \in Workers, RangeNext(w), proc' = proc
  PROVE  IInv'
<1>1. PICK c \in Present(worker[w].iter) \ Seen(w) :
        /\ Become(w, [worker[w] EXCEPT !.list = Append(worker[w].list, Value(c))])
        /\ UNCHANGED <<metrics, serial, proc, run, maps, lmap, sent>>
  BY DEF RangeNext, At, Become, Die, Ends
<1>2. PICK list : list = Append(worker[w].list, Value(c))
  OBVIOUS
<1>3. PICK new : new = [worker[w] EXCEPT !.list = list]
  OBVIOUS
<1>4. /\ worker[w].pc = "range" /\ worker' = [worker EXCEPT ![w] = new]
      /\ UNCHANGED <<metrics, serial, run, maps, lmap, sent>>
  BY <1>1, <1>2, <1>3 DEF RangeNext, At, Become
<1>5. worker[w].pc \in Filling
  BY <1>4 DEF Filling, Reckoning
<1>6. c \in Cores
  BY <1>1 DEF Present
<1>7. worker[w].list \in Seq(Cores \X (0..MaxRuns)) /\ Len(worker[w].list) \in Nat
  BY <1>5, Reads, LenProperties DEF WorkerType, List
<1>8. /\ list \in Seq(Cores \X (0..MaxRuns)) /\ Len(list) = Len(worker[w].list) + 1
      /\ list[Len(worker[w].list) + 1] = Value(c)
      /\ \A i \in 1..Len(worker[w].list) : list[i] = worker[w].list[i]
  BY <1>2, <1>5, <1>6, <1>7, Reads, AppendProperties
<1>9. /\ new.pc = "range" /\ new.base = worker[w].base
      /\ new.run = worker[w].run /\ new.rows = worker[w].rows
      /\ new.todo = worker[w].todo /\ new.must = worker[w].must
      /\ new.iter = worker[w].iter /\ new.next = worker[w].next
      /\ new.size = worker[w].size /\ new.list = list
  BY <1>3, <1>4, <1>5, Reads DEF WorkerType
<1>10. new \in WorkerType
  <2>1. worker[w] \in WorkerType /\ list \in List
    BY <1>5, <1>8, Reads DEF List
  <2> QED BY <1>3, <2>1 DEF WorkerType
<1>17. \A i \in 1..Len(list) : i \in 1..Len(worker[w].list) \/
         (i = Len(worker[w].list) + 1 /\ list[i] = Value(c))
  BY <1>7, <1>8
<1>11. worker'[w] = new
  BY <1>4 DEF IInv, Types
<1>12. WorkerInv(w)
  BY DEF IInv
<1>13. Metric(w)' = Metric(w)
  BY <1>4, <1>9, <1>11 DEF Metric
<1>14. WorkerInv(w)'
  <2>1. Placed(w)'
    BY <1>4, <1>9, <1>11, <1>12, <1>13 DEF WorkerInv, Placed
  <2>2. Based(w)'
    BY <1>4, <1>9, <1>11, <1>12 DEF WorkerInv, Based
  <2>3. Filled(w)'
    BY <1>4, <1>9, <1>11, <1>12 DEF WorkerInv, Filled
  <2>4. Ranged(w)'
    <3> SUFFICES ASSUME worker[w].base = lmap
                 PROVE  /\ worker[w].iter = lmap
                        /\ worker[w].rows \subseteq worker[w].must
                        /\ \A i \in 1..Len(list) :
                             /\ list[i][2] > 0
                             /\ serial /\ list[i][1] \in worker[w].rows =>
                                  list[i][2] = worker[w].run
      BY <1>4, <1>9, <1>11 DEF Ranged
    <3>1. worker[w].iter = lmap /\ worker[w].rows \subseteq worker[w].must
      BY <1>4, <1>12 DEF WorkerInv, Ranged, Over
    <3>2. ASSUME NEW i \in 1..Len(worker[w].list)
          PROVE  /\ list[i][2] > 0
                 /\ serial /\ list[i][1] \in worker[w].rows => list[i][2] = worker[w].run
      BY <1>4, <1>8, <1>12 DEF WorkerInv, Ranged, Over
    <3>3. /\ Value(c)[2] > 0
          /\ serial /\ Value(c)[1] \in worker[w].rows => Value(c)[2] = worker[w].run
      <4>1. maps[lmap].rows[c] # 0 /\ maps[lmap].rows[c] \in Nat
        BY <1>1, <1>5, <1>6, <3>1, Reads DEF Present
      <4>2. serial /\ c \in worker[w].rows => maps[lmap].rows[c] = worker[w].run
        BY <1>4, <1>5, <1>12 DEF WorkerInv, Filled, Placed, Storing
      <4> QED BY <1>5, <1>6, <4>1, <4>2, Reads
    <3> QED BY <1>17, <3>1, <3>2, <3>3
  <2>5. Listed(w)'
    <3>1. \A i \in 1..Len(worker[w].list) : worker[w].list[i][1] # c
      BY <1>1 DEF Seen
    <3>2. Value(c)[1] = c /\ Value(c)[2] <= run
      BY <1>5, <1>6, Reads
    <3>3. \A i, j \in 1..Len(list) : list[i][1] = list[j][1] => i = j
      BY <1>8, <1>12, <1>17, <3>1, <3>2 DEF WorkerInv, Listed
    <3>4. \A i \in 1..Len(list) : list[i][2] <= run
      BY <1>8, <1>12, <1>17, <3>2 DEF WorkerInv, Listed
    <3> QED BY <1>4, <1>9, <1>11, <3>3, <3>4 DEF Listed
  <2>6. Sized(w)'
    <3>1. Present(lmap)' = Present(lmap)
      BY <1>4 DEF Present
    <3>2. ASSUME serial PROVE Seen(w)' \subseteq worker[w].must
      <4>1. worker[w].iter = lmap
        BY <1>4, <1>5, <1>12, <3>2 DEF WorkerInv, Based, Ranged, Over
      <4>2. Seen(w) \subseteq worker[w].must /\ c \in worker[w].must
        BY <1>1, <1>4, <1>12, <3>2, <4>1 DEF WorkerInv, Sized
      <4>3. \A i \in 1..Len(worker[w].list) : list[i][1] \in Seen(w)
        BY <1>8 DEF Seen
      <4>4. Value(c)[1] = c
        BY <1>5, <1>6, Reads
      <4>5. \A i \in 1..Len(list) : list[i][1] \in worker[w].must
        BY <1>7, <1>8, <4>2, <4>3, <4>4, SMTT(30)
      <4> QED BY <1>9, <1>11, <4>5 DEF Seen
    <3> QED BY <1>4, <1>9, <1>11, <1>12, <3>1, <3>2 DEF WorkerInv, Sized
  <2> QED BY <2>1, <2>2, <2>3, <2>4, <2>5, <2>6 DEF WorkerInv
<1>15. run' \in 0..MaxRuns /\ run' >= run
  BY <1>4, <1>5, Reads
<1>16. worker[w].pc # "storing" /\ new.pc # "storing" /\ worker[w].pc # "idle"
  BY <1>4, <1>9
<1> QED BY <1>4, <1>10, <1>14, <1>15, <1>16, OneStep

\* The range ends with every core of the map when it began, and with one scrape at a
\* time with no other.
LEMMA RangeEndsStep ==
  ASSUME IInv, NEW w \in Workers, RangeEnds(w), proc' = proc
  PROVE  IInv'
<1>1. PICK new : new = [worker[w] EXCEPT !.pc = "eval"]
  OBVIOUS
<1>2. /\ worker[w].pc = "range" /\ worker[w].must \subseteq Seen(w)
      /\ worker' = [worker EXCEPT ![w] = new]
      /\ UNCHANGED <<metrics, serial, run, maps, lmap, sent>>
  BY <1>1 DEF RangeEnds, At, Become, Die, Ends
<1>3. worker[w].pc \in Filling
  BY <1>2 DEF Filling, Reckoning
<1>4. /\ new.pc = "eval" /\ new.base = worker[w].base
      /\ new.run = worker[w].run /\ new.rows = worker[w].rows
      /\ new.todo = worker[w].todo /\ new.must = worker[w].must
      /\ new.iter = worker[w].iter /\ new.next = worker[w].next
      /\ new.size = worker[w].size /\ new.list = worker[w].list
  BY <1>1, <1>3, Reads DEF WorkerType
<1>5. new \in WorkerType
  <2>1. "eval" \in PCs
    BY DEF PCs
  <2>2. worker[w] \in WorkerType
    BY <1>3, Reads
  <2> QED BY <1>1, <2>1, <2>2 DEF WorkerType
<1>6. worker'[w] = new
  BY <1>2 DEF IInv, Types
<1>7. WorkerInv(w)
  BY DEF IInv
<1>8. Metric(w)' = Metric(w) /\ Metric(w).core = All /\ Seen(w)' = Seen(w)
  BY <1>2, <1>4, <1>6, <1>7 DEF Metric, Seen, WorkerInv, Placed
<1>9. WorkerInv(w)'
  <2>1. Placed(w)'
    BY <1>2, <1>4, <1>6, <1>7, <1>8 DEF WorkerInv, Placed, Filling, Storing, Reckoning
  <2>2. Based(w)'
    BY <1>2, <1>3, <1>4, <1>6, <1>7 DEF WorkerInv, Based
  <2>3. Filled(w)'
    BY <1>2, <1>3, <1>4, <1>6, <1>7 DEF WorkerInv, Filled
  <2>4. Ranged(w)'
    BY <1>2, <1>4, <1>6, <1>7, <1>8 DEF WorkerInv, Ranged, Over
  <2>5. Listed(w)'
    BY <1>2, <1>4, <1>6, <1>7, <1>8 DEF WorkerInv, Listed
  <2>6. Sized(w)'
    <3>1. ASSUME serial PROVE Len(worker[w].list) = worker[w].size
      <4>1. Seen(w) = Present(lmap) /\ worker[w].size = Cardinality(Present(lmap))
        BY <1>2, <1>7, <3>1 DEF WorkerInv, Sized
      <4>2. Cardinality(Seen(w)) = Len(worker[w].list)
        <5>1. worker[w].list \in List
          BY <1>3, Reads DEF WorkerType
        <5> QED BY <1>7, <5>1, OneEach DEF WorkerInv, Listed, Seen
      <4> QED BY <4>1, <4>2
    <3> QED BY <1>2, <1>4, <1>6, <1>7, <3>1 DEF WorkerInv, Sized
  <2> QED BY <2>1, <2>2, <2>3, <2>4, <2>5, <2>6 DEF WorkerInv
<1>10. run' \in 0..MaxRuns /\ run' >= run
  BY <1>2, <1>3, Reads
<1>11. worker[w].pc # "storing" /\ new.pc # "storing" /\ worker[w].pc # "idle"
  BY <1>2, <1>4
<1> QED BY <1>2, <1>5, <1>9, <1>10, <1>11, OneStep

\* A value is sent, of a list with the scrape's own rows.
LEMMA EvaluateStep ==
  ASSUME IInv, NEW w \in Workers, Evaluate(w), proc' = proc
  PROVE  IInv'
<1>1. PICK new : new = [worker[w] EXCEPT !.pc = "metric", !.next = worker[w].next + 1]
  OBVIOUS
<1>2. PICK answer : answer = [metric |-> worker[w].next, run |-> worker[w].run,
                      rows |-> IF worker[w].base = lmap THEN worker[w].rows ELSE {},
                      list |-> worker[w].list, value |-> Computed(w)]
  OBVIOUS
<1>3. /\ worker[w].pc = "eval" /\ worker' = [worker EXCEPT ![w] = new]
      /\ sent' = [sent EXCEPT ![w] = answer]
      /\ UNCHANGED <<metrics, serial, run, maps, lmap>>
  BY <1>1, <1>2 DEF Evaluate, At, Become, Die, Ends
<1>4. worker[w].pc \in Filling
  BY <1>3 DEF Filling, Reckoning
<1>5. /\ new.pc = "metric" /\ new.base = worker[w].base
      /\ new.run = worker[w].run /\ new.rows = worker[w].rows
      /\ new.todo = worker[w].todo /\ new.must = worker[w].must
      /\ new.iter = worker[w].iter /\ new.next = worker[w].next + 1
      /\ new.size = worker[w].size /\ new.list = worker[w].list
  BY <1>1, <1>4, Reads DEF WorkerType
<1>6. new \in WorkerType
  <2>1. "metric" \in PCs
    BY DEF PCs
  <2>2. worker[w] \in WorkerType
    BY <1>4, Reads
  <2>3. worker[w].next + 1 \in Nat \ {0}
    BY <2>2 DEF WorkerType
  <2> QED BY <1>1, <2>1, <2>2, <2>3 DEF WorkerType
<1>7. worker'[w] = new
  BY <1>3 DEF IInv, Types
<1>8. WorkerInv(w) /\ worker[w] \in WorkerType
  BY <1>4, Reads DEF IInv
<1>9. worker[w].next \in 1..Len(metrics) /\ Metric(w) \in MetricType
  BY <1>3, <1>8, MetricOf DEF IInv, WorkerInv, Placed, Reckoning
<1>10. WorkerInv(w)'
  <2>1. Placed(w)'
    BY <1>3, <1>4, <1>5, <1>7, <1>8, <1>9, Reads
       DEF WorkerInv, Placed, Filling, Storing, Reckoning
  <2>2. Based(w)'
    BY <1>3, <1>4, <1>5, <1>7, <1>8 DEF WorkerInv, Based
  <2>3. Filled(w)'
    BY <1>3, <1>4, <1>5, <1>7, <1>8 DEF WorkerInv, Filled
  <2>4. Ranged(w)'
    BY <1>5, <1>7 DEF Ranged, Over
  <2>5. Listed(w)' /\ Sized(w)'
    BY <1>3, <1>5, <1>7, <1>8 DEF WorkerInv, Listed, Sized
  <2> QED BY <2>1, <2>2, <2>3, <2>4, <2>5 DEF WorkerInv
<1>11. /\ sent' = [v \in Workers |-> sent'[v]] /\ sent'[w] = answer
       /\ \A v \in Workers : v # w => sent'[v] = sent[v]
  BY <1>3 DEF IInv, Answered
<1>12. /\ answer.metric = worker[w].next /\ answer.run = worker[w].run
       /\ answer.rows = (IF worker[w].base = lmap THEN worker[w].rows ELSE {})
       /\ answer.list = worker[w].list /\ answer.value = Computed(w)
  BY <1>2
<1>13. \A v \in Workers : SentOK(v)'
  <2>1. SentOK(w)'
    <3>1. answer.metric \in 0..Len(metrics)
      BY <1>9, <1>12
    <3>2. answer.list \in List
      BY <1>8, <1>12 DEF WorkerType
    <3>3. \A i, j \in 1..Len(answer.list) : answer.list[i][1] = answer.list[j][1] => i = j
      BY <1>8, <1>12 DEF WorkerInv, Listed
    <3> QED BY <1>3, <1>11, <3>1, <3>2, <3>3 DEF SentOK
  <2>2. ASSUME NEW v \in Workers, v # w PROVE SentOK(v)'
    BY <1>3, <1>11, <2>2 DEF IInv, Answered, SentOK
  <2> QED BY <2>1, <2>2
<1>14. OwnRowsSummed'
  <2>1. ASSUME Metric(w).core = All, NEW c \in answer.rows
        PROVE  \E i \in 1..Len(worker[w].list) :
                 /\ worker[w].list[i][1] = c /\ worker[w].list[i][2] > 0
                 /\ serial => worker[w].list[i][2] = worker[w].run
    <3>1. worker[w].base = lmap /\ c \in worker[w].rows
      BY <1>12, <2>1
    <3>2. c \in Seen(w)
      BY <1>3, <1>8, <2>1, <3>1 DEF WorkerInv, Ranged, Listed, Over
    <3>3. PICK i \in 1..Len(worker[w].list) : worker[w].list[i][1] = c
      BY <3>2 DEF Seen
    <3> QED BY <1>3, <1>8, <2>1, <3>1, <3>3 DEF WorkerInv, Ranged, Over
  <2> SUFFICES ASSUME NEW v \in Workers, OverAll(v)', NEW c \in sent'[v].rows
               PROVE  \E i \in 1..Len(sent'[v].list) :
                        /\ sent'[v].list[i][1] = c /\ sent'[v].list[i][2] > 0
                        /\ serial' => sent'[v].list[i][2] = sent'[v].run
    BY DEF OwnRowsSummed
  <2>2. CASE v = w
    <3>1. Metric(w).core = All
      BY <1>3, <1>11, <1>12, <2>2 DEF OverAll, Metric
    <3> QED BY <1>3, <1>11, <1>12, <2>1, <2>2, <3>1
  <2>3. CASE v # w
    <3>1. sent'[v] = sent[v] /\ OverAll(v)
      BY <1>3, <1>11, <2>3 DEF OverAll
    <3> QED BY <1>3, <3>1 DEF IInv, Answered, OwnRowsSummed
  <2> QED BY <2>2, <2>3
<1>15. ComputedAsNamed'
  <2>1. ASSUME serial, Metric(w).core = All, Metric(w).computed
        PROVE  Computed(w) = AsNamed(Metric(w).function, worker[w].list)
    <3>1. worker[w].size = Len(worker[w].list)
      BY <1>3, <1>8, <2>1 DEF WorkerInv, Sized
    <3>2. Arguments(w) = [i \in 1..Len(worker[w].list) |->
                            Reading[worker[w].list[i][1]][worker[w].list[i][2]]]
      <4>1. \A i \in 1..Len(worker[w].list) : ~(i > Len(worker[w].list))
        BY <1>8, LenProperties DEF WorkerType, List
      <4> QED BY <3>1, <4>1 DEF Arguments
    <3>3. /\ worker[w].list \in List /\ Metric(w).function \in FunctionNames
          /\ \A i, j \in 1..Len(worker[w].list) :
               worker[w].list[i][1] = worker[w].list[j][1] => i = j
      BY <1>8, <1>9 DEF WorkerType, WorkerInv, Listed, MetricType
    <3> QED BY <2>1, <3>2, <3>3, NamedApply DEF Computed
  <2> SUFFICES ASSUME NEW v \in Workers, serial', OverAll(v)',
                      metrics'[sent'[v].metric].computed
               PROVE  sent'[v].value
                        = AsNamed(metrics'[sent'[v].metric].function, sent'[v].list)
    BY DEF ComputedAsNamed
  <2>2. CASE v = w
    <3>1. Metric(w).core = All /\ Metric(w).computed
      BY <1>3, <1>11, <1>12, <2>2 DEF OverAll, Metric
    <3> QED BY <1>3, <1>11, <1>12, <2>1, <2>2, <3>1 DEF Metric
  <2>3. CASE v # w
    <3>1. sent'[v] = sent[v] /\ OverAll(v)
      BY <1>3, <1>11, <2>3 DEF OverAll
    <3> QED BY <1>3, <3>1 DEF IInv, Answered, ComputedAsNamed
  <2> QED BY <2>2, <2>3
<1>16. Answered'
  BY <1>11, <1>13, <1>14, <1>15 DEF Answered
<1>17. run' \in 0..MaxRuns /\ run' >= run
  BY <1>3, <1>4, Reads
<1>18. worker[w].pc # "storing" /\ new.pc # "storing" /\ worker[w].pc # "idle"
  BY <1>3, <1>5
<1> QED BY <1>3, <1>6, <1>10, <1>16, <1>17, <1>18, OneMoves

\* A scrape that is done leaves nothing but the map.
LEMMA ReturnStep ==
  ASSUME IInv, NEW w \in Workers, Return(w)
  PROVE  IInv'
<1>1. /\ worker[w].pc = "metric" /\ worker' = [worker EXCEPT ![w] = Blank]
      /\ UNCHANGED <<metrics, serial, run, maps, lmap, sent>>
  BY DEF Return, At, Become
<1>2. /\ run \in 0..MaxRuns /\ MaxRuns \in Nat /\ lmap \in Nat /\ Len(metrics) \in Nat
      /\ Cardinality(Cores) \in Nat /\ <<>> \in List /\ Len(<<>>) = 0
  BY RunsAssumption, LenProperties, CoresAssumption, FS_CardinalityType, EmptySeq
     DEF IInv, Types, List
<1>3. Blank \in WorkerType /\ worker'[w] = Blank
  <2>1. Blank \in WorkerType
    BY <1>2 DEF Blank, WorkerType, PCs
  <2> QED BY <1>1, <2>1 DEF IInv, Types
<1>4. WorkerInv(w)'
  BY <1>1, <1>2, <1>3
     DEF Blank, WorkerInv, Placed, Based, Filled, Ranged, Listed, Sized, Over,
         Filling, Storing, Reckoning
<1>5. run' \in 0..MaxRuns /\ run' >= run /\ Blank.pc # "storing"
  BY <1>1, <1>2 DEF Blank
<1>6. worker[w].pc # "storing" /\ worker[w].pc # "idle"
  BY <1>1
<1> QED BY <1>1, <1>3, <1>4, <1>5, <1>6, OneStep

-----------------------------------------------------------------------------
(* Every reachable state.                                                  *)

\* Where nothing but proc changes there is nothing to show.
LEMMA OnlyProc ==
  ASSUME IInv, UNCHANGED <<metrics, serial, run, maps, lmap, worker, sent>>
  PROVE  IInv'
<1>1. Types' /\ Past' /\ Alone'
  BY DEF IInv, Types, Past, Alone, Written
<1>2. Answered'
  BY DEF IInv, Answered, SentOK, OwnRowsSummed, ComputedAsNamed, OverAll
<1>3. ASSUME NEW w \in Workers PROVE WorkerInv(w)'
  <2>1. WorkerInv(w) /\ worker'[w] = worker[w]
    BY DEF IInv
  <2>2. Placed(w)' /\ Based(w)' /\ Filled(w)'
    BY <2>1 DEF WorkerInv, Placed, Based, Filled, Metric
  <2>3. Ranged(w)' /\ Listed(w)'
    BY <2>1 DEF WorkerInv, Ranged, Listed, Over, Seen, Metric
  <2>4. Sized(w)'
    BY <2>1 DEF WorkerInv, Sized, Seen, Present
  <2> QED BY <2>2, <2>3, <2>4 DEF WorkerInv
<1> QED BY <1>1, <1>2, <1>3 DEF IInv

LEMMA Initially == Init => IInv
<1> SUFFICES ASSUME Init PROVE IInv
  OBVIOUS
<1>1. /\ <<>> \in List /\ Len(<<>>) = 0 /\ <<>> \in Seq(MapType)
      /\ MaxRuns \in Nat /\ Cardinality(Cores) \in Nat
      /\ metrics \in Seq(MetricType) /\ Len(metrics) \in Nat
  BY RunsAssumption, ConfigsAssumption, CoresAssumption, FS_CardinalityType, EmptySeq,
     LenProperties DEF Init, List
<1>2. \A w \in Workers : worker[w] = Blank /\ sent[w].metric = 0 /\ sent[w].list = <<>>
  BY DEF Init
<1>3. Types
  <2>1. Blank \in WorkerType
    BY <1>1 DEF Blank, WorkerType, PCs
  <2> QED BY <1>1, <2>1 DEF Init, Types
<1>4. Past /\ Alone
  BY <1>1, <1>2 DEF Init, Past, Alone, Blank
<1>5. Answered
  BY <1>1, <1>2 DEF Init, Answered, SentOK, OwnRowsSummed, ComputedAsNamed, OverAll
<1>6. ASSUME NEW w \in Workers PROVE WorkerInv(w)
  BY <1>1, <1>2
     DEF Init, Blank, WorkerInv, Placed, Based, Filled, Ranged, Listed, Sized, Over,
         Filling, Storing, Reckoning
<1> QED BY <1>3, <1>4, <1>5, <1>6 DEF IInv

LEMMA Preserved == IInv /\ [Next]_vars => IInv'
<1> SUFFICES ASSUME IInv, [Next]_vars PROVE IInv'
  OBVIOUS
<1>1. CASE UNCHANGED vars
  BY <1>1, OnlyProc DEF vars
<1>2. CASE Rest
  BY <1>2, OnlyProc DEF Rest, vars
<1>3. ASSUME NEW w \in Workers, Collect(w) PROVE IInv'
  <2>1. CASE QueryFails(w)
    BY <2>1, OnlyProc DEF QueryFails, Die
  <2>2. CASE StoreBegins(w)
    <3>1. CASE proc' = proc
      BY <2>2, <3>1, StoreBeginsStep
    <3>2. CASE proc' # proc
      BY <2>2, <3>2, OnlyProc DEF StoreBegins, Die
    <3> QED BY <3>1, <3>2
  <2> QED BY <1>3, <2>1, <2>2, QueryStep, CheckStep, MakeStep, StoreEndsStep, CollectedStep
          DEF Collect
<1>4. ASSUME NEW w \in Workers, Compute(w) PROVE IInv'
  <2>1. CASE NilExpression(w)
    BY <2>1, OnlyProc DEF NilExpression, Die
  <2>2. CASE ReadCore(w)
    <3>1. CASE proc' = proc
      BY <2>2, <3>1, ReadCoreStep
    <3>2. CASE proc' # proc
      BY <2>2, <3>2, OnlyProc DEF ReadCore, Die
    <3> QED BY <3>1, <3>2
  <2>3. CASE RangeBegins(w)
    <3>1. CASE proc' = proc
      BY <2>3, <3>1, RangeBeginsStep
    <3>2. CASE proc' # proc
      BY <2>3, <3>2, OnlyProc DEF RangeBegins, Die
    <3> QED BY <3>1, <3>2
  <2>4. CASE RangeNext(w)
    <3>1. CASE proc' = proc
      BY <2>4, <3>1, RangeNextStep
    <3>2. CASE proc' # proc
      BY <2>4, <3>2, OnlyProc DEF RangeNext, Die
    <3> QED BY <3>1, <3>2
  <2>5. CASE RangeEnds(w)
    <3>1. CASE proc' = proc
      BY <2>5, <3>1, RangeEndsStep
    <3>2. CASE proc' # proc
      BY <2>5, <3>2, OnlyProc DEF RangeEnds, Die
    <3> QED BY <3>1, <3>2
  <2>6. CASE Evaluate(w)
    <3>1. CASE proc' = proc
      BY <2>6, <3>1, EvaluateStep
    <3>2. CASE proc' # proc
      BY <2>6, <3>2, OnlyProc DEF Evaluate, Die
    <3> QED BY <3>1, <3>2
  <2> QED BY <1>4, <2>1, <2>2, <2>3, <2>4, <2>5, <2>6, MakeListStep, ReturnStep DEF Compute
<1> QED BY <1>1, <1>2, <1>3, <1>4 DEF Next

\* The invariant holds in every reachable state.
LEMMA Inductive == Spec => []IInv
BY Initially, Preserved, PTL DEF Spec

-----------------------------------------------------------------------------
(* The theorems.                                                           *)

\* Rows, lists, sizes and places stay within what the configuration, the cores and the
\* queries so far allow, and a process ends for one of the known reasons.
THEOREM TypeCorrect == Spec => []TypeOK
<1> DEFINE Known == proc \in {"running"} \cup Ends
<1>1. Init => Known
  BY DEF Init
<1>2. Known /\ [Next]_vars => Known'
  <2> SUFFICES ASSUME Known, [Next]_vars PROVE Known'
    OBVIOUS
  <2>1. CASE \E w \in Workers : Collect(w)
    BY <2>1 DEF Collect, Query, QueryFails, CheckMap, MakeMap, StoreBegins, StoreEnds,
        Collected, Die, Ends
  <2>2. CASE \E w \in Workers : Compute(w)
    <3>1. PICK w \in Workers : Compute(w)
      BY <2>2
    <3>2. CASE NilExpression(w) \/ ReadCore(w) \/ MakeList(w) \/ Return(w)
      BY <3>2 DEF NilExpression, ReadCore, MakeList, Return, Die, Ends
    <3>3. CASE RangeBegins(w) \/ RangeNext(w) \/ RangeEnds(w)
      BY <3>3 DEF RangeBegins, RangeNext, RangeEnds, Die, Ends
    <3>4. CASE Evaluate(w)
      BY <3>4 DEF Evaluate, Die, Ends
    <3> QED BY <3>1, <3>2, <3>3, <3>4 DEF Compute
  <2>3. CASE Rest \/ UNCHANGED vars
    BY <2>3 DEF Rest, vars
  <2> QED BY <2>1, <2>2, <2>3 DEF Next
<1>3. ASSUME IInv, Known PROVE TypeOK
  <2>1. /\ metrics \in Configs /\ serial \in BOOLEAN /\ run \in 0..MaxRuns
        /\ MaxRuns \in Nat /\ Len(maps) \in Nat /\ lmap = Len(maps)
        /\ Len(metrics) \in Nat
    BY <1>3, RunsAssumption, LenProperties DEF IInv, Types
  <2>2. ASSUME NEW k \in 1..Len(maps)
        PROVE  maps[k].rows \in [Cores -> 0..run] /\ maps[k].writers \subseteq Workers
    <3>1. maps[k] \in MapType
      BY <1>3, ElementOfSeq DEF IInv, Types
    <3>2. \A c \in Cores : maps[k].rows[c] \in 0..run
      BY <1>3, <2>1, <3>1 DEF IInv, Past, MapType
    <3> QED BY <3>1, <3>2 DEF MapType
  <2>3. Cardinality(Cores) \in Nat
    BY CoresAssumption, FS_CardinalityType
  <2>4. ASSUME NEW w \in Workers
        PROVE  /\ worker[w].pc \in PCs /\ worker[w].run \in 0..run
               /\ worker[w].todo \subseteq worker[w].rows /\ worker[w].rows \subseteq Cores
               /\ worker[w].list \in List /\ worker[w].must \subseteq Cores
               /\ worker[w].size \in 0..Cardinality(Cores)
               /\ worker[w].iter \in 0..Len(maps) /\ worker[w].base \in 0..Len(maps)
               /\ worker[w].next \in 1..Len(metrics) + 1
    <3>1. worker[w] \in WorkerType /\ Placed(w) /\ Based(w) /\ Sized(w)
      BY <1>3 DEF IInv, Types, WorkerInv
    <3>2. /\ worker[w].run \in 0..run /\ worker[w].next \in 1..Len(metrics) + 1
          /\ worker[w].todo \subseteq worker[w].rows
      BY <2>1, <3>1 DEF WorkerType, Placed
    <3>3. worker[w].iter \in 0..Len(maps) /\ worker[w].base \in 0..Len(maps)
      BY <2>1, <3>1 DEF WorkerType, Based
    <3>4. worker[w].size \in 0..Cardinality(Cores)
      BY <2>3, <3>1 DEF WorkerType, Sized
    <3> QED BY <3>1, <3>2, <3>3, <3>4 DEF WorkerType
  <2>5. \A w \in Workers : sent[w].list \in List /\ sent[w].metric \in 0..Len(metrics)
    BY <1>3 DEF IInv, Answered, SentOK
  <2> QED BY <1>3, <2>1, <2>2, <2>4, <2>5 DEF TypeOK
<1> QED BY <1>1, <1>2, <1>3, Inductive, PTL DEF Spec

\* What a scrape computes over all cores has every core of its own query, unless another
\* scrape replaced the map, with the row of its own query if the scrapes come one at a
\* time (tcpu.go lines 211-217 and 57-62).
THEOREM OwnRowsAlwaysSummed == Spec => []OwnRowsSummed
<1>1. IInv => OwnRowsSummed
  BY DEF IInv, Answered
<1> QED BY <1>1, Inductive, PTL

\* With one scrape at a time a function over all cores is what its name says of one
\* reading for each core in its list (templatefunctions.go lines 22-86).
THEOREM AlwaysComputedAsNamed == Spec => []ComputedAsNamed
<1>1. IInv => ComputedAsNamed
  BY DEF IInv, Answered
<1> QED BY <1>1, Inductive, PTL

\* With one scrape at a time nobody else's write is under way.
LEMMA NotWritten ==
  ASSUME IInv, serial, NEW w \in Workers, worker[w].pc # "idle", worker[w].pc # "storing",
         NEW k \in 1..Len(maps)
  PROVE  ~Written(k)
BY DEF IInv, Alone

\* Then a scrape of well-typed metrics does not end the process once its query is done.
LEMMA StaysUp ==
  ASSUME IInv, serial, \A i \in 1..Len(metrics) : WellTyped(metrics[i]),
         NEW w \in Workers, Collect(w) \/ Compute(w)
  PROVE  proc' = proc \/ proc' = "nil template"
<1>1. worker[w].pc \in Filling => lmap \in 1..Len(maps)
  BY Reads
<1>2. StoreBegins(w) => proc' = proc
  <2> SUFFICES ASSUME StoreBegins(w), Written(lmap) PROVE FALSE
    BY DEF StoreBegins
  <2>1. worker[w].pc = "store"
    BY DEF StoreBegins, At
  <2> QED BY <1>1, <2>1, NotWritten DEF Filling, Storing
<1>3. ASSUME worker[w].pc = "metric", worker[w].next <= Len(metrics)
      PROVE  WellTyped(Metric(w))
  BY <1>3, MetricOf DEF IInv, Metric
<1>4. ~NilExpression(w)
  BY <1>3 DEF NilExpression, At, WellTyped
<1>5. ReadCore(w) => proc' = proc
  <2> SUFFICES ASSUME ReadCore(w), Written(lmap) PROVE FALSE
    BY DEF ReadCore
  <2>1. worker[w].pc = "metric"
    BY DEF ReadCore, Computes, At
  <2> QED BY <1>1, <2>1, NotWritten DEF Filling
<1>6. RangeBegins(w) => proc' = proc
  <2> SUFFICES ASSUME RangeBegins(w), Written(lmap) PROVE FALSE
    BY DEF RangeBegins
  <2>1. worker[w].pc = "list"
    BY DEF RangeBegins, At
  <2> QED BY <1>1, <2>1, NotWritten DEF Filling, Reckoning
<1>7. ASSUME worker[w].pc = "range" PROVE worker[w].iter = lmap /\ ~Written(lmap)
  <2>1. worker[w].pc \in Filling /\ WorkerInv(w)
    BY <1>7 DEF Filling, Reckoning, IInv
  <2>2. worker[w].iter = lmap
    BY <1>7, <2>1 DEF WorkerInv, Based, Ranged, Over
  <2> QED BY <1>1, <1>7, <2>1, <2>2, NotWritten
<1>8. RangeNext(w) => proc' = proc
  <2> SUFFICES ASSUME RangeNext(w), proc' # proc PROVE FALSE
    OBVIOUS
  <2>1. worker[w].pc = "range"
    BY DEF RangeNext, At
  <2>2. PICK c \in Present(lmap) \ Seen(w) : Len(worker[w].list) >= worker[w].size
    BY <1>7, <2>1 DEF RangeNext
  <2>3. WorkerInv(w) /\ worker[w] \in WorkerType /\ lmap # 0
    BY <2>1, Reads DEF IInv, Filling, Reckoning
  <2>4. Cardinality(Seen(w)) = Len(worker[w].list)
    BY <2>3, OneEach DEF WorkerType, WorkerInv, Listed, Seen
  <2>5. Seen(w) \subseteq Present(lmap) /\ worker[w].size = Cardinality(Present(lmap))
    BY <2>1, <2>3 DEF WorkerInv, Sized
  <2>6. IsFiniteSet(Present(lmap)) /\ Cardinality(Present(lmap)) \in Nat
    BY <2>3, CurrentMap DEF IInv
  <2>7. Cardinality(Seen(w)) < Cardinality(Present(lmap))
    <3>1. Seen(w) # Present(lmap)
      BY <2>2
    <3> QED BY <2>5, <2>6, <3>1, FS_Subset, FS_CardinalityType
  <2> QED BY <2>2, <2>4, <2>5, <2>6, <2>7, FS_CardinalityType
<1>9. RangeEnds(w) => proc' = proc
  BY <1>7 DEF RangeEnds, At
<1>10. Evaluate(w) => proc' = proc
  <2> SUFFICES ASSUME Evaluate(w) PROVE ~Refused(w) /\ ~Metric(w).nested
    BY DEF Evaluate
  <2>1. worker[w].pc = "eval"
    BY DEF Evaluate, At
  <2>2. WorkerInv(w) /\ worker[w] \in WorkerType
    BY DEF IInv, Types
  <2>3. worker[w].next <= Len(metrics) /\ Len(worker[w].list) = worker[w].size
    BY <2>1, <2>2 DEF WorkerInv, Placed, Sized, Reckoning
  <2>4. WellTyped(Metric(w))
    BY <2>3, MetricOf DEF IInv, Metric
  <2>5. Len(worker[w].list) \in Nat
    BY <2>2, LenProperties DEF WorkerType, List
  <2> QED BY <2>3, <2>4, <2>5 DEF Refused, WellTyped
<1>11. QueryFails(w) => proc' = "nil template"
  BY DEF QueryFails, Die
<1> QED BY <1>2, <1>4, <1>5, <1>6, <1>8, <1>9, <1>10, <1>11
        DEF Collect, Compute, Query, CheckMap, MakeMap, StoreEnds, Collected, MakeList,
            Return

\* One scrape at a time, of well-typed metrics, only ever fails on the query: no core that
\* comes or goes makes the list too short, leaves a hole in it or is written meanwhile
\* (tcpu.go lines 53-64 and 207-219).
THEOREM OnlyTheQueryFails == Spec => []OnlyQueryFails
<1>1. Init => OnlyQueryFails
  BY DEF Init, OnlyQueryFails
<1>2. IInv /\ OnlyQueryFails /\ [Next]_vars => OnlyQueryFails'
  <2> SUFFICES ASSUME IInv, OnlyQueryFails, [Next]_vars, serial',
                      (\A i \in 1..Len(metrics) : WellTyped(metrics[i]))'
               PROVE  proc' \in {"running", "nil template"}
    BY DEF OnlyQueryFails
  <2>1. UNCHANGED <<metrics, serial>>
    BY DEF Next, Collect, Compute, Rest, Query, QueryFails, CheckMap, MakeMap, StoreBegins,
           StoreEnds, Collected, NilExpression, ReadCore, MakeList, RangeBegins, RangeNext,
           RangeEnds, Evaluate, Return, Die, vars
  <2>2. serial /\ (\A i \in 1..Len(metrics) : WellTyped(metrics[i]))
    BY <2>1
  <2>3. proc \in {"running", "nil template"}
    BY <2>2 DEF OnlyQueryFails
  <2>4. proc' = proc \/ proc' = "nil template"
    BY <2>2, StaysUp DEF Next, Rest, vars
  <2> QED BY <2>3, <2>4
<1> QED BY <1>1, <1>2, Inductive, PTL DEF Spec
=============================================================================
