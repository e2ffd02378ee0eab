--------------------------- MODULE TagLabelsProofs ---------------------------
(***************************************************************************)
(* Proofs about TagLabels, for any tags and families, any number of        *)
(* goroutines and of refreshes.                                            *)
(***************************************************************************)
EXTENDS TagLabels, FiniteSetTheorems, SequenceTheorems, TLAPS

-----------------------------------------------------------------------------
(* The types, whatever an append has written over.                         *)

\* Slice variables that point to one of the first n arrays.
Heads(n) == [len : {0, N}, cap : {0, Grown(N)}, arr : 0..n]

\* The refresher and what it writes.
Slices ==
  /\ Tags \subseteq AllTags
  /\ proc \in {"running", "nil map", "nil slice", "cardinality"}
  /\ refresher \in {"idle", "names", "namesPtr", "values", "valuesPtr"}
  /\ fresh \in [names : Orders \cup {<<>>}, values : Seq(AllValues)]
  /\ Len(fresh.values) \in {0, N}
  /\ names \in Heads(1) /\ values \in Heads(Len(valArr))
  /\ nameArr \in Seq(AllNames \cup {Blank})
  /\ valArr \in Seq(Seq(AllValues)) /\ Len(valArr) \in 0..MaxFetches
  /\ \A k \in 1..Len(valArr) : Len(valArr[k]) = Grown(N)

\* How far the refresher has come.
Phases ==
  /\ refresher \in {"names", "namesPtr"} => fresh.names \in Orders /\ names.arr = 0
  /\ refresher # "idle" => Len(fresh.values) = N /\ Len(valArr) < MaxFetches
  /\ refresher = "namesPtr" => names.len = N
  /\ refresher \in {"values", "valuesPtr"} => N = 0 \/ names.arr = 1
  /\ names.len # 0 /\ refresher # "namesPtr" => names.arr = 1
  /\ Len(valArr) # 0 => names.arr = 1
  /\ names.arr = 1 =>
       /\ N # 0 /\ names.len = N /\ Len(nameArr) = Grown(N)
       /\ \A i \in 1..N : nameArr[i] \in AllNames

\* The descriptors: one that shares the names' array finds names in it, and no blank.
Descs ==
  /\ builder \in [pc : {"idle", "load"}, old : Heads(names.arr)]
  /\ builder.pc = "load" => Len(desc) < Len(Own)
  /\ desc \in Seq([arr : {0, 1}, was : Seq(AllNames)])
  /\ Len(desc) \in 0..Len(Own) /\ Len(Own) \in Nat
  /\ \A f \in 1..Len(desc) : desc[f].arr = 1 =>
       /\ names.arr = 1 /\ Len(desc[f].was) <= Len(nameArr)
       /\ \A i \in 1..Len(desc[f].was) : nameArr[i] \in AllNames
  /\ mixed \in BOOLEAN

\* The goroutines: one that shares an array of values finds so many values in it.
Row == [pc : {"idle", "load", "make"}, old : Heads(values.arr), family : 0..Len(Own),
        arr : 0..Len(valArr), was : Seq(AllValues), over : BOOLEAN]
Rows ==
  /\ worker \in [Workers -> Row]
  /\ \A w \in Workers :
       /\ worker[w].arr # 0 => Len(worker[w].was) <= Grown(N)
       /\ worker[w].pc # "idle" => Len(desc) = Len(Own)
       /\ worker[w].pc = "make" => worker[w].family \in Families
  /\ metric \in [Workers -> [family : 0..Len(Own), over : BOOLEAN,
                             pairs : SUBSET (AllNames \X AllValues)]]
  /\ \A w \in Workers : metric[w].family # 0 => Len(desc) = Len(Own)

Types == Slices /\ Phases /\ Descs /\ Rows

-----------------------------------------------------------------------------
(* Slices and arrays.                                                      *)

\* There are at most sixteen tags.
LEMMA Size ==
  ASSUME Tags \subseteq AllTags
  PROVE  N \in 0..16 /\ IsFiniteSet(Tags) /\ (N = 0 <=> Tags = {})
<1>1. IsFiniteSet(Tags) /\ N <= Cardinality(AllTags)
  BY TagsAssumption, FS_Subset DEF N
<1>2. N \in Nat /\ Cardinality(AllTags) \in Nat
  BY <1>1, TagsAssumption, FS_CardinalityType DEF N
<1>3. N = 0 <=> Tags = {}
  BY <1>1, FS_EmptySet DEF N
<1> QED BY <1>1, <1>2, <1>3, TagsAssumption

\* One pass over the map of the tags gives each of them.
LEMMA OnePass ==
  ASSUME Tags \subseteq AllTags, NEW o \in Orders
  PROVE  /\ o \in Seq(AllTags) /\ Len(o) = N /\ \A i \in 1..N : o[i] \in Tags
         /\ \A t \in Tags : \E i \in 1..N : o[i] = t
<1>1. N \in Nat /\ IsFiniteSet(Tags)
  BY Size
<1>2. o \in [1..N -> Tags] /\ \A i, j \in 1..N : i # j => o[i] # o[j]
  BY DEF Orders
<1>3. IsFiniteSet(1..N) /\ Cardinality(1..N) = N
  BY <1>1, FS_Interval
<1>4. o \in Injection(1..N, Tags)
  BY <1>2 DEF Injection, IsInjective
<1>5. o \in Surjection(1..N, Tags)
  BY <1>1, <1>3, <1>4, FS_Injection DEF N
<1>6. \A t \in Tags : \E i \in 1..N : o[i] = t
  BY <1>5 DEF Surjection
<1>7. o \in Seq(AllTags) /\ Len(o) = N
  <2>1. o \in [1..N -> AllTags]
    BY <1>2
  <2> QED BY <1>1, <2>1, SeqDef
<1> QED BY <1>2, <1>6, <1>7

\* The capacity that append leaves is enough.
LEMMA Capacity ==
  ASSUME NEW n \in 0..16
  PROVE  Grown(n) \in Nat /\ n <= Grown(n)
<1>1. CASE n = 0
  BY <1>1 DEF Grown
<1>2. CASE n # 0
  <2> DEFINE Big(c) == c >= n /\ c < 2 * n
  <2>1. \E c \in {1, 2, 4, 8, 16} : Big(c)
    <3>1. \/ n = 1 \/ n = 2 \/ n \in 3..4 \/ n \in 5..8 \/ n \in 9..16
      BY <1>2
    <3>2. n = 1 => Big(1)
      OBVIOUS
    <3>3. n = 2 => Big(2)
      OBVIOUS
    <3>4. n \in 3..4 => Big(4)
      OBVIOUS
    <3>5. n \in 5..8 => Big(8)
      OBVIOUS
    <3>6. n \in 9..16 => Big(16)
      OBVIOUS
    <3> QED BY <3>1, <3>2, <3>3, <3>4, <3>5, <3>6
  <2>2. Grown(n) = CHOOSE c \in {1, 2, 4, 8, 16} : Big(c)
    BY <1>2 DEF Grown
  <2> HIDE DEF Big
  <2>3. Grown(n) \in {1, 2, 4, 8, 16} /\ Big(Grown(n))
    BY <2>1, <2>2
  <2> QED BY <2>3 DEF Big
<1> QED BY <1>1, <1>2

\* Growing to a power of two leaves no room.
LEMMA GrownExact ==
  ASSUME NEW n \in {0, 1, 2, 4, 8, 16}
  PROVE  Grown(n) = n
<1>1. CASE n = 0
  BY <1>1 DEF Grown
<1>2. CASE n # 0
  <2> DEFINE Big(c) == c >= n /\ c < 2 * n
  <2>1. \A c \in {1, 2, 4, 8, 16} : Big(c) <=> c = n
    BY <1>2
  <2>2. Grown(n) = CHOOSE c \in {1, 2, 4, 8, 16} : Big(c)
    BY <1>2 DEF Grown
  <2>3. n \in {1, 2, 4, 8, 16}
    BY <1>2
  <2> HIDE DEF Big
  <2> QED BY <2>1, <2>2, <2>3
<1> QED BY <1>1, <1>2

\* A slice's array begins with its elements, and is blank after them.
LEMMA SliceArray ==
  ASSUME NEW S, Blank \in S, NEW s \in Seq(S), Len(s) <= 16
  PROVE  /\ Slice(s) \in Seq(S) /\ Len(s) <= Len(Slice(s))
         /\ \A i \in 1..Len(s) : Slice(s)[i] = s[i]
         /\ \A i \in Len(s)+1..Len(Slice(s)) : Slice(s)[i] = Blank
<1>0. Len(s) \in 0..16
  <2>1. Len(s) \in Nat
    BY LenProperties
  <2>2. \A n \in Nat : n <= 16 => n \in 0..16
    OBVIOUS
  <2> QED BY <2>1, <2>2
<1> DEFINE k == Grown(Len(s)) - Len(s)
           rest == [i \in 1..k |-> Blank]
<1>1. Len(s) \in Nat /\ k \in Nat
  <2>1. Grown(Len(s)) \in Nat /\ Len(s) <= Grown(Len(s))
    BY <1>0, Capacity
  <2> QED BY <1>0, <2>1
<1>2. rest \in [1..k -> S]
  OBVIOUS
<1>3. rest \in Seq(S) /\ Len(rest) = k
  BY <1>1, <1>2, SeqDef
<1>4. Slice(s) = s \o rest
  BY DEF Slice
<1> HIDE DEF rest, k
<1>5. /\ Slice(s) \in Seq(S) /\ Len(Slice(s)) = Len(s) + k
      /\ \A i \in 1..(Len(s) + k) :
           Slice(s)[i] = IF i <= Len(s) THEN s[i] ELSE rest[i - Len(s)]
  BY <1>3, <1>4, ConcatProperties, SMTT(30)
<1>6. \A i \in 1..k : rest[i] = Blank
  BY DEF rest
<1> QED BY <1>1, <1>5, <1>6

\* append into an array with room puts its own elements behind the first n and leaves
\* everything else alone.
LEMMA PutArray ==
  ASSUME NEW S, NEW arr \in Seq(S), NEW own \in Seq(S), NEW n \in Nat,
         n + Len(own) <= Len(arr)
  PROVE  /\ Put(arr, n, own) \in Seq(S) /\ Len(Put(arr, n, own)) = Len(arr)
         /\ \A i \in 1..Len(arr) :
              IF i \in n+1..n+Len(own) THEN Put(arr, n, own)[i] = own[i - n]
              ELSE Put(arr, n, own)[i] = arr[i]
         /\ \A i \in 1..Len(own) : Put(arr, n, own)[n + i] = own[i]
<1> DEFINE p == Put(arr, n, own)
<1>1. Len(arr) \in Nat /\ Len(own) \in Nat
  BY LenProperties
<1>2. p = [i \in 1..Len(arr) |-> IF i \in n+1..n+Len(own) THEN own[i - n] ELSE arr[i]]
  BY DEF Put
<1>3. \A i \in 1..Len(arr) : p[i] = IF i \in n+1..n+Len(own) THEN own[i - n] ELSE arr[i]
  BY <1>2
<1>4. \A i \in 1..Len(arr) : i \in n+1..n+Len(own) => i - n \in 1..Len(own)
  BY <1>1
<1>5. \A i \in 1..Len(arr) : p[i] \in S
  BY <1>3, <1>4, ElementOfSeq
<1>6. p \in [1..Len(arr) -> S]
  BY <1>2, <1>5
<1>7. p \in Seq(S) /\ Len(p) = Len(arr)
  BY <1>1, <1>6, SeqDef
<1>8. ASSUME NEW i \in 1..Len(own) PROVE p[n + i] = own[i]
  <2>1. n + i \in 1..Len(arr) /\ n + i \in n+1..n+Len(own) /\ (n + i) - n = i
    BY <1>1
  <2> QED BY <1>3, <2>1
<1> QED BY <1>3, <1>7, <1>8

\* What append returns: the array's first n elements, then its own.
LEMMA Appended ==
  ASSUME NEW T, NEW arr \in Seq(T), NEW n \in 0..Len(arr),
         NEW S, \A i \in 1..n : arr[i] \in S, NEW own \in Seq(S)
  PROVE  /\ SubSeq(arr, 1, n) \o own \in Seq(S)
         /\ Len(SubSeq(arr, 1, n) \o own) = n + Len(own)
         /\ \A i \in 1..n : (SubSeq(arr, 1, n) \o own)[i] = arr[i]
         /\ \A i \in 1..Len(own) : (SubSeq(arr, 1, n) \o own)[n + i] = own[i]
<1> DEFINE front == SubSeq(arr, 1, n)
<1>1. n \in Nat /\ Len(arr) \in Nat /\ Len(own) \in Nat
  BY LenProperties
<1>2. front \in Seq(S) /\ Len(front) = n /\ \A i \in 1..n : front[i] = arr[i]
  BY <1>1, SubSeqProperties
<1> HIDE DEF front
<1>3. /\ front \o own \in Seq(S) /\ Len(front \o own) = n + Len(own)
      /\ \A i \in 1..(n + Len(own)) :
           (front \o own)[i] = IF i <= n THEN front[i] ELSE own[i - n]
  BY <1>2, ConcatProperties
<1>4. \A i \in 1..n : (front \o own)[i] = arr[i]
  BY <1>1, <1>2, <1>3
<1>5. \A i \in 1..Len(own) : (front \o own)[n + i] = own[i]
  BY <1>1, <1>3
<1> QED BY <1>3, <1>4, <1>5 DEF front

\* append of nothing writes nothing.
LEMMA PutNothing ==
  ASSUME NEW S, NEW arr \in Seq(S), NEW n \in Nat, NEW own \in Seq(S), Len(own) = 0
  PROVE  Put(arr, n, own) = arr
<1>1. Put(arr, n, own) = [i \in 1..Len(arr) |-> arr[i]]
  <2>1. \A i \in 1..Len(arr) : i \notin n+1..n+Len(own)
    BY LenProperties
  <2> QED BY <2>1 DEF Put
<1>2. arr = [i \in 1..Len(arr) |-> arr[i]]
  BY SeqDef, LenProperties
<1> QED BY <1>1, <1>2

\* A family's own label names and a row's values of them.
LEMMA OwnTyped ==
  ASSUME NEW f \in Families
  PROVE  /\ Own[f] \in Seq(AllNames) /\ Len(Own[f]) \in Nat
         /\ \A i \in 1..Len(Own[f]) : Own[f][i] \in OwnNames
         /\ \A w \in Workers :
              /\ OwnValues(w, f) \in Seq(AllValues) /\ Len(OwnValues(w, f)) = Len(Own[f])
              /\ \A i \in 1..Len(Own[f]) : /\ OwnValues(w, f)[i] = OwnValue(w, Own[f][i])
                                           /\ OwnValues(w, f)[i] \in Workers \X OwnNames
<1>1. Own[f] \in Seq(OwnNames)
  BY OwnAssumption, ElementOfSeq DEF Families
<1>2. Own[f] \in Seq(AllNames)
  BY <1>1, SeqMonotonic DEF AllNames
<1>3. Len(Own[f]) \in Nat /\ \A i \in 1..Len(Own[f]) : Own[f][i] \in OwnNames
  BY <1>1, LenProperties, ElementOfSeq
<1>4. ASSUME NEW w \in Workers
      PROVE  /\ OwnValues(w, f) \in Seq(AllValues) /\ Len(OwnValues(w, f)) = Len(Own[f])
             /\ \A i \in 1..Len(Own[f]) : /\ OwnValues(w, f)[i] = OwnValue(w, Own[f][i])
                                          /\ OwnValues(w, f)[i] \in Workers \X OwnNames
  <2>1. \A i \in 1..Len(Own[f]) : /\ OwnValues(w, f)[i] = OwnValue(w, Own[f][i])
                                  /\ OwnValues(w, f)[i] \in Workers \X OwnNames
    BY <1>3 DEF OwnValue, OwnValues
  <2>2. OwnValues(w, f) \in [1..Len(Own[f]) -> AllValues]
    BY <1>3 DEF OwnValues, OwnValue, AllValues
  <2> QED BY <1>3, <2>1, <2>2, SeqDef
<1> QED BY <1>2, <1>3, <1>4

\* The tags stay what they are, and so do the sets made of them.
LEMMA SameTags ==
  ASSUME Tags' = Tags
  PROVE  /\ N' = N /\ AllNames' = AllNames /\ AllValues' = AllValues /\ Orders' = Orders
         /\ \A n : Heads(n)' = Heads(n)
BY DEF N, AllNames, AllValues, Orders, Heads, TagValue

\* What a load finds, when the append after it does not panic: no length without an
\* array, and room for what is written in place.
LEMMA Load ==
  ASSUME Tags \subseteq AllTags, NEW a \in Nat, NEW now \in Heads(a),
         NEW old \in Heads(now.arr), NEW h \in Loaded(old, now), NEW k \in Nat,
         ~NilDeref(h, k)
  PROVE  /\ h.len \in {0, N} /\ h.len \in Nat /\ h.arr \in 0..now.arr
         /\ h.arr = 0 => h.len = 0
         /\ Shared(h, k) \in {0, h.arr} /\ Shared(h, k) \in 0..now.arr
         /\ Shared(h, k) # 0 => h.arr # 0 /\ h.len + k <= Grown(N)
         /\ ~Over(h, k) /\ Shared(h, k) # 0 => h.len = N \/ k = 0
<1>1. N \in 0..16 /\ Grown(N) \in Nat /\ N <= Grown(N)
  BY Size, Capacity
<1>2. /\ now.arr \in Nat /\ old.arr \in 0..now.arr
      /\ old.len \in {0, N} /\ now.len \in {0, N}
      /\ old.cap \in {0, Grown(N)} /\ now.cap \in {0, Grown(N)}
  BY DEF Heads
<1>3. h.len \in {0, N} /\ h.cap \in {0, Grown(N)} /\ h.arr \in 0..now.arr
  BY <1>2 DEF Loaded
<1>4. h.arr = 0 => h.len = 0
  BY <1>1, <1>3 DEF NilDeref
<1>5. Shared(h, k) # 0 => h.arr # 0 /\ h.len + k <= h.cap /\ Shared(h, k) = h.arr
  BY DEF Shared, InPlace
<1>6. h.cap <= Grown(N)
  BY <1>1, <1>3
<1>7. Shared(h, k) # 0 => h.len + k <= Grown(N)
  BY <1>1, <1>3, <1>5, <1>6
<1>8. ~Over(h, k) /\ Shared(h, k) # 0 => h.len = N \/ k = 0
  BY <1>3 DEF Over
<1> QED BY <1>1, <1>2, <1>3, <1>4, <1>5, <1>7, <1>8 DEF Shared

\* The bounds of what the refresher writes.
LEMMA Bounds ==
  ASSUME Types
  PROVE  /\ Tags \subseteq AllTags /\ N \in 0..16 /\ Grown(N) \in Nat /\ N <= Grown(N)
         /\ N = 0 <=> Tags = {}
         /\ MaxFetches \in Nat \ {0} /\ Len(valArr) \in Nat /\ Len(valArr) <= MaxFetches
         /\ names \in Heads(1) /\ names.len \in {0, N} /\ names.arr \in {0, 1}
         /\ values \in Heads(Len(valArr)) /\ values.len \in {0, N}
         /\ values.arr \in 0..Len(valArr) /\ values.arr \in Nat
<1>1. Tags \subseteq AllTags
  BY DEF Types, Slices
<1>2. N \in 0..16 /\ Grown(N) \in Nat /\ N <= Grown(N) /\ (N = 0 <=> Tags = {})
  BY <1>1, Size, Capacity
<1>3. MaxFetches \in Nat \ {0}
  BY FetchesAssumption
<1>4. Len(valArr) \in 0..MaxFetches
  BY DEF Types, Slices
<1>5. Len(valArr) \in Nat /\ Len(valArr) <= MaxFetches
  BY <1>3, <1>4
<1>6. names \in Heads(1) /\ values \in Heads(Len(valArr))
  BY DEF Types, Slices
<1>7. names.len \in {0, N} /\ names.arr \in {0, 1}
  BY <1>6 DEF Heads
<1>8. values.len \in {0, N} /\ values.arr \in 0..Len(valArr) /\ values.arr \in Nat
  BY <1>5, <1>6 DEF Heads
<1> QED BY <1>1, <1>2, <1>3, <1>5, <1>6, <1>7, <1>8

\* The tags' places are places of an array.
LEMMA Places ==
  ASSUME Types
  PROVE  /\ N \in Nat /\ Grown(N) \in Nat /\ N <= Grown(N)
         /\ \A i \in 1..N : i \in 1..Grown(N)
<1>1. N \in 0..16 /\ Grown(N) \in Nat /\ N <= Grown(N)
  BY Bounds
<1>2. N \in Nat
  BY <1>1
<1> QED BY <1>1, <1>2

-----------------------------------------------------------------------------
(* The types are kept: the refresher.                                      *)

\* The readers find what they had, as long as no array goes away.
LEMMA ReadersKept ==
  ASSUME Types, UNCHANGED <<Tags, readVars>>,
         names'.arr \in Nat, names.arr <= names'.arr,
         values'.arr \in Nat, values.arr <= values'.arr,
         Len(valArr') \in Nat, Len(valArr) <= Len(valArr'),
         names.arr = 1 => names'.arr = 1 /\ nameArr' = nameArr
  PROVE  Descs' /\ Rows'
<1>1. /\ N' = N /\ AllNames' = AllNames /\ AllValues' = AllValues
      /\ \A n : Heads(n)' = Heads(n)
  BY SameTags
<1>2. UNCHANGED <<builder, desc, worker, metric, mixed>>
  BY DEF readVars
<1>3. names.arr \in Nat /\ values.arr \in Nat /\ Len(valArr) \in Nat
  BY Bounds
<1>4. \A a, b \in Nat : a <= b => Heads(a) \subseteq Heads(b) /\ 0..a \subseteq 0..b
  BY DEF Heads
<1>5. Heads(names.arr) \subseteq Heads(names'.arr) /\ Heads(values.arr) \subseteq Heads(values'.arr)
  BY <1>3, <1>4
<1>6. Descs'
  <2>1. builder' \in [pc : {"idle", "load"}, old : Heads(names'.arr)]
    BY <1>2, <1>5 DEF Types, Descs
  <2>2. \A f \in 1..Len(desc) : desc[f].arr = 1 =>
          /\ names'.arr = 1 /\ Len(desc[f].was) <= Len(nameArr')
          /\ \A i \in 1..Len(desc[f].was) : nameArr'[i] \in AllNames
    BY DEF Types, Descs
  <2>3. Heads(names.arr)' = Heads(names'.arr)
    BY <1>1 DEF Heads
  <2> QED BY <1>1, <1>2, <2>1, <2>2, <2>3 DEF Types, Descs
<1>7. Rows'
  <2>1. Row \subseteq Row'
    <3>1. Row' = [pc : {"idle", "load", "make"}, old : Heads(values'.arr), family : 0..Len(Own),
                  arr : 0..Len(valArr'), was : Seq(AllValues), over : BOOLEAN]
      BY <1>1 DEF Row, Heads
    <3> QED BY <1>3, <1>4, <1>5, <3>1 DEF Row
  <2>2. worker' \in [Workers -> Row']
    BY <1>2, <2>1 DEF Types, Rows
  <2> QED BY <1>1, <1>2, <2>2 DEF Types, Rows
<1> QED BY <1>6, <1>7

\* The refresher's slices have the tags' names and values, or no value.
LEMMA FetchTyped ==
  ASSUME Types, FirstFetch \/ NextFetch
  PROVE  Types'
<1>0. N \in 0..16 /\ (N = 0 <=> Tags = {}) /\ Tags' = Tags
  BY Bounds DEF FirstFetch, NextFetch
<1>1. /\ N' = N /\ AllNames' = AllNames /\ AllValues' = AllValues /\ Orders' = Orders
      /\ \A n : Heads(n)' = Heads(n)
  BY <1>0, SameTags
<1>2. UNCHANGED <<Tags, proc, names, values, nameArr, valArr, readVars>>
  BY DEF FirstFetch, NextFetch
<1>3. ASSUME NEW v, v \in [1..N -> AllValues] PROVE v \in Seq(AllValues) /\ Len(v) = N
  BY <1>0, <1>3, SeqDef
<1>4. /\ fresh' \in [names : Orders \cup {<<>>}, values : Seq(AllValues)]
      /\ Len(fresh'.values) = N /\ refresher' \in {"names", "values"}
      /\ refresher' = "names" => fresh'.names \in Orders /\ names.arr = 0
      /\ refresher' = "values" => names.arr = 1
      /\ Len(valArr) < MaxFetches /\ (names.len # 0 => names.arr = 1)
  <2>1. CASE FirstFetch
    <3>1. PICK o \in Orders :
            fresh' = [names |-> o, values |-> [i \in 1..N |-> TagValue(o[i])]]
      BY <2>1 DEF FirstFetch
    <3>2. [i \in 1..N |-> TagValue(o[i])] \in [1..N -> AllValues]
      BY DEF Orders, AllValues
    <3>3. names.arr = 0
      BY <2>1, Bounds DEF FirstFetch, Types, Phases
    <3> QED BY <1>3, <2>1, <3>1, <3>2, <3>3 DEF FirstFetch
  <2>2. CASE NextFetch
    <3>1. names.arr = 1 /\ refresher' = "values" /\ Len(valArr) < MaxFetches
      BY <1>0, <2>2, Bounds DEF NextFetch, Types, Phases
    <3>2. [i \in 1..N |-> LookUp(nameArr[i])] \in [1..N -> AllValues]
      BY DEF LookUp, AllValues
    <3>3. fresh' = [fresh EXCEPT !.values = [i \in 1..N |-> LookUp(nameArr[i])]]
      BY <2>2 DEF NextFetch
    <3> QED BY <1>3, <3>1, <3>2, <3>3 DEF Types, Slices
  <2> QED BY <2>1, <2>2
<1>5. Slices'
  BY <1>1, <1>2, <1>4 DEF Types, Slices
<1>6. Phases'
  BY <1>1, <1>2, <1>4 DEF Types, Slices, Phases
<1>7. Descs' /\ Rows'
  <2>1. /\ names.arr \in Nat /\ values.arr \in Nat /\ Len(valArr) \in Nat
    BY Bounds
  <2> QED BY <1>2, <2>1, ReadersKept
<1> QED BY <1>5, <1>6, <1>7 DEF Types

\* The lengths are stored before the pointers.
LEMMA LengthTyped ==
  ASSUME Types, StoreNames \/ StoreValues
  PROVE  Types'
<1>0. N \in 0..16 /\ (N = 0 <=> Tags = {}) /\ Tags' = Tags
  BY Bounds DEF StoreNames, StoreValues
<1>1. /\ N' = N /\ AllNames' = AllNames /\ AllValues' = AllValues /\ Orders' = Orders
      /\ \A n : Heads(n)' = Heads(n)
  BY <1>0, SameTags
<1>2. UNCHANGED <<Tags, proc, fresh, nameArr, valArr, readVars>>
  BY DEF StoreNames, StoreValues
<1>3. /\ names \in Heads(1) /\ values \in Heads(Len(valArr)) /\ Len(valArr) \in Nat
      /\ names.arr \in Nat /\ values.arr \in Nat
  BY Bounds
<1>4. /\ names' \in Heads(1) /\ names'.arr = names.arr
      /\ values' \in Heads(Len(valArr)) /\ values'.arr = values.arr
      /\ \/ /\ refresher = "names" /\ refresher' = "namesPtr" /\ names'.len = N
            /\ values' = values
         \/ refresher = "values" /\ refresher' = "valuesPtr" /\ names' = names
  BY <1>3 DEF StoreNames, StoreValues, Heads
<1>5. Slices'
  BY <1>1, <1>2, <1>4 DEF Types, Slices
<1>6. Phases'
  BY <1>1, <1>2, <1>4 DEF Types, Slices, Phases
<1>7. Descs' /\ Rows'
  BY <1>2, <1>3, <1>4, ReadersKept
<1> QED BY <1>5, <1>6, <1>7 DEF Types

\* A slice of as many elements as there are tags, in its array.
LEMMA SliceOf ==
  ASSUME Tags \subseteq AllTags, NEW S, Blank \in S, NEW s \in Seq(S), Len(s) = N
  PROVE  /\ Slice(s) \in Seq(S) /\ Len(Slice(s)) = Grown(N) /\ N <= Grown(N)
         /\ \A i \in 1..N : Slice(s)[i] = s[i]
         /\ \A i \in N+1..Grown(N) : Slice(s)[i] = Blank
<1>1. N \in 0..16 /\ Grown(N) \in Nat /\ N <= Grown(N)
  BY Size, Capacity
<1> DEFINE rest == [i \in 1..(Grown(N) - N) |-> Blank]
<1>2. rest \in Seq(S) /\ Len(rest) = Grown(N) - N
  <2>1. rest \in [1..(Grown(N) - N) -> S] /\ Grown(N) - N \in Nat
    BY <1>1
  <2> HIDE DEF rest
  <2> QED BY <2>1, SeqDef
<1>3. Slice(s) = s \o rest
  BY DEF Slice
<1>4. \A i \in 1..(Grown(N) - N) : rest[i] = Blank
  OBVIOUS
<1> HIDE DEF rest
<1>5. /\ s \o rest \in Seq(S) /\ Len(s \o rest) = N + (Grown(N) - N)
      /\ \A i \in 1..(N + (Grown(N) - N)) :
           (s \o rest)[i] = IF i <= N THEN s[i] ELSE rest[i - N]
  BY <1>2, ConcatProperties
<1>6. \A i \in N+1..Grown(N) : i - N \in 1..(Grown(N) - N) /\ ~(i <= N)
  BY <1>1
<1> QED BY <1>1, <1>3, <1>4, <1>5, <1>6

\* The names' array holds tags' names, and is stored before a descriptor shares it.
LEMMA NamesPointerTyped ==
  ASSUME Types, StoreNamesPointer
  PROVE  Types'
<1>0. N \in 0..16 /\ (N = 0 <=> Tags = {}) /\ Tags' = Tags
  BY Bounds DEF StoreNamesPointer
<1>1. /\ N' = N /\ AllNames' = AllNames /\ AllValues' = AllValues /\ Orders' = Orders
      /\ \A n : Heads(n)' = Heads(n)
  BY <1>0, SameTags
<1>2. /\ UNCHANGED <<Tags, proc, fresh, values, valArr, readVars>>
      /\ refresher = "namesPtr" /\ refresher' = "values" /\ nameArr' = Slice(fresh.names)
      /\ names' = [names EXCEPT !.arr = IF N = 0 THEN 0 ELSE 1]
  BY DEF StoreNamesPointer
<1>3. /\ fresh.names \in Orders /\ names.arr = 0 /\ names.len = N /\ Len(valArr) = 0
      /\ Len(valArr) < MaxFetches
  BY <1>2, Bounds DEF Types, Phases
<1>4. /\ fresh.names \in Seq(AllNames \cup {Blank}) /\ Len(fresh.names) = N
      /\ \A i \in 1..N : fresh.names[i] \in Tags
  <2>1. fresh.names \in [1..N -> Tags]
    BY <1>3 DEF Orders
  <2>2. fresh.names \in Seq(Tags) /\ Len(fresh.names) = N
    <3>1. N \in Nat
      BY Places
    <3> QED BY <2>1, <3>1, SeqDef
  <2>3. Tags \subseteq AllNames \cup {Blank}
    BY DEF AllNames
  <2> QED BY <2>1, <2>2, <2>3, SeqMonotonic
<1>5. /\ nameArr' \in Seq(AllNames \cup {Blank}) /\ Len(nameArr') = Grown(N) /\ N <= Grown(N)
      /\ \A i \in 1..N : nameArr'[i] = fresh.names[i]
  <2>1. Blank \in AllNames \cup {Blank} /\ Tags \subseteq AllTags
    BY DEF Types, Slices
  <2> QED BY <1>2, <1>4, <2>1, SliceOf
<1>6. names' \in Heads(1) /\ names'.len = names.len /\ (names'.arr = 1 <=> N # 0)
  BY <1>2, Bounds DEF Heads
<1>7. Slices'
  BY <1>1, <1>2, <1>5, <1>6 DEF Types, Slices
<1>8. Phases'
  <2>1. \A i \in 1..N : nameArr'[i] \in AllNames
    BY <1>4, <1>5 DEF AllNames
  <2>2. Len(fresh.values) = N
    BY <1>2 DEF Types, Phases
  <2> QED BY <1>0, <1>1, <1>2, <1>3, <1>5, <1>6, <2>1, <2>2 DEF Phases
<1>9. Descs' /\ Rows'
  <2>1. /\ values.arr \in Nat /\ Len(valArr) \in Nat /\ names'.arr \in {0, 1}
    BY <1>6, Bounds DEF Heads
  <2> QED BY <1>2, <1>3, <2>1, ReadersKept
<1> QED BY <1>7, <1>8, <1>9 DEF Types

\* So do the arrays of values with the tags' values.
LEMMA ValuesPointerTyped ==
  ASSUME Types, StoreValuesPointer
  PROVE  Types'
<1>0. N \in 0..16 /\ (N = 0 <=> Tags = {}) /\ Tags' = Tags
  BY Bounds DEF StoreValuesPointer
<1>1. /\ N' = N /\ AllNames' = AllNames /\ AllValues' = AllValues /\ Orders' = Orders
      /\ \A n : Heads(n)' = Heads(n)
  BY <1>0, SameTags
<1>2. /\ UNCHANGED <<Tags, proc, fresh, names, nameArr, readVars>>
      /\ refresher = "valuesPtr" /\ refresher' = "idle"
      /\ \/ N = 0 /\ UNCHANGED <<values, valArr>>
         \/ /\ N # 0 /\ valArr' = Append(valArr, Slice(fresh.values))
            /\ values' = [values EXCEPT !.arr = Len(valArr) + 1]
  BY DEF StoreValuesPointer
<1>3. /\ values \in Heads(Len(valArr)) /\ Len(valArr) \in Nat /\ MaxFetches \in Nat
      /\ valArr \in Seq(Seq(AllValues)) /\ Len(valArr) < MaxFetches
      /\ \A k \in 1..Len(valArr) : Len(valArr[k]) = Grown(N)
      /\ names.arr \in Nat /\ (N # 0 => names.arr = 1)
  <2>1. /\ valArr \in Seq(Seq(AllValues))
        /\ \A k \in 1..Len(valArr) : Len(valArr[k]) = Grown(N)
    BY DEF Types, Slices
  <2>2. Len(valArr) < MaxFetches /\ (N # 0 => names.arr = 1)
    BY <1>2 DEF Types, Phases
  <2> QED BY <2>1, <2>2, Bounds
<1>4. /\ Slice(fresh.values) \in Seq(AllValues) /\ Len(Slice(fresh.values)) = Grown(N)
  <2>1. Blank \in AllValues /\ fresh.values \in Seq(AllValues) /\ Len(fresh.values) = N
    BY <1>2 DEF Types, Slices, Phases, AllValues
  <2>2. Tags \subseteq AllTags
    BY DEF Types, Slices
  <2> QED BY <2>1, <2>2, SliceOf
<1>5. /\ valArr' \in Seq(Seq(AllValues)) /\ Len(valArr') \in 0..MaxFetches
      /\ Len(valArr) <= Len(valArr') /\ values' \in Heads(Len(valArr'))
      /\ values.arr <= values'.arr /\ values'.arr \in Nat
      /\ \A k \in 1..Len(valArr') : Len(valArr'[k]) = Grown(N)
      /\ Len(valArr') # 0 => names.arr = 1
  <2>1. CASE N = 0 /\ UNCHANGED <<values, valArr>>
    <3>1. Len(valArr) # 0 => names.arr = 1
      BY DEF Types, Phases
    <3>2. Len(valArr) \in 0..MaxFetches /\ values.arr \in Nat
      BY <1>3, Bounds
    <3> QED BY <1>3, <2>1, <3>1, <3>2
  <2>2. CASE /\ N # 0 /\ valArr' = Append(valArr, Slice(fresh.values))
             /\ values' = [values EXCEPT !.arr = Len(valArr) + 1]
    <3>1. /\ valArr' \in Seq(Seq(AllValues)) /\ Len(valArr') = Len(valArr) + 1
          /\ \A k \in 1..Len(valArr) : valArr'[k] = valArr[k]
          /\ valArr'[Len(valArr) + 1] = Slice(fresh.values)
      BY <1>3, <1>4, <2>2
    <3>2. \A k \in 1..Len(valArr') : k \in 1..Len(valArr) \/ k = Len(valArr) + 1
      BY <1>3, <3>1
    <3>3. \A k \in 1..Len(valArr') : Len(valArr'[k]) = Grown(N)
      BY <1>3, <1>4, <3>1, <3>2
    <3>4. values' \in Heads(Len(valArr')) /\ values'.arr = Len(valArr) + 1 /\ values.arr <= Len(valArr)
      BY <1>3, <2>2, <3>1 DEF Heads
    <3> QED BY <1>3, <2>2, <3>1, <3>3, <3>4 DEF Heads
  <2> QED BY <1>2, <2>1, <2>2
<1>6. Slices'
  BY <1>1, <1>2, <1>5 DEF Types, Slices
<1>7. Phases'
  BY <1>1, <1>2, <1>5 DEF Types, Phases
<1>8. Descs' /\ Rows'
  BY <1>2, <1>3, <1>5, ReadersKept
<1> QED BY <1>6, <1>7, <1>8 DEF Types

-----------------------------------------------------------------------------
(* The types are kept: the readers.                                        *)

\* One more descriptor, of family g, built from the header h.
BuiltFrom(h, g, a, list) ==
  /\ g = Len(desc) + 1 /\ g \in Families /\ g \in Nat \ {0} /\ g <= Len(Own)
  /\ Own[g] \in Seq(AllNames) /\ Len(Own[g]) \in Nat
  /\ h.len \in {0, N} /\ h.len \in Nat /\ (h.len # 0 => names.arr = 1)
  /\ a \in {0, 1}
  /\ a = 1 => names.arr = 1 /\ h.len + Len(Own[g]) <= Len(nameArr)
  /\ ~mixed' /\ a = 1 => h.len = N \/ Len(Own[g]) = 0
  /\ nameArr' = IF a = 0 THEN nameArr ELSE Put(nameArr, h.len, Own[g])
  /\ mixed' \in BOOLEAN /\ (mixed => mixed')
  /\ list \in Seq(AllNames) /\ Len(list) = h.len + Len(Own[g])
  /\ \A i \in 1..h.len : list[i] = nameArr[i] /\ nameArr[i] \in AllNames
  /\ \A i \in 1..Len(Own[g]) : list[h.len + i] = Own[g][i]
  /\ desc' = Append(desc, [arr |-> a, was |-> list])
  /\ builder' = [pc |-> "idle", old |-> Nil]
  /\ UNCHANGED <<Tags, proc, tagVars, worker, metric>>

\* A descriptor is built without tags' names, or with what stands in their array.
LEMMA BuildReads ==
  ASSUME Types, Build, proc' = proc
  PROVE  \E h, g, a, list : BuiltFrom(h, g, a, list)
<1>1. PICK h \in Loaded(builder.old, names) :
        LET own == Own[Len(desc) + 1]
            k   == Len(own)
        IN  /\ ~NilDeref(h, k)
            /\ nameArr' = IF Shared(h, k) = 0 THEN nameArr ELSE Put(nameArr, h.len, own)
            /\ desc' = Append(desc, [arr |-> Shared(h, k),
                                     was |-> SubSeq(nameArr, 1, h.len) \o own])
            /\ builder' = [pc |-> "idle", old |-> Nil]
            /\ mixed' = (mixed \/ Over(h, k))
            /\ UNCHANGED <<Tags, proc, tagVars, worker, metric>>
  BY DEF Build, Die, Running
<1> DEFINE g == Len(desc) + 1
           k == Len(Own[g])
           a == Shared(h, k)
           list == SubSeq(nameArr, 1, h.len) \o Own[g]
<1>2. g \in Families /\ g \in Nat \ {0} /\ g <= Len(Own)
  <2>1. Len(desc) \in 0..Len(Own) /\ Len(Own) \in Nat /\ Len(desc) < Len(Own)
    BY DEF Types, Descs, Build
  <2> QED BY <2>1 DEF Families
<1>3. Own[g] \in Seq(AllNames) /\ k \in Nat
  BY <1>2, OwnTyped
<1>4. /\ h.len \in {0, N} /\ h.len \in Nat /\ h.arr \in 0..names.arr
      /\ h.arr = 0 => h.len = 0
      /\ a \in {0, h.arr} /\ a \in 0..names.arr
      /\ a # 0 => h.arr # 0 /\ h.len + k <= Grown(N)
      /\ ~Over(h, k) /\ a # 0 => h.len = N \/ k = 0
  <2>1. builder.old \in Heads(names.arr) /\ Tags \subseteq AllTags /\ names \in Heads(1)
    BY Bounds DEF Types, Descs
  <2>2. ~NilDeref(h, k)
    BY <1>1
  <2> HIDE DEF k
  <2> QED BY <1>3, <2>1, <2>2, Load DEF k
<1>5. a \in {0, 1} /\ (h.len # 0 => names.arr = 1) /\ (a = 1 => names.arr = 1)
  BY <1>4, Bounds
<1>6. names.arr = 1 => /\ N # 0 /\ names.len = N /\ Len(nameArr) = Grown(N)
                       /\ \A i \in 1..N : nameArr[i] \in AllNames
  BY DEF Types, Phases
<1>7. nameArr \in Seq(AllNames \cup {Blank}) /\ Len(nameArr) \in Nat
  BY LenProperties DEF Types, Slices
<1>8. h.len \in 0..Len(nameArr) /\ \A i \in 1..h.len : nameArr[i] \in AllNames
  BY <1>4, <1>5, <1>6, <1>7, Bounds
<1>9. /\ list \in Seq(AllNames) /\ Len(list) = h.len + k
      /\ \A i \in 1..h.len : list[i] = nameArr[i]
      /\ \A i \in 1..k : list[h.len + i] = Own[g][i]
  <2>1. ASSUME NEW arr \in Seq(AllNames \cup {Blank}), NEW o \in Seq(AllNames),
               NEW n \in 0..Len(arr), \A i \in 1..n : arr[i] \in AllNames
        PROVE  /\ SubSeq(arr, 1, n) \o o \in Seq(AllNames)
               /\ Len(SubSeq(arr, 1, n) \o o) = n + Len(o)
               /\ \A i \in 1..n : (SubSeq(arr, 1, n) \o o)[i] = arr[i]
               /\ \A i \in 1..Len(o) : (SubSeq(arr, 1, n) \o o)[n + i] = o[i]
    BY <2>1, Appended
  <2> QED BY <1>3, <1>7, <1>8, <2>1
<1>10. mixed \in BOOLEAN
  BY DEF Types, Descs
<1>11. mixed' \in BOOLEAN /\ (mixed => mixed') /\ (~mixed' => ~Over(h, k))
  BY <1>1, <1>10
<1> DEFINE own == Own[g]
<1>12. /\ nameArr' = IF a = 0 THEN nameArr ELSE Put(nameArr, h.len, Own[g])
       /\ desc' = Append(desc, [arr |-> a, was |-> list])
       /\ builder' = [pc |-> "idle", old |-> Nil]
       /\ UNCHANGED <<Tags, proc, tagVars, worker, metric>>
  BY <1>1
<1>13. a = 1 => names.arr = 1 /\ h.len + k <= Len(nameArr)
  BY <1>4, <1>5, <1>6
<1>14. ~mixed' /\ a = 1 => h.len = N \/ k = 0
  BY <1>4, <1>11
<1>15. BuiltFrom(h, g, a, list)
  <2> HIDE DEF a, list, own
  <2> QED BY <1>2, <1>3, <1>4, <1>5, <1>8, <1>9, <1>11, <1>12, <1>13, <1>14 DEF BuiltFrom
<1> QED BY <1>15

\* Writing a family's names keeps those that stand before, in names' places.
LEMMA BuildWrites ==
  ASSUME Types, NEW h, NEW g, NEW a, NEW list, BuiltFrom(h, g, a, list)
  PROVE  /\ nameArr' \in Seq(AllNames \cup {Blank}) /\ Len(nameArr') = Len(nameArr)
         /\ \A i \in 1..Len(nameArr) :
              \/ nameArr'[i] = nameArr[i]
              \/ /\ a = 1 /\ i \in h.len+1..h.len+Len(Own[g]) /\ nameArr'[i] = Own[g][i - h.len]
                 /\ i - h.len \in 1..Len(Own[g]) /\ nameArr'[i] \in OwnNames
         /\ a = 1 => \A i \in 1..Len(Own[g]) : nameArr'[h.len + i] = Own[g][i]
         /\ Len(Own[g]) = 0 => nameArr' = nameArr
<1>1. nameArr \in Seq(AllNames \cup {Blank}) /\ Len(nameArr) \in Nat
  BY LenProperties DEF Types, Slices
<1>2. /\ a \in {0, 1} /\ (a = 0 => nameArr' = nameArr)
      /\ a = 1 => nameArr' = Put(nameArr, h.len, Own[g]) /\ h.len + Len(Own[g]) <= Len(nameArr)
      /\ g \in Families /\ h.len \in Nat /\ Own[g] \in Seq(AllNames) /\ Len(Own[g]) \in Nat
  BY DEF BuiltFrom
<1>3. CASE a = 0
  BY <1>1, <1>2, <1>3
<1>4. CASE a = 1
  <2>1. Own[g] \in Seq(AllNames \cup {Blank}) /\ \A i \in 1..Len(Own[g]) : Own[g][i] \in OwnNames
    BY <1>2, SeqMonotonic, OwnTyped
  <2> DEFINE own == Own[g]
             n == h.len
  <2>2. /\ nameArr' \in Seq(AllNames \cup {Blank}) /\ Len(nameArr') = Len(nameArr)
        /\ \A i \in 1..Len(nameArr) :
             IF i \in n+1..n+Len(own) THEN nameArr'[i] = own[i - n] ELSE nameArr'[i] = nameArr[i]
        /\ \A i \in 1..Len(own) : nameArr'[n + i] = own[i]
    <3> HIDE DEF own, n
    <3>1. own \in Seq(AllNames \cup {Blank}) /\ n \in Nat /\ n + Len(own) <= Len(nameArr)
          /\ nameArr' = Put(nameArr, n, own)
      BY <1>2, <1>4, <2>1 DEF own, n
    <3> QED BY <1>1, <3>1, PutArray
  <2>3. \A i \in n+1..n+Len(own) : i - n \in 1..Len(own)
    BY <1>2
  <2>4. Len(own) = 0 => nameArr' = nameArr
    BY <1>1, <1>2, <1>4, <2>1, PutNothing
  <2> QED BY <1>4, <2>1, <2>2, <2>3, <2>4
<1> QED BY <1>2, <1>3, <1>4

\* A descriptor's names are names.
LEMMA BuildTyped ==
  ASSUME Types, Build, proc' = proc
  PROVE  Types'
<1>1. PICK h, g, a, list : BuiltFrom(h, g, a, list)
  BY BuildReads
<1>2. /\ UNCHANGED <<Tags, proc, refresher, fresh, names, values, valArr, worker, metric>>
      /\ g = Len(desc) + 1 /\ g <= Len(Own) /\ a \in {0, 1}
      /\ h.len \in {0, N} /\ h.len \in Nat
      /\ list \in Seq(AllNames) /\ Len(list) = h.len + Len(Own[g])
      /\ a = 1 => names.arr = 1 /\ h.len + Len(Own[g]) <= Len(nameArr)
      /\ \A i \in 1..h.len : nameArr[i] \in AllNames
      /\ desc' = Append(desc, [arr |-> a, was |-> list])
      /\ builder' = [pc |-> "idle", old |-> Nil] /\ mixed' \in BOOLEAN
      /\ Len(Own[g]) \in Nat
  BY <1>1 DEF BuiltFrom, tagVars
<1>3. /\ N' = N /\ AllNames' = AllNames /\ AllValues' = AllValues /\ Orders' = Orders
      /\ \A n : Heads(n)' = Heads(n)
  BY <1>2, SameTags
<1>4. /\ nameArr' \in Seq(AllNames \cup {Blank}) /\ Len(nameArr') = Len(nameArr)
      /\ Len(nameArr) \in Nat
      /\ \A i \in 1..Len(nameArr) : nameArr'[i] = nameArr[i] \/ nameArr'[i] \in AllNames
      /\ a = 1 => \A i \in 1..Len(Own[g]) : nameArr'[h.len + i] \in AllNames
  <2>1. OwnNames \subseteq AllNames /\ \A i \in 1..Len(Own[g]) : Own[g][i] \in OwnNames
    BY <1>1, OwnTyped DEF AllNames, BuiltFrom
  <2>2. Len(nameArr) \in Nat
    BY LenProperties DEF Types, Slices
  <2> QED BY <1>1, <2>1, <2>2, BuildWrites
<1>5. Slices'
  BY <1>2, <1>3, <1>4 DEF Types, Slices
<1>6. Phases'
  <2>1. names.arr = 1 => \A i \in 1..N : nameArr'[i] \in AllNames
    <3>1. names.arr = 1 => /\ Len(nameArr) = Grown(N)
                           /\ \A i \in 1..N : nameArr[i] \in AllNames
      BY DEF Types, Phases
    <3>2. names.arr = 1 => \A i \in 1..N : i \in 1..Len(nameArr)
      BY <3>1, Places
    <3> QED BY <1>4, <3>1, <3>2
  <2> QED BY <1>2, <1>3, <1>4, <2>1 DEF Types, Phases
<1>7. /\ desc' \in Seq([arr : {0, 1}, was : Seq(AllNames)]) /\ Len(desc') = g
      /\ \A f \in 1..Len(desc) : desc'[f] = desc[f]
      /\ desc'[g] = [arr |-> a, was |-> list]
      /\ Len(desc) \in Nat /\ Len(Own) \in Nat
  <2>1. desc \in Seq([arr : {0, 1}, was : Seq(AllNames)]) /\ Len(Own) \in Nat
    BY DEF Types, Descs
  <2>2. [arr |-> a, was |-> list] \in [arr : {0, 1}, was : Seq(AllNames)]
    BY <1>2
  <2> QED BY <1>2, <2>1, <2>2
<1>8. ASSUME NEW f \in 1..g, desc'[f].arr = 1
      PROVE  /\ names.arr = 1 /\ Len(desc'[f].was) <= Len(nameArr')
             /\ \A i \in 1..Len(desc'[f].was) : nameArr'[i] \in AllNames
  <2>1. CASE f = g
    <3>1. a = 1 /\ desc'[f].was = list
      BY <1>7, <1>8, <2>1
    <3>2. ASSUME NEW i \in 1..Len(list) PROVE nameArr'[i] \in AllNames
      <4>1. i \in 1..Len(nameArr) /\ (i \in 1..h.len \/ i - h.len \in 1..Len(Own[g]))
            /\ i = h.len + (i - h.len)
        BY <1>2, <1>4, <3>1
      <4>2. CASE i \in 1..h.len
        BY <1>2, <1>4, <4>1, <4>2
      <4>3. CASE i - h.len \in 1..Len(Own[g])
        <5>1. nameArr'[h.len + (i - h.len)] \in AllNames
          BY <1>4, <3>1, <4>3
        <5> QED BY <4>1, <5>1
      <4> QED BY <4>1, <4>2, <4>3
    <3> QED BY <1>2, <1>4, <3>1, <3>2
  <2>2. CASE f # g
    <3>1. f \in 1..Len(desc) /\ desc'[f] = desc[f]
      BY <1>2, <1>7, <2>2
    <3>2. /\ names.arr = 1 /\ Len(desc[f].was) <= Len(nameArr)
          /\ \A i \in 1..Len(desc[f].was) : nameArr[i] \in AllNames
      BY <1>8, <3>1 DEF Types, Descs
    <3>3. desc[f].was \in Seq(AllNames)
      <4>1. desc[f] \in [arr : {0, 1}, was : Seq(AllNames)]
        BY <3>1, ElementOfSeq DEF Types, Descs
      <4> QED BY <4>1
    <3>4. \A i \in 1..Len(desc[f].was) : i \in 1..Len(nameArr)
      BY <1>4, <3>2, <3>3, LenProperties
    <3> QED BY <1>4, <3>1, <3>2, <3>4
  <2> QED BY <2>1, <2>2
<1>9. Descs'
  <2>1. Nil \in Heads(names.arr)' /\ builder'.pc = "idle"
    <3>1. names.arr \in Nat
      BY Bounds
    <3> QED BY <1>2, <1>3, <3>1 DEF Heads, Nil
  <2> QED BY <1>2, <1>3, <1>4, <1>7, <1>8, <2>1 DEF Descs
<1>10. Rows'
  <2>1. \A w \in Workers : worker[w].pc = "idle" /\ metric[w].family = 0
    BY <1>2, <1>7 DEF Types, Rows
  <2> QED BY <1>2, <1>3, <2>1 DEF Types, Rows, Row, Heads
<1> QED BY <1>5, <1>6, <1>9, <1>10 DEF Types

\* A load begins with what the slice variable is then.
LEMMA LoadTyped ==
  ASSUME Types, LoadNames \/ \E w \in Workers : LoadValues(w)
  PROVE  Types'
<1>1. UNCHANGED <<Tags, proc, tagVars, nameArr, desc, mixed>>
  BY DEF LoadNames, LoadValues
<1>2. UNCHANGED <<Tags, proc, refresher, fresh, names, values, nameArr, valArr, desc, mixed>>
  BY <1>1 DEF tagVars
<1>3. /\ N' = N /\ AllNames' = AllNames /\ AllValues' = AllValues /\ Orders' = Orders
      /\ \A n : Heads(n)' = Heads(n)
  BY <1>2, SameTags
<1>4. names \in Heads(names.arr) /\ values \in Heads(values.arr)
  BY Bounds DEF Heads
<1>5. Slices' /\ Phases'
  BY <1>2, <1>3 DEF Types, Slices, Phases
<1>6. CASE LoadNames
  <2>1. builder' = [pc |-> "load", old |-> names] /\ UNCHANGED <<worker, metric>>
        /\ Len(desc) < Len(Own)
    BY <1>6 DEF LoadNames
  <2>2. Descs'
    BY <1>2, <1>3, <1>4, <2>1 DEF Types, Descs, Heads
  <2>3. Rows'
    BY <1>2, <1>3, <2>1 DEF Types, Rows, Row, Heads
  <2> QED BY <1>5, <2>2, <2>3 DEF Types
<1>7. ASSUME NEW w \in Workers, LoadValues(w) PROVE Types'
  <2>1. /\ worker' = [worker EXCEPT ![w].pc = "load", ![w].old = values]
        /\ metric' = [metric EXCEPT ![w] = Nothing] /\ builder' = builder
        /\ Len(desc) = Len(Own)
    BY <1>7 DEF LoadValues
  <2>2. Descs'
    BY <1>2, <1>3, <2>1 DEF Types, Descs, Heads
  <2>3. Row' = Row
    BY <1>2, <1>3 DEF Row, Heads
  <2>4. /\ worker' \in [Workers -> Row]
        /\ \A v \in Workers : /\ worker'[v].arr = worker[v].arr /\ worker'[v].was = worker[v].was
                              /\ worker'[v].pc = "make" => worker[v].pc = "make"
                              /\ worker'[v].family = worker[v].family
    <3>1. worker \in [Workers -> Row]
      BY DEF Types, Rows
    <3> QED BY <1>4, <2>1, <3>1 DEF Row
  <2>5. /\ metric' \in [Workers -> [family : 0..Len(Own), over : BOOLEAN,
                                    pairs : SUBSET (AllNames \X AllValues)]]
    <3>1. Nothing \in [family : 0..Len(Own), over : BOOLEAN, pairs : SUBSET (AllNames \X AllValues)]
      BY DEF Nothing, Types, Descs
    <3> QED BY <2>1, <3>1 DEF Types, Rows
  <2>6. Rows'
    BY <1>2, <1>3, <2>1, <2>3, <2>4, <2>5 DEF Types, Rows
  <2> QED BY <1>5, <2>2, <2>6 DEF Types
<1> QED BY <1>6, <1>7

\* The values of goroutine w's next metric, of family f, got from the header h.
ReadFrom(w, f, h, a, arr, list) ==
  /\ f \in Families /\ Len(Own[f]) \in Nat
  /\ arr \in Seq(AllValues) /\ arr = ArrayOf(h.arr)
  /\ h.arr # 0 => h.arr \in 1..Len(valArr) /\ Len(arr) = Grown(N)
  /\ h.len \in {0, N} /\ h.len \in Nat /\ (h.len # 0 => h.arr # 0)
  /\ a \in {0, h.arr} /\ a \in 0..values.arr
  /\ a # 0 => h.len + Len(Own[f]) <= Len(arr)
  /\ ~mixed' /\ a # 0 => h.len = N \/ Len(Own[f]) = 0
  /\ valArr' = IF a = 0 THEN valArr
               ELSE [valArr EXCEPT ![a] = Put(arr, h.len, OwnValues(w, f))]
  /\ mixed' \in BOOLEAN /\ (mixed => mixed')
  /\ list \in Seq(AllValues) /\ Len(list) = h.len + Len(Own[f])
  /\ \A i \in 1..h.len : list[i] = arr[i]
  /\ \A i \in 1..Len(Own[f]) : list[h.len + i] = OwnValue(w, Own[f][i])
  /\ worker[w].pc = "load"
  /\ worker' = [v \in Workers |->
       IF v = w THEN [pc |-> "make", old |-> Nil, family |-> f, arr |-> a,
                      was |-> list, over |-> FALSE]
       ELSE IF Len(Own[f]) > 0 /\ Disturbed(v, w, a) THEN [worker[v] EXCEPT !.over = TRUE]
       ELSE worker[v]]
  /\ UNCHANGED <<Tags, proc, refresher, fresh, names, values, nameArr, builder, desc, metric>>

\* The values that are read are a row's own, or what stands in an array and then these.
LEMMA AppendReads ==
  ASSUME Types, NEW w \in Workers, NEW f \in Families, AppendValues(w, f), proc' = proc
  PROVE  \E h, a, arr, list : ReadFrom(w, f, h, a, arr, list)
<1>1. PICK h \in Loaded(worker[w].old, values) :
       LET own == OwnValues(w, f)
           k   == Len(own)
           a   == Shared(h, k)
           arr == ArrayOf(h.arr)
       IN  /\ ~NilDeref(h, k)
           /\ valArr' = IF a = 0 THEN valArr ELSE [valArr EXCEPT ![a] = Put(arr, h.len, own)]
           /\ worker' = [v \in Workers |->
                IF v = w THEN [pc |-> "make", old |-> Nil, family |-> f, arr |-> a,
                               was |-> SubSeq(arr, 1, h.len) \o own, over |-> FALSE]
                ELSE IF k > 0 /\ Disturbed(v, w, a) THEN [worker[v] EXCEPT !.over = TRUE]
                ELSE worker[v]]
           /\ mixed' = (mixed \/ Over(h, k))
           /\ UNCHANGED <<Tags, proc, refresher, fresh, names, values, nameArr,
                          builder, desc, metric>>
  BY DEF AppendValues, Die, Running
<1> DEFINE own == OwnValues(w, f)
           k == Len(own)
           a == Shared(h, k)
           arr == ArrayOf(h.arr)
           list == SubSeq(arr, 1, h.len) \o own
<1>2. /\ own \in Seq(AllValues) /\ k = Len(Own[f]) /\ Len(Own[f]) \in Nat
      /\ \A i \in 1..Len(Own[f]) : own[i] = OwnValue(w, Own[f][i])
  BY OwnTyped
<1>3. /\ h.len \in {0, N} /\ h.len \in Nat /\ h.arr \in 0..values.arr
      /\ h.arr = 0 => h.len = 0
      /\ a \in {0, h.arr} /\ a \in 0..values.arr
      /\ a # 0 => h.arr # 0 /\ h.len + k <= Grown(N)
      /\ ~Over(h, k) /\ a # 0 => h.len = N \/ k = 0
  <2>1. worker[w].old \in Heads(values.arr)
    <3>1. worker[w] \in Row
      BY DEF Types, Rows
    <3> QED BY <3>1 DEF Row
  <2>2. ~NilDeref(h, k)
    BY <1>1
  <2>3. /\ Tags \subseteq AllTags /\ values \in Heads(Len(valArr)) /\ Len(valArr) \in Nat
    BY Bounds
  <2> HIDE DEF k
  <2>4. k \in Nat
    BY <1>2
  <2> QED BY <2>1, <2>2, <2>3, <2>4, Load
<1>4. /\ arr \in Seq(AllValues) /\ Len(arr) \in Nat
      /\ h.arr # 0 => h.arr \in 1..Len(valArr) /\ Len(arr) = Grown(N)
  <2>1. valArr \in Seq(Seq(AllValues)) /\ \A j \in 1..Len(valArr) : Len(valArr[j]) = Grown(N)
    BY DEF Types, Slices
  <2>2. CASE h.arr = 0
    <3>1. arr = <<>>
      BY <2>2 DEF ArrayOf
    <3>2. <<>> \in Seq(AllValues) /\ Len(<<>>) = 0
      OBVIOUS
    <3> HIDE DEF arr
    <3> QED BY <2>2, <3>1, <3>2
  <2>3. CASE h.arr # 0
    <3>1. h.arr \in 1..Len(valArr) /\ arr = valArr[h.arr]
      BY <1>3, <2>3, Bounds DEF ArrayOf
    <3>2. arr \in Seq(AllValues)
      BY <2>1, <3>1, ElementOfSeq
    <3> QED BY <2>1, <3>1, <3>2, LenProperties
  <2> QED BY <2>2, <2>3
<1>5. h.len \in 0..Len(arr)
  BY <1>3, <1>4, Bounds
<1>6. /\ list \in Seq(AllValues) /\ Len(list) = h.len + k
      /\ \A i \in 1..h.len : list[i] = arr[i]
      /\ \A i \in 1..k : list[h.len + i] = own[i]
  <2>1. ASSUME NEW ar \in Seq(AllValues), NEW o \in Seq(AllValues), NEW n \in 0..Len(ar)
        PROVE  /\ SubSeq(ar, 1, n) \o o \in Seq(AllValues)
               /\ Len(SubSeq(ar, 1, n) \o o) = n + Len(o)
               /\ \A i \in 1..n : (SubSeq(ar, 1, n) \o o)[i] = ar[i]
               /\ \A i \in 1..Len(o) : (SubSeq(ar, 1, n) \o o)[n + i] = o[i]
    <3>1. Len(ar) \in Nat
      BY LenProperties
    <3>2. \A i \in 1..n : ar[i] \in AllValues
      BY <3>1, ElementOfSeq
    <3> QED BY <3>2, Appended
  <2> HIDE DEF own, arr
  <2> QED BY <1>2, <1>4, <1>5, <2>1
<1>7. mixed' \in BOOLEAN /\ (mixed => mixed') /\ (~mixed' => ~Over(h, k))
  <2>1. mixed \in BOOLEAN
    BY DEF Types, Descs
  <2> QED BY <1>1, <2>1
<1>8. /\ valArr' = IF a = 0 THEN valArr ELSE [valArr EXCEPT ![a] = Put(arr, h.len, own)]
      /\ worker' = [v \in Workers |->
           IF v = w THEN [pc |-> "make", old |-> Nil, family |-> f, arr |-> a,
                          was |-> list, over |-> FALSE]
           ELSE IF k > 0 /\ Disturbed(v, w, a) THEN [worker[v] EXCEPT !.over = TRUE]
           ELSE worker[v]]
      /\ UNCHANGED <<Tags, proc, refresher, fresh, names, values, nameArr, builder, desc, metric>>
      /\ worker[w].pc = "load"
  BY <1>1 DEF AppendValues
<1>9. arr = ArrayOf(h.arr) /\ own = OwnValues(w, f)
  OBVIOUS
<1>10. ~mixed' /\ a # 0 => h.len = N \/ k = 0
  BY <1>3, <1>7
<1>11. ReadFrom(w, f, h, a, arr, list)
  <2> HIDE DEF own, k, a, arr, list
  <2> QED BY <1>2, <1>3, <1>4, <1>6, <1>7, <1>8, <1>9, <1>10 DEF ReadFrom
<1> QED BY <1>11

\* Writing a row's values into an array leaves all else in it and the others alone.
LEMMA AppendWrites ==
  ASSUME Types, NEW w \in Workers, NEW f, NEW h, NEW a, NEW arr, NEW list,
         ReadFrom(w, f, h, a, arr, list)
  PROVE  /\ valArr' \in Seq(Seq(AllValues)) /\ Len(valArr') = Len(valArr)
         /\ \A j \in 1..Len(valArr) : j # a => valArr'[j] = valArr[j]
         /\ a # 0 => a \in 1..Len(valArr)
         /\ a # 0 => \A i \in 1..Len(Own[f]) : valArr'[a][h.len + i] = OwnValue(w, Own[f][i])
         /\ \A j \in 1..Len(valArr) : Len(valArr'[j]) = Grown(N)
         /\ \A j \in 1..Len(valArr) : \A i \in 1..Grown(N) :
              \/ valArr'[j][i] = valArr[j][i]
              \/ /\ j = a /\ i \in h.len+1..h.len+Len(Own[f])
                 /\ valArr'[j][i] \in Workers \X OwnNames
         /\ Len(Own[f]) = 0 => valArr' = valArr
<1>1. /\ valArr \in Seq(Seq(AllValues)) /\ Len(valArr) \in Nat
      /\ \A j \in 1..Len(valArr) : Len(valArr[j]) = Grown(N)
  BY Bounds DEF Types, Slices
<1>2. /\ (a = 0 => valArr' = valArr) /\ f \in Families /\ h.len \in Nat
      /\ Len(Own[f]) \in Nat /\ a \in {0, h.arr}
      /\ h.arr # 0 => h.arr \in 1..Len(valArr) /\ Len(arr) = Grown(N)
      /\ arr \in Seq(AllValues) /\ arr = ArrayOf(h.arr)
      /\ a # 0 => /\ h.len + Len(Own[f]) <= Len(arr)
                  /\ valArr' = [valArr EXCEPT ![a] = Put(arr, h.len, OwnValues(w, f))]
  BY DEF ReadFrom
<1>3. CASE a = 0
  BY <1>1, <1>2, <1>3
<1>4. CASE a # 0
  <2>1. a \in 1..Len(valArr) /\ arr = valArr[a] /\ a = h.arr
    BY <1>2, <1>4 DEF ArrayOf
  <2> DEFINE own == OwnValues(w, f)
             n == h.len
             put == Put(arr, n, own)
  <2>2. /\ own \in Seq(AllValues) /\ Len(own) = Len(Own[f])
        /\ \A i \in 1..Len(own) : own[i] = OwnValue(w, Own[f][i]) /\ own[i] \in Workers \X OwnNames
    BY <1>2, OwnTyped
  <2> HIDE DEF own
  <2>3. /\ put \in Seq(AllValues) /\ Len(put) = Len(arr)
        /\ \A i \in 1..Len(arr) :
             IF i \in n+1..n+Len(own) THEN put[i] = own[i - n] ELSE put[i] = arr[i]
        /\ \A i \in 1..Len(own) : put[n + i] = own[i]
    <3>1. arr \in Seq(AllValues) /\ n \in Nat /\ n + Len(own) <= Len(arr)
      BY <1>2, <1>4, <2>2
    <3> HIDE DEF n
    <3> QED BY <2>2, <3>1, PutArray
  <2>4. valArr' = [valArr EXCEPT ![a] = put]
    BY <1>2, <1>4 DEF own
  <2>5. Len(own) = 0 => put = arr
    <3>1. ASSUME NEW x \in Seq(AllValues), NEW m \in Nat, NEW o \in Seq(AllValues), Len(o) = 0
          PROVE  Put(x, m, o) = x
      BY <3>1, PutNothing
    <3> QED BY <1>2, <2>2, <3>1
  <2> HIDE DEF put
  <2>6. /\ valArr' \in Seq(Seq(AllValues)) /\ Len(valArr') = Len(valArr) /\ valArr'[a] = put
        /\ \A j \in 1..Len(valArr) : j # a => valArr'[j] = valArr[j]
    BY <1>1, <2>1, <2>3, <2>4, ExceptSeq
  <2>7. \A i \in n+1..n+Len(own) : i - n \in 1..Len(own)
    BY <1>2, <2>2
  <2>8. \A i \in 1..Grown(N) : \/ put[i] = arr[i]
                               \/ i \in n+1..n+Len(own) /\ put[i] \in Workers \X OwnNames
    BY <1>2, <1>4, <2>1, <2>2, <2>3, <2>7
  <2>9. \A j \in 1..Len(valArr) : \A i \in 1..Grown(N) :
              \/ valArr'[j][i] = valArr[j][i]
              \/ /\ j = a /\ i \in h.len+1..h.len+Len(Own[f])
                 /\ valArr'[j][i] \in Workers \X OwnNames
    BY <2>1, <2>2, <2>6, <2>8
  <2>10. Len(Own[f]) = 0 => valArr' = valArr
    <3>1. \A s \in Seq(Seq(AllValues)) : [s EXCEPT ![a] = s[a]] = s
      OBVIOUS
    <3> QED BY <1>1, <2>1, <2>2, <2>4, <2>5, <3>1
  <2>11. \A j \in 1..Len(valArr) : Len(valArr'[j]) = Grown(N)
    BY <1>1, <1>2, <1>4, <2>1, <2>3, <2>6
  <2> QED BY <2>1, <2>2, <2>3, <2>6, <2>9, <2>10, <2>11
<1> QED BY <1>3, <1>4

\* So many values are got, and those of the others stay values.
LEMMA AppendTyped ==
  ASSUME Types, NEW w \in Workers, NEW f \in Families, AppendValues(w, f), proc' = proc
  PROVE  Types'
<1>1. PICK h, a, arr, list : ReadFrom(w, f, h, a, arr, list)
  BY AppendReads
<1>2. /\ UNCHANGED <<Tags, proc, refresher, fresh, names, values, nameArr, builder, desc, metric>>
      /\ a \in 0..values.arr /\ a \in {0, h.arr} /\ h.len \in Nat /\ Len(Own[f]) \in Nat
      /\ h.arr # 0 => Len(arr) = Grown(N)
      /\ a # 0 => h.len + Len(Own[f]) <= Len(arr)
      /\ list \in Seq(AllValues) /\ Len(list) = h.len + Len(Own[f])
      /\ worker[w].pc = "load" /\ mixed' \in BOOLEAN
      /\ worker' = [v \in Workers |->
           IF v = w THEN [pc |-> "make", old |-> Nil, family |-> f, arr |-> a,
                          was |-> list, over |-> FALSE]
           ELSE IF Len(Own[f]) > 0 /\ Disturbed(v, w, a) THEN [worker[v] EXCEPT !.over = TRUE]
           ELSE worker[v]]
  BY <1>1 DEF ReadFrom
<1>3. /\ N' = N /\ AllNames' = AllNames /\ AllValues' = AllValues /\ Orders' = Orders
      /\ \A n : Heads(n)' = Heads(n)
  BY <1>2, SameTags
<1>4. /\ valArr' \in Seq(Seq(AllValues)) /\ Len(valArr') = Len(valArr)
      /\ \A j \in 1..Len(valArr) : Len(valArr'[j]) = Grown(N)
  BY <1>1, AppendWrites
<1>5. Slices' /\ Phases'
  BY <1>2, <1>3, <1>4 DEF Types, Slices, Phases
<1>6. Descs'
  BY <1>2, <1>3 DEF Types, Descs, Heads
<1>7. Row' = Row
  BY <1>2, <1>3, <1>4 DEF Row, Heads
<1>8. /\ worker \in [Workers -> Row] /\ values.arr \in 0..Len(valArr) /\ values.arr \in Nat
      /\ Len(valArr) \in Nat /\ Len(Own) \in Nat /\ Len(desc) = Len(Own)
  <2>1. worker \in [Workers -> Row] /\ Len(Own) \in Nat /\ Len(desc) = Len(Own)
    BY <1>2 DEF Types, Descs, Rows
  <2> QED BY <2>1, Bounds
<1>9. [pc |-> "make", old |-> Nil, family |-> f, arr |-> a, was |-> list, over |-> FALSE] \in Row
  <2>1. f \in 0..Len(Own) /\ a \in 0..Len(valArr)
    BY <1>2, <1>8 DEF Families
  <2>2. Nil \in Heads(values.arr)
    BY <1>8 DEF Heads, Nil
  <2> QED BY <1>2, <2>1, <2>2 DEF Row
<1>10. /\ worker' \in [Workers -> Row]
       /\ \A v \in Workers : v # w =>
            /\ worker'[v].arr = worker[v].arr /\ worker'[v].was = worker[v].was
            /\ worker'[v].pc = worker[v].pc /\ worker'[v].family = worker[v].family
       /\ worker'[w].arr = a /\ worker'[w].was = list /\ worker'[w].family = f
  <2>1. \A v \in Workers : [worker[v] EXCEPT !.over = TRUE] \in Row
    BY <1>8 DEF Row
  <2>2. \A v \in Workers : worker'[v] \in Row
    BY <1>2, <1>8, <1>9, <2>1
  <2>3. worker' \in [Workers -> Row]
    BY <1>2, <2>2
  <2>4. \A v \in Workers : v # w =>
          worker'[v] = worker[v] \/ worker'[v] = [worker[v] EXCEPT !.over = TRUE]
    BY <1>2
  <2>5. worker'[w] = [pc |-> "make", old |-> Nil, family |-> f, arr |-> a, was |-> list,
                      over |-> FALSE]
    BY <1>2
  <2>6. \A r \in Row : LET s == [r EXCEPT !.over = TRUE]
                       IN  s.arr = r.arr /\ s.was = r.was /\ s.pc = r.pc /\ s.family = r.family
    BY DEF Row
  <2>7. \A v \in Workers : worker[v] \in Row
    BY <1>8
  <2>8. \A v \in Workers : v # w =>
          /\ worker'[v].arr = worker[v].arr /\ worker'[v].was = worker[v].was
          /\ worker'[v].pc = worker[v].pc /\ worker'[v].family = worker[v].family
    BY <2>4, <2>6, <2>7
  <2>9. worker'[w].arr = a /\ worker'[w].was = list /\ worker'[w].family = f
    BY <2>5
  <2> QED BY <2>3, <2>8, <2>9
<1>11. ASSUME NEW v \in Workers
       PROVE  /\ worker'[v].arr # 0 => Len(worker'[v].was) <= Grown(N)
              /\ worker'[v].pc = "make" => worker'[v].family \in Families
  <2>1. CASE v = w
    BY <1>2, <1>10, <2>1
  <2>2. CASE v # w
    BY <1>10, <2>2 DEF Types, Rows
  <2> QED BY <2>1, <2>2
<1>12. Rows'
  BY <1>2, <1>3, <1>7, <1>8, <1>10, <1>11 DEF Types, Rows
<1> QED BY <1>5, <1>6, <1>12 DEF Types

\* The names and the values that a metric is made of.
LEMMA Pairs ==
  ASSUME Types, NEW w \in Workers, worker[w].pc = "make",
         NEW i \in 1..Len(desc[worker[w].family].was),
         Len(desc[worker[w].family].was) = Len(worker[w].was)
  PROVE  /\ NameAt(desc[worker[w].family], i) \in AllNames
         /\ ValueAt(worker[w], i) \in AllValues
<1> DEFINE f == worker[w].family
<1>1. /\ worker[w] \in Row /\ f \in 1..Len(desc)
      /\ worker[w].arr # 0 => Len(worker[w].was) <= Grown(N)
  BY DEF Types, Rows, Families
<1>2. desc[f] \in [arr : {0, 1}, was : Seq(AllNames)]
  <2>1. desc \in Seq([arr : {0, 1}, was : Seq(AllNames)])
    BY DEF Types, Descs
  <2> QED BY <1>1, <2>1, ElementOfSeq
<1>3. desc[f].was \in Seq(AllNames) /\ worker[w].was \in Seq(AllValues)
  BY <1>1, <1>2 DEF Row
<1>4. NameAt(desc[f], i) \in AllNames
  <2>1. CASE desc[f].arr = 0
    BY <1>3, <2>1, ElementOfSeq DEF NameAt
  <2>2. CASE desc[f].arr = 1
    BY <1>1, <2>2 DEF Types, Descs, NameAt
  <2> QED BY <1>2, <2>1, <2>2
<1>5. ValueAt(worker[w], i) \in AllValues
  <2>1. CASE worker[w].arr = 0
    <3>1. i \in 1..Len(worker[w].was)
      OBVIOUS
    <3> QED BY <1>3, <2>1, <3>1, ElementOfSeq DEF ValueAt
  <2>2. CASE worker[w].arr # 0
    <3>1. worker[w].arr \in 1..Len(valArr)
      <4>1. worker[w].arr \in 0..Len(valArr) /\ Len(valArr) \in Nat
        BY <1>1, Bounds DEF Row
      <4> QED BY <2>2, <4>1
    <3>2. valArr[worker[w].arr] \in Seq(AllValues) /\ Len(valArr[worker[w].arr]) = Grown(N)
      <4>1. valArr \in Seq(Seq(AllValues))
        BY DEF Types, Slices
      <4> QED BY <3>1, <4>1, ElementOfSeq DEF Types, Slices
    <3>3. i \in 1..Len(valArr[worker[w].arr])
      <4>1. Len(worker[w].was) \in Nat /\ Len(worker[w].was) <= Grown(N) /\ i \in 1..Len(worker[w].was)
        BY <1>1, <1>3, <2>2, LenProperties
      <4> QED BY <3>2, <4>1, Bounds
    <3> QED BY <2>2, <3>2, <3>3, ElementOfSeq DEF ValueAt
  <2> QED BY <2>1, <2>2
<1> QED BY <1>4, <1>5

\* A metric pairs names with values, wherever the two lists stand.
LEMMA MakeTyped ==
  ASSUME Types, NEW w \in Workers, MakeMetric(w), proc' = proc
  PROVE  Types'
<1> DEFINE f == worker[w].family
           n == Len(desc[f].was)
           pairs == {<<NameAt(desc[f], i), ValueAt(worker[w], i)>> : i \in 1..n}
<1>1. /\ worker[w].pc = "make" /\ n = Len(worker[w].was)
      /\ metric' = [metric EXCEPT ![w] =
           [family |-> f, over |-> worker[w].over, pairs |-> pairs]]
      /\ worker' = [worker EXCEPT ![w] = Resting]
      /\ UNCHANGED <<Tags, proc, tagVars, nameArr, builder, desc, mixed>>
  BY DEF MakeMetric, Die, Running
<1>2. UNCHANGED <<Tags, proc, refresher, fresh, names, values, nameArr, valArr, builder, desc, mixed>>
  BY <1>1 DEF tagVars
<1>3. /\ N' = N /\ AllNames' = AllNames /\ AllValues' = AllValues /\ Orders' = Orders
      /\ \A m : Heads(m)' = Heads(m)
  BY <1>2, SameTags
<1>4. Slices' /\ Phases' /\ Descs'
  <2>1. Slices' /\ Phases'
    BY <1>2, <1>3 DEF Types, Slices, Phases
  <2>2. Descs'
    BY <1>2, <1>3 DEF Types, Descs, Heads
  <2> QED BY <2>1, <2>2
<1>5. Row' = Row
  BY <1>2, <1>3 DEF Row, Heads
<1>6. pairs \in SUBSET (AllNames \X AllValues)
  BY <1>1, Pairs
<1>7. /\ worker \in [Workers -> Row] /\ Len(Own) \in Nat
      /\ Len(desc) = Len(Own) /\ values.arr \in Nat /\ Len(valArr) \in Nat
  <2>1. worker \in [Workers -> Row] /\ Len(Own) \in Nat /\ Len(desc) = Len(Own)
    BY <1>1 DEF Types, Descs, Rows
  <2> QED BY <2>1, Bounds
<1>8. Resting \in Row
  <2>1. Nil \in Heads(values.arr)
    BY <1>7 DEF Heads, Nil
  <2>2. <<>> \in Seq(AllValues) /\ 0 \in 0..Len(Own) /\ 0 \in 0..Len(valArr)
    BY <1>7
  <2> QED BY <2>1, <2>2 DEF Row, Resting
<1>9. /\ worker' \in [Workers -> Row]
      /\ \A v \in Workers : v # w => worker'[v] = worker[v]
      /\ worker'[w].pc = "idle" /\ worker'[w].arr = 0
  BY <1>1, <1>7, <1>8 DEF Resting
<1>10. metric' \in [Workers -> [family : 0..Len(Own), over : BOOLEAN,
                                pairs : SUBSET (AllNames \X AllValues)]]
  <2> HIDE DEF pairs
  <2>1. worker[w] \in Row
    BY <1>7
  <2>2. f \in 0..Len(Own) /\ worker[w].over \in BOOLEAN
    BY <2>1 DEF Row
  <2>3. metric \in [Workers -> [family : 0..Len(Own), over : BOOLEAN,
                                pairs : SUBSET (AllNames \X AllValues)]]
    BY DEF Types, Rows
  <2> HIDE DEF f
  <2> QED BY <1>1, <1>6, <2>2, <2>3
<1>11. Rows'
  <2>1. \A v \in Workers :
         /\ worker'[v].arr # 0 => Len(worker'[v].was) <= Grown(N)
         /\ worker'[v].pc = "make" => worker'[v].family \in Families
    BY <1>9 DEF Types, Rows
  <2> QED BY <1>2, <1>3, <1>5, <1>7, <1>9, <1>10, <2>1 DEF Rows
<1> QED BY <1>4, <1>11 DEF Types

\* The process ends, and nothing else changes.
LEMMA DieTyped ==
  ASSUME Types, UNCHANGED <<Tags, tagVars, nameArr, readVars>>,
         proc' \in {"running", "nil map", "nil slice", "cardinality"}
  PROVE  Types'
<1>1. UNCHANGED <<Tags, refresher, fresh, names, values, nameArr, valArr, builder, desc,
                  worker, metric, mixed>>
  BY DEF tagVars, readVars
<1>2. /\ N' = N /\ AllNames' = AllNames /\ AllValues' = AllValues /\ Orders' = Orders
      /\ \A n : Heads(n)' = Heads(n)
  BY <1>1, SameTags
<1>3. Slices' /\ Phases' /\ Descs'
  <2>1. Slices' /\ Phases'
    BY <1>1, <1>2 DEF Types, Slices, Phases
  <2>2. Descs'
    BY <1>1, <1>2 DEF Types, Descs, Heads
  <2> QED BY <2>1, <2>2
<1>4. Rows'
  BY <1>1, <1>2 DEF Types, Rows, Row, Heads
<1> QED BY <1>3, <1>4 DEF Types

\* The types hold at first.
LEMMA StartTyped ==
  ASSUME Init
  PROVE  Types
<1>1. /\ Tags \subseteq AllTags /\ N \in 0..16 /\ Grown(N) \in Nat
      /\ MaxFetches \in Nat \ {0} /\ Len(Own) \in Nat
  BY Size, Capacity, FetchesAssumption, OwnAssumption, LenProperties DEF Init
<1>2. /\ proc = "running" /\ refresher = "idle" /\ fresh = [names |-> <<>>, values |-> <<>>]
      /\ names = Nil /\ values = Nil /\ nameArr = <<>> /\ valArr = <<>> /\ desc = <<>>
      /\ builder = [pc |-> "idle", old |-> Nil] /\ mixed = FALSE
      /\ worker = [w \in Workers |-> Resting] /\ metric = [w \in Workers |-> Nothing]
  BY DEF Init
<1>3. Nil \in Heads(0) /\ Nil \in Heads(1) /\ names.arr = 0 /\ names.len = 0 /\ values.arr = 0
  BY <1>2 DEF Heads, Nil
<1>4. Slices
  <2>1. <<>> \in Seq(AllValues) /\ <<>> \in Seq(AllNames \cup {Blank})
        /\ <<>> \in Seq(Seq(AllValues)) /\ Len(<<>>) = 0
    OBVIOUS
  <2> QED BY <1>1, <1>2, <1>3, <2>1 DEF Slices
<1>5. Phases
  BY <1>2, <1>3 DEF Phases
<1>6. Descs
  <2>1. <<>> \in Seq([arr : {0, 1}, was : Seq(AllNames)]) /\ Len(<<>>) = 0
    OBVIOUS
  <2>2. builder \in [pc : {"idle", "load"}, old : Heads(names.arr)] /\ builder.pc = "idle"
    BY <1>2, <1>3
  <2>3. /\ desc \in Seq([arr : {0, 1}, was : Seq(AllNames)]) /\ Len(desc) = 0
        /\ Len(desc) \in 0..Len(Own) /\ mixed \in BOOLEAN
    <3>1. desc = <<>> /\ mixed \in BOOLEAN
      BY <1>2
    <3>2. Len(desc) = 0
      BY <2>1, <3>1
    <3>3. 0 \in 0..Len(Own)
      BY <1>1
    <3> QED BY <2>1, <3>1, <3>2, <3>3
  <2>4. \A f \in 1..Len(desc) : FALSE
    BY <2>3
  <2> QED BY <1>1, <2>2, <2>3, <2>4 DEF Descs
<1>7. Rows
  <2>1. Resting \in Row
    <3>1. <<>> \in Seq(AllValues) /\ 0 \in 0..Len(Own) /\ 0 \in 0..Len(valArr)
      BY <1>1, <1>2
    <3>2. Nil \in Heads(values.arr)
      BY <1>3
    <3> QED BY <3>1, <3>2 DEF Row, Resting
  <2>2. Nothing \in [family : 0..Len(Own), over : BOOLEAN, pairs : SUBSET (AllNames \X AllValues)]
    BY <1>1 DEF Nothing
  <2> QED BY <1>2, <2>1, <2>2 DEF Rows, Resting, Nothing
<1> QED BY <1>4, <1>5, <1>6, <1>7 DEF Types

\* Every step keeps the types.
LEMMA StepTyped ==
  ASSUME Types, [Next]_vars
  PROVE  Types'
<1>1. CASE /\ UNCHANGED <<Tags, tagVars, nameArr, readVars>>
           /\ proc' \in {"running", "nil map", "nil slice", "cardinality"}
  BY <1>1, DieTyped
<1>2. CASE Construct
  <2>1. CASE LoadNames
    BY <2>1, LoadTyped
  <2>2. CASE Build /\ proc' = proc
    BY <2>2, BuildTyped
  <2>3. CASE Build /\ proc' # proc
    BY <1>1, <2>3 DEF Build, Die
  <2> QED BY <1>2, <2>1, <2>2, <2>3 DEF Construct
<1>3. CASE Refresh
  <2>1. CASE FetchPanics
    BY <1>1, <2>1 DEF FetchPanics, Die
  <2> QED BY <1>3, <2>1, FetchTyped, LengthTyped, NamesPointerTyped, ValuesPointerTyped
         DEF Refresh
<1>4. ASSUME NEW w \in Workers, Scrape(w) PROVE Types'
  <2>1. CASE LoadValues(w)
    BY <2>1, LoadTyped
  <2>2. ASSUME NEW f \in Families, AppendValues(w, f) PROVE Types'
    <3>1. CASE proc' = proc
      BY <2>2, <3>1, AppendTyped
    <3>2. CASE proc' # proc
      BY <1>1, <2>2, <3>2 DEF AppendValues, Die
    <3> QED BY <3>1, <3>2
  <2>3. CASE MakeMetric(w) /\ proc' = proc
    BY <2>3, MakeTyped
  <2>4. CASE MakeMetric(w) /\ proc' # proc
    BY <1>1, <2>4 DEF MakeMetric, Die
  <2> QED BY <1>4, <2>1, <2>2, <2>3, <2>4 DEF Scrape
<1>5. CASE Rest \/ UNCHANGED vars
  <2>1. UNCHANGED <<Tags, tagVars, nameArr, readVars>> /\ proc' = proc
    BY <1>5 DEF Rest, vars, readVars
  <2> QED BY <1>1, <2>1 DEF Types, Slices
<1> QED BY <1>2, <1>3, <1>4, <1>5 DEF Next

\* The parts of the types' invariant hold in every state.
LEMMA AlwaysTyped == Spec => []Types
<1>1. Init => Types
  BY StartTyped
<1>2. Types /\ [Next]_vars => Types'
  BY StepTyped
<1> QED BY <1>1, <1>2, PTL DEF Spec

\* The variables keep their types: in particular no descriptor has a blank for a label
\* name, and no goroutine reads behind an array's end, for any tags, any order of the
\* map and any number of goroutines that append to the same slices, also after one
\* has written over the tags (auxiliaryfunctions.go:143-158, templatedcollector.go:75-85).
THEOREM TypeCorrect == Spec => []TypeOK
<1>1. Types => TypeOK
  <2> SUFFICES ASSUME Types PROVE TypeOK
    OBVIOUS
  <2>1. \A n \in 0..MaxFetches : Heads(n) \subseteq Header
    BY FetchesAssumption DEF Heads, Header
  <2>2. /\ Len(valArr) \in 0..MaxFetches /\ 1 \in 0..MaxFetches
        /\ names.arr \in 0..MaxFetches /\ values.arr \in 0..MaxFetches
    BY Bounds
  <2>3. names \in Header /\ values \in Header /\ values.arr <= Len(valArr) /\ Len(valArr) <= MaxFetches
    BY <2>1, <2>2, Bounds
  <2>4. \A k \in 1..Len(valArr) : valArr[k] \in Seq(AllValues)
    BY ElementOfSeq DEF Types, Slices
  <2>5. builder \in [pc : {"idle", "load"}, old : Header] /\ mixed \in BOOLEAN
    <3>1. Heads(names.arr) \subseteq Header
      BY <2>1, <2>2
    <3> QED BY <3>1 DEF Types, Descs
  <2>6. \A f \in 1..Len(desc) : desc[f].was \in Seq(AllNames)
    <3>1. ASSUME NEW f \in 1..Len(desc) PROVE desc[f].was \in Seq(AllNames)
      <4>1. desc[f] \in [arr : {0, 1}, was : Seq(AllNames)]
        BY ElementOfSeq DEF Types, Descs
      <4> QED BY <4>1
    <3> QED BY <3>1
  <2>7. \A w \in Workers : /\ worker[w].pc \in {"idle", "load", "make"} /\ worker[w].old \in Header
                           /\ metric[w].pairs \subseteq (AllNames \X AllValues)
    <3>1. Heads(values.arr) \subseteq Header
      BY <2>1, <2>2
    <3>2. \A w \in Workers : worker[w] \in Row
      BY DEF Types, Rows
    <3>3. \A w \in Workers : metric[w] \in [family : 0..Len(Own), over : BOOLEAN,
                                            pairs : SUBSET (AllNames \X AllValues)]
      BY DEF Types, Rows
    <3> QED BY <3>1, <3>2, <3>3 DEF Row
  <2> QED BY <2>3, <2>4, <2>5, <2>6, <2>7 DEF TypeOK, Types, Slices
<1> QED BY <1>1, AlwaysTyped, PTL

-----------------------------------------------------------------------------
(* What the arrays hold, as long as no append has written over the tags.   *)

\* The names' array begins with the tags' names, each of them once.
Stored ==
  names.arr = 1 =>
    /\ \A i \in 1..N : nameArr[i] \in Tags
    /\ \A t \in Tags : \E i \in 1..N : nameArr[i] = t

\* The slices under way belong together, or to the array of names.
Fetched ==
  /\ refresher \in {"names", "namesPtr"} =>
       \A i \in 1..N : fresh.values[i] = TagValue(fresh.names[i])
  /\ refresher \in {"values", "valuesPtr"} =>
       \A i \in 1..N : fresh.values[i] = TagValue(nameArr[i])

\* Every array of values, the older ones too, begins with the tags' values.
Valued == \A k \in 1..Len(valArr) : \A i \in 1..N : valArr[k][i] = TagValue(nameArr[i])

\* A descriptor was built before the tags were there, or has them first, then its own;
\* where it stands in the shared array, another family's names may follow the tags.
PlainNames(f) ==
  /\ Len(desc[f].was) = Len(Own[f]) /\ (desc[f].arr = 0 \/ Len(Own[f]) = 0)
  /\ \A i \in 1..Len(Own[f]) : desc[f].was[i] = Own[f][i]
TaggedNames(f) ==
  /\ names.arr = 1 /\ Len(desc[f].was) = N + Len(Own[f])
  /\ \A i \in 1..N : desc[f].was[i] = nameArr[i]
  /\ \A i \in 1..Len(Own[f]) : /\ desc[f].was[N + i] = Own[f][i]
                               /\ desc[f].arr = 1 => nameArr[N + i] \in OwnNames
KeptNames(f) ==
  desc[f].arr = 1 /\ ~Overwritten(f) =>
    \A i \in 1..Len(desc[f].was) : nameArr[i] = desc[f].was[i]
DescOf(f) == (PlainNames(f) \/ TaggedNames(f)) /\ KeptNames(f)

\* The same of the values that a goroutine is about to send.
PlainValues(w) ==
  LET own == Own[worker[w].family]
  IN  /\ Len(worker[w].was) = Len(own) /\ (worker[w].arr = 0 \/ Len(own) = 0)
      /\ \A i \in 1..Len(own) : worker[w].was[i] = OwnValue(w, own[i])
TaggedValues(w) ==
  LET own == Own[worker[w].family]
  IN  /\ names.arr = 1 /\ Len(worker[w].was) = N + Len(own)
      /\ \A i \in 1..N : worker[w].was[i] = TagValue(nameArr[i])
      /\ \A i \in 1..Len(own) :
           /\ worker[w].was[N + i] = OwnValue(w, own[i])
           /\ worker[w].arr # 0 => valArr[worker[w].arr][N + i] \in Workers \X OwnNames
KeptValues(w) ==
  worker[w].arr # 0 /\ ~worker[w].over =>
    \A i \in 1..Len(worker[w].was) : valArr[worker[w].arr][i] = worker[w].was[i]
ReadOf(w) == worker[w].pc = "make" => (PlainValues(w) \/ TaggedValues(w)) /\ KeptValues(w)

\* A metric that was sent: TagsAllOrNone's and OwnLabels' parts about it.
TagsSent(w) ==
  LET tagged == {p \in metric[w].pairs : \E t \in Tags : p[2] = TagValue(t)}
  IN  /\ tagged = {} \/ tagged = {<<t, TagValue(t)>> : t \in Tags}
      /\ \A p \in metric[w].pairs \ tagged : p[1] \in OwnNames
OwnSent(w) ==
  LET f == metric[w].family
  IN  f # 0 /\ ~metric[w].over /\ ~Overwritten(f) =>
        \A i \in 1..Len(Own[f]) : <<Own[f][i], OwnValue(w, Own[f][i])>> \in metric[w].pairs
Undisturbed(w) == NoRoom => ~worker[w].over /\ ~metric[w].over

Shape ==
  /\ Stored /\ Fetched /\ Valued
  /\ \A f \in 1..Len(desc) : DescOf(f)
  /\ \A w \in Workers : ReadOf(w) /\ TagsSent(w) /\ OwnSent(w) /\ Undisturbed(w)
IInv == Types /\ (~mixed => Shape)


-----------------------------------------------------------------------------
(* The shape is kept: the refresher.                                       *)

\* The readers find what they had, as long as no array changes.
LEMMA ReadersShaped ==
  ASSUME Types, Shape, UNCHANGED <<Tags, readVars>>,
         names.arr = 1 => names'.arr = 1 /\ nameArr' = nameArr,
         \A k \in 1..Len(valArr) : valArr'[k] = valArr[k]
  PROVE  /\ \A f \in 1..Len(desc') : DescOf(f)'
         /\ \A w \in Workers : ReadOf(w)' /\ TagsSent(w)' /\ OwnSent(w)' /\ Undisturbed(w)'
<1>1. N' = N /\ NoRoom' = NoRoom
  BY SameTags DEF NoRoom
<1>2. UNCHANGED <<Tags, builder, desc, worker, metric, mixed>>
  BY DEF readVars
<1>3. \A f : Overwritten(f)' = Overwritten(f)
  BY <1>2 DEF Overwritten
<1>4. ASSUME NEW f \in 1..Len(desc) PROVE DescOf(f)'
  <2>1. DescOf(f) /\ (desc[f].arr = 1 => names.arr = 1)
    BY DEF Shape, Types, Descs
  <2>2. PlainNames(f) => PlainNames(f)'
    BY <1>2 DEF PlainNames
  <2>3. TaggedNames(f) => TaggedNames(f)'
    BY <1>1, <1>2 DEF TaggedNames
  <2>4. KeptNames(f)'
    BY <1>2, <1>3, <2>1 DEF DescOf, KeptNames
  <2> QED BY <2>1, <2>2, <2>3, <2>4 DEF DescOf
<1>5. ASSUME NEW w \in Workers PROVE ReadOf(w)'
  <2>1. ReadOf(w) /\ worker[w] \in Row /\ Len(valArr) \in Nat
    BY Bounds DEF Shape, Types, Rows
  <2>2. worker[w].arr # 0 => valArr'[worker[w].arr] = valArr[worker[w].arr]
    <3>1. worker[w].arr \in 0..Len(valArr)
      BY <2>1 DEF Row
    <3>2. worker[w].arr # 0 => worker[w].arr \in 1..Len(valArr)
      BY <2>1, <3>1
    <3> QED BY <3>2
  <2>3. PlainValues(w) => PlainValues(w)'
    BY <1>2 DEF PlainValues
  <2>4. TaggedValues(w) => TaggedValues(w)'
    BY <1>1, <1>2, <2>2 DEF TaggedValues
  <2>5. KeptValues(w) => KeptValues(w)'
    BY <1>2, <2>2 DEF KeptValues
  <2> QED BY <1>2, <2>1, <2>3, <2>4, <2>5 DEF ReadOf
<1>6. ASSUME NEW w \in Workers PROVE TagsSent(w)' /\ OwnSent(w)' /\ Undisturbed(w)'
  <2>1. TagsSent(w)'
    BY <1>2 DEF Shape, TagsSent, TagValue
  <2>2. OwnSent(w)'
    BY <1>2, <1>3 DEF Shape, OwnSent
  <2>3. Undisturbed(w)'
    BY <1>1, <1>2 DEF Shape, Undisturbed
  <2> QED BY <2>1, <2>2, <2>3
<1> QED BY <1>2, <1>4, <1>5, <1>6

\* One pass over the map fills both slices; a later refresh follows the names.
LEMMA FetchShaped ==
  ASSUME Types, Shape, FirstFetch \/ NextFetch
  PROVE  Shape'
<1>1. UNCHANGED <<Tags, names, nameArr, valArr, readVars>>
  BY DEF FirstFetch, NextFetch
<1>2. N' = N
  BY <1>1, SameTags
<1>3. Stored' /\ Valued'
  BY <1>1, <1>2 DEF Shape, Stored, Valued, TagValue
<1>4. Fetched'
  <2>1. CASE FirstFetch
    <3>1. PICK o \in Orders :
            fresh' = [names |-> o, values |-> [i \in 1..N |-> TagValue(o[i])]]
      BY <2>1 DEF FirstFetch
    <3>2. refresher' = "names"
      BY <2>1 DEF FirstFetch
    <3> QED BY <1>2, <3>1, <3>2 DEF Fetched, TagValue
  <2>2. CASE NextFetch
    <3>1. names.arr = 1 /\ refresher' = "values"
      <4>1. names.len > 0 /\ refresher = "idle" /\ refresher' = "values"
        BY <2>2 DEF NextFetch
      <4>2. names.len # 0
        BY <4>1, Bounds
      <4> QED BY <4>1, <4>2 DEF Types, Phases
    <3>2. fresh' = [fresh EXCEPT !.values = [i \in 1..N |-> LookUp(nameArr[i])]]
      BY <2>2 DEF NextFetch
    <3>3. fresh'.values = [i \in 1..N |-> LookUp(nameArr[i])]
      BY <3>2 DEF Types, Slices
    <3>4. \A i \in 1..N : fresh'.values[i] = TagValue(nameArr[i])
      BY <3>1, <3>3 DEF Shape, Stored, LookUp
    <3> QED BY <1>1, <1>2, <3>1, <3>4 DEF Fetched, TagValue
  <2> QED BY <2>1, <2>2
<1>5. /\ \A f \in 1..Len(desc') : DescOf(f)'
      /\ \A w \in Workers : ReadOf(w)' /\ TagsSent(w)' /\ OwnSent(w)' /\ Undisturbed(w)'
  BY <1>1, ReadersShaped
<1> QED BY <1>3, <1>4, <1>5 DEF Shape

\* A length moves no element.
LEMMA LengthShaped ==
  ASSUME Types, Shape, StoreNames \/ StoreValues
  PROVE  Shape'
<1>1. /\ UNCHANGED <<Tags, fresh, nameArr, valArr, readVars>>
      /\ \/ refresher = "names" /\ refresher' = "namesPtr"
         \/ refresher = "values" /\ refresher' = "valuesPtr"
  BY DEF StoreNames, StoreValues
<1>2. N' = N
  BY <1>1, SameTags
<1>3. names'.arr = names.arr
  BY Bounds DEF StoreNames, StoreValues, Heads
<1>4. Stored' /\ Valued' /\ Fetched'
  BY <1>1, <1>2, <1>3 DEF Shape, Stored, Valued, Fetched, TagValue
<1>5. /\ \A f \in 1..Len(desc') : DescOf(f)'
      /\ \A w \in Workers : ReadOf(w)' /\ TagsSent(w)' /\ OwnSent(w)' /\ Undisturbed(w)'
  BY <1>1, <1>3, ReadersShaped
<1> QED BY <1>4, <1>5 DEF Shape

\* The stored array of names is the one that the values follow.
LEMMA NamesPointerShaped ==
  ASSUME Types, Shape, StoreNamesPointer
  PROVE  Shape'
<1>1. /\ UNCHANGED <<Tags, fresh, values, valArr, readVars>>
      /\ refresher = "namesPtr" /\ refresher' = "values" /\ nameArr' = Slice(fresh.names)
      /\ names' = [names EXCEPT !.arr = IF N = 0 THEN 0 ELSE 1]
  BY DEF StoreNamesPointer
<1>2. N' = N
  BY <1>1, SameTags
<1>3. fresh.names \in Orders /\ names.arr = 0 /\ Len(valArr) = 0 /\ Tags \subseteq AllTags
  BY <1>1, Bounds DEF Types, Phases
<1>4. /\ \A i \in 1..N : nameArr'[i] = fresh.names[i] /\ fresh.names[i] \in Tags
      /\ \A t \in Tags : \E i \in 1..N : fresh.names[i] = t
  <2>1. /\ fresh.names \in Seq(AllTags) /\ Len(fresh.names) = N
        /\ \A i \in 1..N : fresh.names[i] \in Tags
        /\ \A t \in Tags : \E i \in 1..N : fresh.names[i] = t
    BY <1>3, OnePass
  <2>2. fresh.names \in Seq(AllTags \cup {Blank})
    BY <2>1, SeqMonotonic
  <2>3. \A i \in 1..N : Slice(fresh.names)[i] = fresh.names[i]
    BY <1>3, <2>1, <2>2, SliceOf
  <2> QED BY <1>1, <2>1, <2>3
<1>5. Stored'
  BY <1>1, <1>2, <1>4 DEF Stored
<1>6. Fetched'
  BY <1>1, <1>2, <1>4 DEF Shape, Fetched, TagValue
<1>7. Valued'
  <2>1. \A k \in 1..Len(valArr) : FALSE
    BY <1>3
  <2> QED BY <1>1, <2>1 DEF Valued
<1>8. /\ \A f \in 1..Len(desc') : DescOf(f)'
      /\ \A w \in Workers : ReadOf(w)' /\ TagsSent(w)' /\ OwnSent(w)' /\ Undisturbed(w)'
  BY <1>1, <1>3, ReadersShaped
<1> QED BY <1>5, <1>6, <1>7, <1>8 DEF Shape

\* The stored array of values follows the names, and the older ones stay.
LEMMA ValuesPointerShaped ==
  ASSUME Types, Shape, StoreValuesPointer
  PROVE  Shape'
<1>1. /\ UNCHANGED <<Tags, fresh, names, nameArr, readVars>>
      /\ refresher = "valuesPtr" /\ refresher' = "idle"
      /\ \/ N = 0 /\ UNCHANGED <<values, valArr>>
         \/ N # 0 /\ valArr' = Append(valArr, Slice(fresh.values))
  BY DEF StoreValuesPointer
<1>2. N' = N
  BY <1>1, SameTags
<1>3. /\ valArr \in Seq(Seq(AllValues)) /\ Len(valArr) \in Nat
      /\ fresh.values \in Seq(AllValues) /\ Len(fresh.values) = N
      /\ Tags \subseteq AllTags /\ Blank \in AllValues
  BY <1>1, Bounds DEF Types, Slices, Phases, AllValues
<1>4. Slice(fresh.values) \in Seq(AllValues) /\ \A i \in 1..N : Slice(fresh.values)[i] = fresh.values[i]
  BY <1>3, SliceOf
<1>5. /\ \A k \in 1..Len(valArr) : valArr'[k] = valArr[k]
      /\ \A k \in 1..Len(valArr') : \/ k \in 1..Len(valArr)
                                    \/ valArr'[k] = Slice(fresh.values)
  <2>1. CASE valArr' = valArr
    BY <2>1
  <2>2. CASE valArr' = Append(valArr, Slice(fresh.values))
    <3>1. Len(valArr') = Len(valArr) + 1 /\ valArr'[Len(valArr) + 1] = Slice(fresh.values)
          /\ \A k \in 1..Len(valArr) : valArr'[k] = valArr[k]
      BY <1>3, <1>4, <2>2
    <3> QED BY <1>3, <3>1
  <2> QED BY <1>1, <2>1, <2>2
<1>6. Stored' /\ Fetched'
  BY <1>1, <1>2 DEF Shape, Stored, Fetched
<1>7. Valued'
  <2>1. \A i \in 1..N : Slice(fresh.values)[i] = TagValue(nameArr[i])
    BY <1>1, <1>4 DEF Shape, Fetched
  <2> QED BY <1>1, <1>2, <1>5, <2>1 DEF Shape, Valued, TagValue
<1>8. /\ \A f \in 1..Len(desc') : DescOf(f)'
      /\ \A w \in Workers : ReadOf(w)' /\ TagsSent(w)' /\ OwnSent(w)' /\ Undisturbed(w)'
  BY <1>1, <1>5, ReadersShaped
<1> QED BY <1>6, <1>7, <1>8 DEF Shape

-----------------------------------------------------------------------------
(* The shape is kept: the readers.                                         *)

\* A family's names are none only as the empty sequence.
LEMMA OwnEmpty ==
  ASSUME NEW g \in Families
  PROVE  Len(Own[g]) = 0 <=> Own[g] = <<>>
<1>1. Own[g] \in Seq(AllNames)
  BY OwnTyped
<1> QED BY <1>1, EmptySeq

\* The tags' places in the array of names are left alone.
LEMMA NamesStay ==
  ASSUME Types, NEW h, NEW g, NEW a, NEW list, BuiltFrom(h, g, a, list), ~mixed'
  PROVE  names.arr = 1 => \A i \in 1..N : nameArr'[i] = nameArr[i]
<1> SUFFICES ASSUME names.arr = 1, NEW i \in 1..N PROVE nameArr'[i] = nameArr[i]
  OBVIOUS
<1>1. i \in 1..Len(nameArr)
  <2>1. Len(nameArr) = Grown(N)
    BY DEF Types, Phases
  <2> QED BY <2>1, Places
<1>2. a = 1 => h.len = N \/ Len(Own[g]) = 0
  BY DEF BuiltFrom
<1>3. CASE a = 1 /\ h.len = N
  <2>1. i \notin h.len+1..h.len+Len(Own[g])
    BY <1>3, Places
  <2> QED BY <1>1, <2>1, BuildWrites
<1>4. CASE Len(Own[g]) = 0
  BY <1>4, BuildWrites
<1>5. CASE a # 1
  BY <1>1, <1>5, BuildWrites
<1> QED BY <1>2, <1>3, <1>4, <1>5

\* A new descriptor has the tags' names first, or none; an older one that shares the
\* array has them still, with some family's names behind them.
LEMMA BuildShaped ==
  ASSUME Types, Shape, Build, proc' = proc, ~mixed'
  PROVE  Shape'
<1>1. PICK h, g, a, list : BuiltFrom(h, g, a, list)
  BY BuildReads
<1>2. /\ UNCHANGED <<Tags, refresher, fresh, names, values, valArr, worker, metric>>
      /\ g = Len(desc) + 1 /\ g \in Families /\ g \in Nat \ {0} /\ g <= Len(Own) /\ a \in {0, 1}
      /\ h.len \in {0, N} /\ (h.len # 0 => names.arr = 1)
      /\ list \in Seq(AllNames) /\ Len(list) = h.len + Len(Own[g])
      /\ a = 1 => names.arr = 1
      /\ a = 1 => h.len = N \/ Len(Own[g]) = 0
      /\ \A i \in 1..h.len : list[i] = nameArr[i]
      /\ \A i \in 1..Len(Own[g]) : list[h.len + i] = Own[g][i]
      /\ desc' = Append(desc, [arr |-> a, was |-> list])
      /\ Len(Own[g]) \in Nat
  BY <1>1 DEF BuiltFrom, tagVars
<1>3. N' = N /\ NoRoom' = NoRoom
  BY <1>2, SameTags DEF NoRoom
<1>4. names.arr = 1 => N # 0 /\ \A i \in 1..N : nameArr'[i] = nameArr[i]
  BY <1>1, NamesStay DEF Types, Phases
<1>5. /\ desc \in Seq([arr : {0, 1}, was : Seq(AllNames)]) /\ Len(desc) \in Nat
      /\ Len(desc') = g /\ desc'[g] = [arr |-> a, was |-> list]
      /\ \A f \in 1..Len(desc) : desc'[f] = desc[f]
      /\ \A f \in 1..g : f \in 1..Len(desc) \/ f = g
  <2>1. desc \in Seq([arr : {0, 1}, was : Seq(AllNames)])
    BY DEF Types, Descs
  <2>2. [arr |-> a, was |-> list] \in [arr : {0, 1}, was : Seq(AllNames)]
    BY <1>2
  <2> QED BY <1>2, <2>1, <2>2
<1>6. Stored'
  BY <1>2, <1>3, <1>4 DEF Shape, Stored
<1>7. Fetched' /\ Valued'
  <2>1. refresher \in {"values", "valuesPtr"} => N = 0 \/ names.arr = 1
    BY DEF Types, Phases
  <2>2. Len(valArr) # 0 => names.arr = 1
    BY DEF Types, Phases
  <2>3. Fetched'
    <3>1. N \in Nat /\ (N = 0 => \A i \in 1..N : FALSE)
      BY Bounds
    <3> QED BY <1>2, <1>3, <1>4, <2>1, <3>1 DEF Shape, Fetched, TagValue
  <2>4. Valued'
    <3>1. Len(valArr) = 0 => \A i \in 1..Len(valArr) : FALSE
      OBVIOUS
    <3> QED BY <1>2, <1>3, <1>4, <2>2, <3>1 DEF Shape, Valued, TagValue
  <2> QED BY <2>3, <2>4
<1>8. DescOf(g)'
  <2>1. CASE h.len = 0
    <3>1. PlainNames(g)'
      <4>1. Len(list) = Len(Own[g]) /\ \A i \in 1..Len(Own[g]) : list[i] = Own[g][i]
        BY <1>2, <2>1
      <4>2. a = 1 => Len(Own[g]) = 0
        BY <1>2, <1>4, <2>1
      <4> QED BY <1>2, <1>5, <4>1, <4>2 DEF PlainNames
    <3>2. KeptNames(g)'
      <4>1. a = 1 => Len(list) = 0
        BY <1>2, <1>4, <2>1
      <4> QED BY <1>5, <4>1 DEF KeptNames
    <3> QED BY <3>1, <3>2 DEF DescOf
  <2>2. CASE h.len # 0
    <3>1. h.len = N /\ names.arr = 1
      BY <1>2, <2>2
    <3>2. /\ \A i \in 1..N : list[i] = nameArr'[i]
          /\ a = 1 => \A i \in 1..Len(Own[g]) : nameArr'[N + i] = Own[g][i]
          /\ \A i \in 1..Len(Own[g]) : list[N + i] = Own[g][i] /\ Own[g][i] \in OwnNames
      BY <1>1, <1>2, <1>4, <3>1, BuildWrites, OwnTyped
    <3>3. TaggedNames(g)'
      BY <1>2, <1>3, <1>5, <3>1, <3>2 DEF TaggedNames
    <3>4. a = 1 => \A i \in 1..Len(list) : nameArr'[i] = list[i]
      <4>1. ASSUME a = 1, NEW i \in 1..Len(list) PROVE nameArr'[i] = list[i]
        <5>1. CASE i \in 1..N
          BY <3>2, <5>1
        <5>2. CASE i \notin 1..N
          <6>1. N \in Nat /\ Len(list) = N + Len(Own[g])
            <7>1. N \in Nat
              BY Places
            <7> QED BY <1>2, <3>1, <7>1
          <6>2. i - N \in 1..Len(Own[g]) /\ i = N + (i - N)
            BY <1>2, <5>2, <6>1
          <6>3. nameArr'[N + (i - N)] = list[N + (i - N)]
            BY <3>2, <4>1, <6>2
          <6> QED BY <6>2, <6>3
        <5> QED BY <5>1, <5>2
      <4> QED BY <4>1
    <3>5. KeptNames(g)'
      BY <1>5, <3>4 DEF KeptNames
    <3> QED BY <3>3, <3>5 DEF DescOf
  <2> QED BY <2>1, <2>2
<1>9. ASSUME NEW f \in 1..Len(desc) PROVE DescOf(f)'
  <2>1. /\ DescOf(f) /\ desc'[f] = desc[f] /\ desc[f] \in [arr : {0, 1}, was : Seq(AllNames)]
        /\ f \in Nat /\ f # g
        /\ desc[f].arr = 1 => names.arr = 1 /\ Len(desc[f].was) <= Len(nameArr)
    <3>1. desc[f] \in [arr : {0, 1}, was : Seq(AllNames)]
      BY <1>5, ElementOfSeq
    <3>2. f \in Nat /\ f # g
      BY <1>2, <1>5
    <3> QED BY <1>5, <3>1, <3>2 DEF Shape, Types, Descs
  <2>2. PlainNames(f) => PlainNames(f)'
    BY <2>1 DEF PlainNames
  <2>3. TaggedNames(f) => TaggedNames(f)'
    <3>1. ASSUME TaggedNames(f), desc[f].arr = 1, NEW i \in 1..Len(Own[f])
          PROVE  nameArr'[N + i] \in OwnNames
      <4>1. nameArr[N + i] \in OwnNames /\ Len(desc[f].was) = N + Len(Own[f])
        BY <3>1 DEF TaggedNames
      <4>2. N + i \in 1..Len(nameArr)
        <5>1. Len(nameArr) \in Nat /\ N \in Nat /\ Len(Own[f]) \in Nat
          <6>1. f \in Families
            <7>1. f <= Len(Own) /\ f \in 1..Len(desc)
              BY <1>2, <1>5
            <7> QED BY <1>5, <7>1 DEF Families, Types, Descs
          <6>2. N \in Nat
            BY Places
          <6>3. Len(nameArr) \in Nat
            BY LenProperties DEF Types, Slices
          <6> QED BY <6>1, <6>2, <6>3, OwnTyped
        <5> QED BY <2>1, <3>1, <4>1, <5>1
      <4> QED BY <1>1, <4>1, <4>2, BuildWrites
    <3> QED BY <1>2, <1>3, <1>4, <2>1, <3>1 DEF TaggedNames
  <2>4. KeptNames(f)'
    <3> SUFFICES ASSUME desc[f].arr = 1, ~Overwritten(f)'
                 PROVE  \A i \in 1..Len(desc[f].was) : nameArr'[i] = desc[f].was[i]
      BY <2>1 DEF KeptNames
    <3>1. a = 0 \/ Own[g] = <<>>
      <4>1. g \in f+1..Len(desc') /\ desc'[g].arr = a /\ desc'[f].arr # 0
        BY <1>2, <1>5, <2>1
      <4> QED BY <4>1 DEF Overwritten
    <3>2. nameArr' = nameArr
      <4>1. CASE a = 0
        BY <1>1, <4>1 DEF BuiltFrom
      <4>2. CASE Own[g] = <<>>
        <5>1. Len(Own[g]) = 0
          BY <1>2, <4>2, OwnEmpty
        <5> QED BY <1>1, <5>1, BuildWrites
      <4> QED BY <3>1, <4>1, <4>2
    <3>3. ~Overwritten(f)
      <4>1. \A e \in f+1..Len(desc) : e \in f+1..Len(desc') /\ desc'[e] = desc[e]
        <5>1. Len(desc') = Len(desc) + 1
          BY <1>2, <1>5
        <5>2. \A e \in f+1..Len(desc) : e \in f+1..Len(desc') /\ e \in 1..Len(desc)
          BY <1>5, <2>1, <5>1
        <5> QED BY <1>5, <5>2
      <4> QED BY <2>1, <4>1 DEF Overwritten
    <3> QED BY <2>1, <3>2, <3>3 DEF DescOf, KeptNames
  <2> QED BY <2>1, <2>2, <2>3, <2>4 DEF DescOf
<1>10. ASSUME NEW w \in Workers
       PROVE  ReadOf(w)' /\ TagsSent(w)' /\ OwnSent(w)' /\ Undisturbed(w)'
  <2>1. worker[w].pc = "idle" /\ metric[w].family = 0
    <3>1. Len(desc) # Len(Own) /\ worker[w] \in Row
      BY <1>2, <1>5 DEF Types, Rows, Descs
    <3>2. metric[w].family # 0 => Len(desc) = Len(Own)
      BY DEF Types, Rows
    <3>3. worker[w].pc # "idle" => Len(desc) = Len(Own)
      BY DEF Types, Rows
    <3> QED BY <3>1, <3>2, <3>3
  <2>2. TagsSent(w)'
    BY <1>2 DEF Shape, TagsSent, TagValue
  <2>3. Undisturbed(w)'
    BY <1>2, <1>3 DEF Shape, Undisturbed
  <2> QED BY <1>2, <2>1, <2>2, <2>3 DEF ReadOf, OwnSent
<1>11. \A f \in 1..Len(desc') : DescOf(f)'
  BY <1>5, <1>8, <1>9
<1> QED BY <1>6, <1>7, <1>10, <1>11 DEF Shape

\* A load begins; the goroutine's last metric is forgotten.
LEMMA LoadShaped ==
  ASSUME Types, Shape, LoadNames \/ \E w \in Workers : LoadValues(w)
  PROVE  Shape'
<1>1. UNCHANGED <<Tags, refresher, fresh, names, values, nameArr, valArr, desc, mixed>>
  BY DEF LoadNames, LoadValues, tagVars
<1>2. N' = N /\ NoRoom' = NoRoom
  BY <1>1, SameTags DEF NoRoom
<1>3. Stored' /\ Fetched' /\ Valued'
  BY <1>1, <1>2 DEF Shape, Stored, Fetched, Valued, TagValue
<1>4. \A f : Overwritten(f)' = Overwritten(f)
  BY <1>1 DEF Overwritten
<1>5. \A f \in 1..Len(desc') : DescOf(f)'
  BY <1>1, <1>2, <1>4 DEF Shape, DescOf, PlainNames, TaggedNames, KeptNames
<1>6. ASSUME NEW v \in Workers, worker'[v] = worker[v], metric'[v] = metric[v]
      PROVE  ReadOf(v)' /\ TagsSent(v)' /\ OwnSent(v)' /\ Undisturbed(v)'
  <2>1. ReadOf(v)'
    BY <1>1, <1>2, <1>6 DEF Shape, ReadOf, PlainValues, TaggedValues, KeptValues, TagValue
  <2>2. TagsSent(v)' /\ OwnSent(v)' /\ Undisturbed(v)'
    BY <1>1, <1>2, <1>4, <1>6 DEF Shape, TagsSent, OwnSent, Undisturbed, TagValue
  <2> QED BY <2>1, <2>2
<1>7. CASE LoadNames
  <2>1. \A v \in Workers : worker'[v] = worker[v] /\ metric'[v] = metric[v]
    BY <1>7 DEF LoadNames
  <2> QED BY <1>3, <1>5, <1>6, <2>1 DEF Shape
<1>8. ASSUME NEW w \in Workers, LoadValues(w) PROVE Shape'
  <2>1. /\ worker' = [worker EXCEPT ![w].pc = "load", ![w].old = values]
        /\ metric' = [metric EXCEPT ![w] = Nothing]
        /\ worker \in [Workers -> Row] /\ worker[w] \in Row
    BY <1>8 DEF LoadValues, Types, Rows
  <2>2. ASSUME NEW v \in Workers, v # w PROVE worker'[v] = worker[v] /\ metric'[v] = metric[v]
    BY <2>1, <2>2 DEF Types, Rows
  <2>3. worker'[w].pc = "load" /\ worker'[w].over = worker[w].over /\ metric'[w] = Nothing
    BY <2>1 DEF Types, Rows, Row
  <2>4. ReadOf(w)' /\ TagsSent(w)' /\ OwnSent(w)' /\ Undisturbed(w)'
    BY <1>2, <2>3 DEF Shape, ReadOf, TagsSent, OwnSent, Undisturbed, Nothing
  <2> QED BY <1>3, <1>5, <1>6, <2>2, <2>4 DEF Shape
<1> QED BY <1>7, <1>8

\* The tags' places in every array of values are left alone.
LEMMA ValuesStay ==
  ASSUME Types, NEW w \in Workers, NEW f, NEW h, NEW a, NEW arr, NEW list,
         ReadFrom(w, f, h, a, arr, list), ~mixed',
         NEW j \in 1..Len(valArr), NEW i \in 1..N
  PROVE  valArr'[j][i] = valArr[j][i]
<1>1. i \in 1..Grown(N) /\ N \in Nat
  BY Bounds
<1>2. a # 0 => h.len = N \/ Len(Own[f]) = 0
  BY DEF ReadFrom
<1>3. Len(Own[f]) = 0 => valArr' = valArr
  BY AppendWrites
<1>4. j # a => valArr'[j] = valArr[j]
  BY AppendWrites
<1>5. \/ valArr'[j][i] = valArr[j][i]
      \/ j = a /\ i \in h.len+1..h.len+Len(Own[f])
  BY <1>1, AppendWrites
<1>6. i \notin N+1..N+Len(Own[f])
  BY <1>1
<1>7. j # 0
  BY Bounds
<1> QED BY <1>2, <1>3, <1>5, <1>6, <1>7

\* The goroutine has the tags' values first, or none; another one that shares the array
\* has them still, and some row's values behind them.
LEMMA AppendShaped ==
  ASSUME Types, Shape, NEW w \in Workers, NEW f \in Families, AppendValues(w, f),
         proc' = proc, ~mixed'
  PROVE  Shape'
<1>1. PICK h, a, arr, list : ReadFrom(w, f, h, a, arr, list)
  BY AppendReads
<1>2. /\ UNCHANGED <<Tags, refresher, fresh, names, values, nameArr, desc, metric>>
      /\ a \in {0, h.arr} /\ h.len \in {0, N} /\ h.len \in Nat /\ Len(Own[f]) \in Nat
      /\ h.arr # 0 => h.arr \in 1..Len(valArr) /\ Len(arr) = Grown(N) /\ arr = valArr[h.arr]
      /\ h.len # 0 => h.arr # 0
      /\ a # 0 => h.len + Len(Own[f]) <= Len(arr)
      /\ a # 0 => h.len = N \/ Len(Own[f]) = 0
      /\ Len(list) = h.len + Len(Own[f])
      /\ \A i \in 1..h.len : list[i] = arr[i]
      /\ \A i \in 1..Len(Own[f]) : list[h.len + i] = OwnValue(w, Own[f][i])
      /\ worker' = [v \in Workers |->
           IF v = w THEN [pc |-> "make", old |-> Nil, family |-> f, arr |-> a,
                          was |-> list, over |-> FALSE]
           ELSE IF Len(Own[f]) > 0 /\ Disturbed(v, w, a) THEN [worker[v] EXCEPT !.over = TRUE]
           ELSE worker[v]]
  BY <1>1 DEF ReadFrom, ArrayOf
<1>3. N' = N /\ NoRoom' = NoRoom
  BY <1>2, SameTags DEF NoRoom
<1>4. /\ Len(valArr') = Len(valArr) /\ Len(valArr) \in Nat /\ N \in Nat /\ Grown(N) \in Nat
      /\ N <= Grown(N) /\ worker \in [Workers -> Row]
      /\ \A j \in 1..Len(valArr) : \A i \in 1..N : valArr'[j][i] = valArr[j][i]
  <2>1. Len(valArr') = Len(valArr)
    BY <1>1, AppendWrites
  <2>2. \A j \in 1..Len(valArr) : \A i \in 1..N : valArr'[j][i] = valArr[j][i]
    BY <1>1, ValuesStay
  <2>3. worker \in [Workers -> Row]
    BY DEF Types, Rows
  <2>4. Len(valArr) \in Nat
    BY Bounds
  <2> QED BY <2>1, <2>2, <2>3, <2>4, Places
<1>5. Stored' /\ Fetched'
  BY <1>2, <1>3 DEF Shape, Stored, Fetched, TagValue
<1>6. Valued'
  BY <1>2, <1>3, <1>4 DEF Shape, Valued, TagValue
<1>7. \A g : Overwritten(g)' = Overwritten(g)
  BY <1>2 DEF Overwritten
<1>8. \A g \in 1..Len(desc') : DescOf(g)'
  BY <1>2, <1>3, <1>7 DEF Shape, DescOf, PlainNames, TaggedNames, KeptNames
<1>9. worker'[w] = [pc |-> "make", old |-> Nil, family |-> f, arr |-> a, was |-> list, over |-> FALSE]
  BY <1>2
<1>10. ReadOf(w)'
  <2> DEFINE own == Own[f]
  <2>1. a # 0 => a = h.arr /\ a \in 1..Len(valArr)
    BY <1>2
  <2>2. CASE h.len = 0
    <3>1. Len(list) = Len(own) /\ \A i \in 1..Len(own) : list[i] = OwnValue(w, own[i])
      BY <1>2, <2>2
    <3>2. a # 0 => Len(own) = 0
      <4>1. a # 0 => N # 0
        <5>1. a # 0 => Len(valArr) # 0
          BY <1>4, <2>1
        <5> QED BY <5>1 DEF Types, Phases
      <4> QED BY <1>2, <2>2, <4>1
    <3>3. PlainValues(w)'
      BY <1>9, <3>1, <3>2 DEF PlainValues, OwnValue
    <3>4. KeptValues(w)'
      BY <1>9, <3>1, <3>2 DEF KeptValues
    <3> QED BY <3>3, <3>4 DEF ReadOf
  <2>3. CASE h.len # 0
    <3>1. h.len = N /\ h.arr \in 1..Len(valArr) /\ arr = valArr[h.arr] /\ names.arr = 1
      <4>1. h.len = N /\ h.arr \in 1..Len(valArr) /\ arr = valArr[h.arr]
        BY <1>2, <2>3
      <4>2. Len(valArr) # 0
        BY <1>4, <4>1
      <4> QED BY <4>1, <4>2 DEF Types, Phases
    <3>2. \A i \in 1..N : list[i] = TagValue(nameArr[i])
      BY <1>2, <3>1 DEF Shape, Valued
    <3>3. a # 0 => \A i \in 1..Len(own) : /\ valArr'[a][N + i] = OwnValue(w, own[i])
                                          /\ valArr'[a][N + i] \in Workers \X OwnNames
      <4>1. \A i \in 1..Len(own) : OwnValue(w, own[i]) \in Workers \X OwnNames
        BY OwnTyped DEF OwnValue
      <4>2. a # 0 => \A i \in 1..Len(own) : valArr'[a][N + i] = OwnValue(w, own[i])
        BY <1>1, <3>1, AppendWrites
      <4> QED BY <4>1, <4>2
    <3>4. TaggedValues(w)'
      BY <1>2, <1>3, <1>9, <3>1, <3>2, <3>3 DEF TaggedValues, TagValue, OwnValue
    <3>5. a # 0 => \A i \in 1..Len(list) : valArr'[a][i] = list[i]
      <4> SUFFICES ASSUME a # 0, NEW i \in 1..Len(list) PROVE valArr'[a][i] = list[i]
        OBVIOUS
      <4>1. CASE i \in 1..N
        <5>1. valArr'[a][i] = valArr[a][i] /\ list[i] = arr[i]
          BY <1>2, <1>4, <2>1, <3>1, <4>1
        <5> QED BY <2>1, <3>1, <5>1
      <4>2. CASE i \notin 1..N
        <5>1. i - N \in 1..Len(own) /\ i = N + (i - N)
          <6>1. Len(list) = N + Len(own)
            BY <1>2, <3>1
          <6> QED BY <1>2, <1>4, <4>2, <6>1
        <5>2. valArr'[a][N + (i - N)] = list[N + (i - N)]
          BY <1>2, <3>1, <3>3, <5>1
        <5> QED BY <5>1, <5>2
      <4> QED BY <4>1, <4>2
    <3>6. KeptValues(w)'
      BY <1>9, <3>5 DEF KeptValues
    <3> QED BY <3>4, <3>6 DEF ReadOf
  <2> QED BY <2>2, <2>3
<1>11. ASSUME NEW v \in Workers, v # w PROVE ReadOf(v)'
  <2>1. /\ ReadOf(v) /\ worker[v] \in Row
        /\ worker[v].arr # 0 => Len(worker[v].was) <= Grown(N)
    BY <1>4 DEF Shape, Types, Rows
  <2>2. \/ worker'[v] = worker[v] /\ ~(Len(Own[f]) > 0 /\ Disturbed(v, w, a))
        \/ worker'[v] = [worker[v] EXCEPT !.over = TRUE]
    BY <1>2, <1>11
  <2>3. /\ worker'[v].pc = worker[v].pc /\ worker'[v].arr = worker[v].arr
        /\ worker'[v].was = worker[v].was /\ worker'[v].family = worker[v].family
        /\ ~worker'[v].over => ~worker[v].over /\ ~(Len(Own[f]) > 0 /\ Disturbed(v, w, a))
    BY <2>1, <2>2 DEF Row
  <2>4. worker[v].arr # 0 => worker[v].arr \in 1..Len(valArr)
    BY <1>4, <2>1 DEF Row
  <2> SUFFICES ASSUME worker[v].pc = "make"
               PROVE  (PlainValues(v) \/ TaggedValues(v))' /\ KeptValues(v)'
    BY <2>3 DEF ReadOf
  <2>5. PlainValues(v) => PlainValues(v)'
    BY <2>3 DEF PlainValues, OwnValue
  <2>6. TaggedValues(v) => TaggedValues(v)'
    <3> DEFINE own == Own[worker[v].family]
    <3>1. ASSUME TaggedValues(v), worker[v].arr # 0, NEW i \in 1..Len(own)
          PROVE  valArr'[worker[v].arr][N + i] \in Workers \X OwnNames
      <4>1. /\ valArr[worker[v].arr][N + i] \in Workers \X OwnNames
            /\ Len(worker[v].was) = N + Len(own)
        BY <3>1 DEF TaggedValues
      <4>2. N + i \in 1..Grown(N)
        <5>1. worker[v].family \in Families
          BY DEF Types, Rows
        <5>2. Len(own) \in Nat
          BY <5>1, OwnTyped
        <5> QED BY <1>4, <2>1, <3>1, <4>1, <5>2
      <4> QED BY <1>1, <2>4, <3>1, <4>1, <4>2, AppendWrites
    <3>2. ASSUME TaggedValues(v)
          PROVE  /\ names.arr = 1 /\ Len(worker[v].was) = N + Len(own)
                 /\ \A i \in 1..N : worker[v].was[i] = <<nameArr[i]>>
                 /\ \A i \in 1..Len(own) : worker[v].was[N + i] = <<v, own[i]>>
      BY <3>2 DEF TaggedValues, TagValue, OwnValue
    <3>3. TaggedValues(v) /\ worker[v].arr # 0 =>
            \A i \in 1..Len(own) : valArr'[worker[v].arr][N + i] \in Workers \X OwnNames
      BY <3>1
    <3> HIDE DEF own
    <3> SUFFICES ASSUME TaggedValues(v) PROVE TaggedValues(v)'
      OBVIOUS
    <3>4. /\ names'.arr = 1 /\ Len(worker'[v].was) = N' + Len(own)
          /\ \A i \in 1..N' : worker'[v].was[i] = <<nameArr'[i]>>
          /\ \A i \in 1..Len(own) : worker'[v].was[N' + i] = <<v, own[i]>>
      BY <1>2, <1>3, <2>3, <3>2
    <3>5. worker'[v].arr # 0 =>
            \A i \in 1..Len(own) : valArr'[worker'[v].arr][N' + i] \in Workers \X OwnNames
      BY <1>3, <2>3, <3>3
    <3>6. own = Own[worker'[v].family]
      BY <2>3 DEF own
    <3> QED BY <3>4, <3>5, <3>6 DEF TaggedValues, TagValue, OwnValue
  <2>7. KeptValues(v)'
    <3> SUFFICES ASSUME worker[v].arr # 0, ~worker'[v].over
                 PROVE  valArr'[worker[v].arr] = valArr[worker[v].arr]
      BY <2>1, <2>3 DEF ReadOf, KeptValues
    <3>1. worker[v].arr # a \/ Len(Own[f]) = 0
      BY <1>2, <1>11, <2>3 DEF Disturbed
    <3> QED BY <1>1, <2>4, <3>1, AppendWrites
  <2> QED BY <2>1, <2>5, <2>6, <2>7 DEF ReadOf
<1>12. ASSUME NEW v \in Workers PROVE TagsSent(v)' /\ OwnSent(v)' /\ Undisturbed(v)'
  <2>1. TagsSent(v)' /\ OwnSent(v)'
    BY <1>2, <1>7 DEF Shape, TagsSent, OwnSent, TagValue, OwnValue
  <2>2. NoRoom => a = 0 \/ Len(Own[f]) = 0
    <3>1. NoRoom => Grown(N) = N
      BY GrownExact DEF NoRoom
    <3> QED BY <1>2, <1>4, <3>1
  <2>3. NoRoom => worker'[v] = worker[v] \/ ~worker'[v].over
    BY <1>2, <2>2 DEF Disturbed
  <2>4. Undisturbed(v)'
    BY <1>2, <1>3, <2>3 DEF Shape, Undisturbed
  <2> QED BY <2>1, <2>4
<1>13. \A v \in Workers : ReadOf(v)' /\ TagsSent(v)' /\ OwnSent(v)' /\ Undisturbed(v)'
  BY <1>10, <1>11, <1>12
<1> QED BY <1>5, <1>6, <1>8, <1>13 DEF Shape

\* The pairs that goroutine w makes of its descriptor's names and its values, and those
\* of them that carry a tag's value.
PairsOf(w) ==
  LET d == desc[worker[w].family]
  IN  {<<NameAt(d, i), ValueAt(worker[w], i)>> : i \in 1..Len(d.was)}
TaggedIn(pairs) == {p \in pairs : \E t \in Tags : p[2] = TagValue(t)}

\* The metric has every tag's value under the tag's name, or no tag's; its other names
\* are families' own.
LEMMA MakeSends ==
  ASSUME Types, Shape, NEW w \in Workers, worker[w].pc = "make",
         Len(desc[worker[w].family].was) = Len(worker[w].was)
  PROVE  /\ TaggedIn(PairsOf(w)) = {} \/ TaggedIn(PairsOf(w)) = {<<t, TagValue(t)>> : t \in Tags}
         /\ \A p \in PairsOf(w) \ TaggedIn(PairsOf(w)) : p[1] \in OwnNames
         /\ ~worker[w].over /\ ~Overwritten(worker[w].family) =>
              \A i \in 1..Len(Own[worker[w].family]) :
                <<Own[worker[w].family][i], OwnValue(w, Own[worker[w].family][i])>> \in PairsOf(w)
<1> SUFFICES ASSUME NEW f, f = worker[w].family, NEW n, n = Len(desc[f].was),
                    n = Len(worker[w].was), NEW pairs, pairs = PairsOf(w),
                    NEW tagged, tagged = TaggedIn(pairs)
             PROVE  /\ tagged = {} \/ tagged = {<<t, TagValue(t)>> : t \in Tags}
                    /\ \A p \in pairs \ tagged : p[1] \in OwnNames
                    /\ ~worker[w].over /\ ~Overwritten(f) =>
                         \A i \in 1..Len(Own[f]) : <<Own[f][i], OwnValue(w, Own[f][i])>> \in pairs
  OBVIOUS
<1>0. /\ pairs = {<<NameAt(desc[f], i), ValueAt(worker[w], i)>> : i \in 1..n}
      /\ tagged = {p \in pairs : \E t \in Tags : p[2] = TagValue(t)}
  BY DEF PairsOf, TaggedIn
<1> DEFINE own == Own[f]
           m == Len(own)
           Name(i) == NameAt(desc[f], i)
           Value(i) == ValueAt(worker[w], i)
<1>1. /\ f \in Families /\ f \in 1..Len(desc) /\ m \in Nat /\ N \in Nat
      /\ \A i \in 1..m : own[i] \in OwnNames
      /\ desc[f].arr \in {0, 1}
  <2>1. f \in Families /\ f \in 1..Len(desc)
    BY DEF Types, Rows, Families
  <2>2. desc[f] \in [arr : {0, 1}, was : Seq(AllNames)]
    BY <2>1, ElementOfSeq DEF Types, Descs
  <2>3. m \in Nat /\ \A i \in 1..m : own[i] \in OwnNames
    BY <2>1, OwnTyped
  <2>4. desc[f].arr \in {0, 1}
    BY <2>2
  <2>5. N \in Nat
    BY Places
  <2> QED BY <2>1, <2>3, <2>4, <2>5
<1>2. /\ PlainNames(f) \/ TaggedNames(f)
      /\ PlainValues(w) \/ TaggedValues(w)
      /\ KeptNames(f) /\ KeptValues(w)
  BY <1>1 DEF Shape, DescOf, ReadOf
<1>3. names.arr = 1 => N # 0
  BY DEF Types, Phases
<1>4. \A v \in Workers \X OwnNames : \A t \in Tags : v # TagValue(t)
  BY DEF TagValue
<1>5. /\ \A i \in 1..n : Name(i) = IF desc[f].arr = 0 THEN desc[f].was[i] ELSE nameArr[i]
      /\ \A i \in 1..n : Value(i) = IF worker[w].arr = 0 THEN worker[w].was[i]
                                    ELSE valArr[worker[w].arr][i]
  BY DEF NameAt, ValueAt
<1>6. /\ ~Overwritten(f) => \A i \in 1..n : Name(i) = desc[f].was[i]
      /\ ~worker[w].over => \A i \in 1..n : Value(i) = worker[w].was[i]
  BY <1>1, <1>2, <1>5 DEF KeptNames, KeptValues
<1>7. pairs = {<<Name(i), Value(i)>> : i \in 1..n}
  BY <1>0
<1>8. CASE PlainNames(f) /\ PlainValues(w)
  <2>1. /\ n = m /\ (m = 0 \/ (desc[f].arr = 0 /\ worker[w].arr = 0))
        /\ \A i \in 1..m : /\ desc[f].was[i] = own[i]
                           /\ worker[w].was[i] = OwnValue(w, own[i])
    <3>1. /\ n = m /\ (m = 0 \/ desc[f].arr = 0)
          /\ \A i \in 1..m : desc[f].was[i] = own[i]
      BY <1>8 DEF PlainNames
    <3>2. (m = 0 \/ worker[w].arr = 0) /\ \A i \in 1..m : worker[w].was[i] = OwnValue(w, own[i])
      BY <1>8 DEF PlainValues
    <3> QED BY <3>1, <3>2
  <2> HIDE DEF Name, Value, m, own
  <2>2. \A i \in 1..n : Name(i) = own[i] /\ Value(i) = OwnValue(w, own[i])
    <3>1. CASE m = 0
      BY <2>1, <3>1
    <3>2. CASE desc[f].arr = 0 /\ worker[w].arr = 0
      BY <1>5, <2>1, <3>2
    <3> QED BY <2>1, <3>1, <3>2
  <2>3. \A i \in 1..n : Name(i) \in OwnNames /\ Value(i) \in Workers \X OwnNames
    BY <1>1, <2>1, <2>2 DEF OwnValue
  <2>4. \A p \in pairs : p[1] \in OwnNames /\ p[2] \in Workers \X OwnNames
    BY <1>7, <2>3
  <2>5. tagged = {}
    BY <1>0, <1>4, <2>4
  <2>6. \A i \in 1..m : <<own[i], OwnValue(w, own[i])>> \in pairs
    BY <1>7, <2>1, <2>2
  <2> QED BY <2>4, <2>5, <2>6 DEF m, own
<1>9. CASE TaggedNames(f) /\ TaggedValues(w)
  <2>1. /\ n = N + m /\ names.arr = 1
        /\ \A i \in 1..N : desc[f].was[i] = nameArr[i] /\ worker[w].was[i] = TagValue(nameArr[i])
        /\ \A i \in 1..m : /\ desc[f].was[N + i] = own[i]
                           /\ worker[w].was[N + i] = OwnValue(w, own[i])
                           /\ desc[f].arr = 1 => nameArr[N + i] \in OwnNames
                           /\ worker[w].arr # 0 =>
                                valArr[worker[w].arr][N + i] \in Workers \X OwnNames
    BY <1>9 DEF TaggedNames, TaggedValues
  <2>2. worker[w].arr # 0 => \A i \in 1..N : valArr[worker[w].arr][i] = TagValue(nameArr[i])
    <3>1. worker[w].arr \in 0..Len(valArr) /\ Len(valArr) \in Nat
      <4>1. worker[w] \in Row
        BY DEF Types, Rows
      <4> QED BY <4>1, Bounds DEF Row
    <3>2. worker[w].arr # 0 => worker[w].arr \in 1..Len(valArr)
      BY <3>1
    <3> QED BY <3>2 DEF Shape, Valued
  <2>3. \A i \in 1..N : i \in 1..n
    BY <1>1, <2>1
  <2>4. \A i \in 1..m : N + i \in 1..n
    BY <1>1, <2>1
  <2> HIDE DEF Name, Value, m, own
  <2>5. \A i \in 1..N : Name(i) = nameArr[i] /\ Value(i) = TagValue(nameArr[i])
    BY <1>1, <1>5, <2>1, <2>2, <2>3
  <2>6. \A i \in 1..m : Name(N + i) \in OwnNames /\ Value(N + i) \in Workers \X OwnNames
    <3> SUFFICES ASSUME NEW i \in 1..m
                 PROVE  Name(N + i) \in OwnNames /\ Value(N + i) \in Workers \X OwnNames
      OBVIOUS
    <3>1. own[i] \in OwnNames /\ OwnValue(w, own[i]) \in Workers \X OwnNames
      BY <1>1 DEF OwnValue
    <3>2. /\ N + i \in 1..n /\ desc[f].was[N + i] = own[i]
          /\ worker[w].was[N + i] = OwnValue(w, own[i])
      BY <2>1, <2>4
    <3>3. Name(N + i) \in OwnNames
      <4>1. CASE desc[f].arr = 0
        BY <1>5, <3>1, <3>2, <4>1
      <4>2. CASE desc[f].arr = 1
        BY <1>5, <2>1, <3>2, <4>2
      <4> QED BY <1>1, <4>1, <4>2
    <3>4. Value(N + i) \in Workers \X OwnNames
      <4>1. CASE worker[w].arr = 0
        BY <1>5, <3>1, <3>2, <4>1
      <4>2. CASE worker[w].arr # 0
        BY <1>5, <2>1, <3>2, <4>2
      <4> QED BY <4>1, <4>2
    <3> QED BY <3>3, <3>4
  <2>7. \A i \in 1..n : i \in 1..N \/ (i - N \in 1..m /\ i = N + (i - N))
    BY <1>1, <2>1
  <2>8. ASSUME NEW p \in pairs
        PROVE  \/ \E i \in 1..N : p = <<nameArr[i], TagValue(nameArr[i])>>
               \/ p[1] \in OwnNames /\ p[2] \in Workers \X OwnNames
    <3>1. PICK i \in 1..n : p = <<Name(i), Value(i)>>
      BY <1>7
    <3>2. CASE i \in 1..N
      BY <2>5, <3>1, <3>2
    <3>3. CASE i - N \in 1..m /\ i = N + (i - N)
      <4>1. Name(N + (i - N)) \in OwnNames /\ Value(N + (i - N)) \in Workers \X OwnNames
        BY <2>6, <3>3
      <4>2. Name(i) \in OwnNames /\ Value(i) \in Workers \X OwnNames
        BY <3>3, <4>1
      <4> QED BY <3>1, <4>2
    <3> QED BY <2>7, <3>2, <3>3
  <2>9. \A i \in 1..N : nameArr[i] \in Tags /\ <<nameArr[i], TagValue(nameArr[i])>> \in pairs
    BY <1>7, <2>1, <2>3, <2>5 DEF Shape, Stored
  <2>10. \A t \in Tags : \E i \in 1..N : nameArr[i] = t
    BY <2>1 DEF Shape, Stored
  <2>11. tagged = {<<t, TagValue(t)>> : t \in Tags}
    <3>1. ASSUME NEW p \in tagged PROVE p \in {<<t, TagValue(t)>> : t \in Tags}
      <4>1. p \in pairs /\ ~(p[2] \in Workers \X OwnNames)
        BY <1>0, <1>4
      <4> QED BY <2>8, <2>9, <4>1
    <3>2. ASSUME NEW t \in Tags PROVE <<t, TagValue(t)>> \in tagged
      <4>1. <<t, TagValue(t)>> \in pairs
        BY <2>9, <2>10
      <4> QED BY <1>0, <4>1
    <3> QED BY <3>1, <3>2
  <2>12. \A p \in pairs \ tagged : p[1] \in OwnNames
    <3>1. ASSUME NEW p \in pairs, p \notin tagged PROVE p[1] \in OwnNames
      <4>1. \A i \in 1..N : p # <<nameArr[i], TagValue(nameArr[i])>>
        BY <2>9, <2>11, <3>1
      <4> QED BY <2>8, <4>1
    <3> QED BY <3>1
  <2>13. ASSUME ~worker[w].over, ~Overwritten(f), NEW i \in 1..m
         PROVE  <<own[i], OwnValue(w, own[i])>> \in pairs
    <3>1. Name(N + i) = own[i] /\ Value(N + i) = OwnValue(w, own[i])
      BY <1>6, <2>1, <2>4, <2>13
    <3> QED BY <1>7, <2>4, <3>1
  <2> QED BY <2>11, <2>12, <2>13 DEF m, own
<1>10. CASE (PlainNames(f) /\ TaggedValues(w)) \/ (TaggedNames(f) /\ PlainValues(w))
  <2>1. names.arr = 1 /\ m = N + m
    BY <1>10 DEF PlainNames, PlainValues, TaggedNames, TaggedValues
  <2> QED BY <1>1, <1>3, <2>1
<1>11. \/ PlainNames(f) /\ PlainValues(w)
       \/ TaggedNames(f) /\ TaggedValues(w)
       \/ PlainNames(f) /\ TaggedValues(w)
       \/ TaggedNames(f) /\ PlainValues(w)
  BY <1>2
<1> HIDE DEF own, m, Name, Value
<1> QED BY <1>8, <1>9, <1>10, <1>11, Zenon


\* A metric that is sent is as its goroutine had it.
LEMMA MakeShaped ==
  ASSUME Types, Shape, NEW w \in Workers, MakeMetric(w), proc' = proc
  PROVE  Shape'
<1> DEFINE f == worker[w].family
           n == Len(desc[f].was)
           pairs == {<<NameAt(desc[f], i), ValueAt(worker[w], i)>> : i \in 1..n}
<1>1. /\ worker[w].pc = "make" /\ n = Len(worker[w].was)
      /\ metric' = [metric EXCEPT ![w] =
           [family |-> f, over |-> worker[w].over, pairs |-> pairs]]
      /\ worker' = [worker EXCEPT ![w] = Resting]
      /\ UNCHANGED <<Tags, proc, tagVars, nameArr, builder, desc, mixed>>
  BY DEF MakeMetric, Die, Running
<1>2. UNCHANGED <<Tags, refresher, fresh, names, values, nameArr, valArr, desc, mixed>>
  BY <1>1 DEF tagVars
<1>3. N' = N /\ NoRoom' = NoRoom
  BY <1>2, SameTags DEF NoRoom
<1>4. Stored' /\ Fetched' /\ Valued'
  BY <1>2, <1>3 DEF Shape, Stored, Fetched, Valued, TagValue
<1>5. \A g : Overwritten(g)' = Overwritten(g)
  BY <1>2 DEF Overwritten
<1>6. \A g \in 1..Len(desc') : DescOf(g)'
  BY <1>2, <1>3, <1>5 DEF Shape, DescOf, PlainNames, TaggedNames, KeptNames
<1>7. ASSUME NEW v \in Workers, v # w
      PROVE  ReadOf(v)' /\ TagsSent(v)' /\ OwnSent(v)' /\ Undisturbed(v)'
  <2>1. worker'[v] = worker[v] /\ metric'[v] = metric[v]
    BY <1>1, <1>7 DEF Types, Rows
  <2>2. ReadOf(v)'
    BY <1>2, <1>3, <2>1 DEF Shape, ReadOf, PlainValues, TaggedValues, KeptValues, TagValue
  <2>3. TagsSent(v)' /\ OwnSent(v)' /\ Undisturbed(v)'
    BY <1>2, <1>3, <1>5, <2>1 DEF Shape, TagsSent, OwnSent, Undisturbed, TagValue
  <2> QED BY <2>2, <2>3
<1>8. /\ worker'[w] = Resting
      /\ metric'[w] = [family |-> f, over |-> worker[w].over, pairs |-> pairs]
  BY <1>1 DEF Types, Rows
<1>9. ReadOf(w)' /\ Undisturbed(w)'
  BY <1>3, <1>8 DEF Shape, ReadOf, Undisturbed, Resting
<1>10. TagsSent(w)' /\ OwnSent(w)'
  <2>0. pairs = PairsOf(w)
    BY DEF PairsOf
  <2> DEFINE tagged == TaggedIn(pairs)
  <2>1. /\ tagged = {} \/ tagged = {<<t, TagValue(t)>> : t \in Tags}
        /\ \A p \in pairs \ tagged : p[1] \in OwnNames
        /\ ~worker[w].over /\ ~Overwritten(f) =>
             \A i \in 1..Len(Own[f]) : <<Own[f][i], OwnValue(w, Own[f][i])>> \in pairs
    <3> HIDE DEF pairs
    <3> QED BY <1>1, <2>0, MakeSends
  <2>2. metric'[w].pairs = pairs /\ metric'[w].family = f /\ metric'[w].over = worker[w].over
    BY <1>8
  <2> HIDE DEF f, pairs
  <2>3. TagsSent(w)'
    BY <1>2, <2>1, <2>2 DEF TagsSent, TaggedIn, TagValue
  <2>4. OwnSent(w)'
    BY <1>5, <2>1, <2>2 DEF OwnSent, OwnValue
  <2> QED BY <2>3, <2>4
<1> QED BY <1>4, <1>6, <1>7, <1>9, <1>10 DEF Shape

\* The process ends, and nothing else changes.
LEMMA DieShaped ==
  ASSUME Types, Shape, UNCHANGED <<Tags, tagVars, nameArr, readVars>>
  PROVE  Shape'
<1>1. UNCHANGED <<Tags, refresher, fresh, names, values, nameArr, valArr>>
  BY DEF tagVars
<1>2. N' = N
  BY <1>1, SameTags
<1>3. Stored' /\ Fetched' /\ Valued'
  BY <1>1, <1>2 DEF Shape, Stored, Fetched, Valued, TagValue
<1> QED BY <1>1, <1>3, ReadersShaped DEF Shape

\* There is no array, no descriptor and no metric at first.
LEMMA StartShaped ==
  ASSUME Init
  PROVE  Shape
<1>1. /\ refresher = "idle" /\ names.arr = 0 /\ Len(valArr) = 0 /\ Len(desc) = 0
      /\ \A w \in Workers : worker[w] = Resting /\ metric[w] = Nothing
  <2>1. Len(<<>>) = 0
    OBVIOUS
  <2> QED BY <2>1 DEF Init, Nil
<1>2. /\ \A k \in 1..Len(valArr) : FALSE
      /\ \A f \in 1..Len(desc) : FALSE
  BY <1>1
<1>3. Stored /\ Fetched /\ Valued
  BY <1>1, <1>2 DEF Stored, Fetched, Valued
<1>4. \A w \in Workers : ReadOf(w) /\ TagsSent(w) /\ OwnSent(w) /\ Undisturbed(w)
  BY <1>1 DEF ReadOf, TagsSent, OwnSent, Undisturbed, Resting, Nothing
<1> QED BY <1>2, <1>3, <1>4 DEF Shape

\* The tags that an append has written over stay so.
LEMMA MixedStays ==
  ASSUME Types, [Next]_vars
  PROVE  mixed => mixed'
<1>1. mixed \in BOOLEAN
  BY DEF Types, Descs
<1>2. CASE Refresh \/ Rest \/ UNCHANGED vars
  BY <1>1, <1>2 DEF Refresh, FirstFetch, NextFetch, FetchPanics, StoreNames, StoreNamesPointer,
     StoreValues, StoreValuesPointer, Rest, Die, readVars, vars
<1>3. CASE Construct
  BY <1>1, <1>3 DEF Construct, LoadNames, Build, Die, readVars
<1>4. ASSUME NEW w \in Workers, Scrape(w) PROVE mixed => mixed'
  BY <1>1, <1>4 DEF Scrape, LoadValues, AppendValues, MakeMetric, Die, readVars
<1> QED BY <1>2, <1>3, <1>4 DEF Next

\* Every step keeps the shape, unless it writes over the tags.
LEMMA StepShaped ==
  ASSUME Types, Shape, [Next]_vars, ~mixed'
  PROVE  Shape'
<1>1. CASE UNCHANGED <<Tags, tagVars, nameArr, readVars>>
  BY <1>1, DieShaped
<1>2. CASE Construct
  <2>1. CASE LoadNames
    BY <2>1, LoadShaped
  <2>2. CASE Build /\ proc' = proc
    BY <2>2, BuildShaped
  <2>3. CASE Build /\ proc' # proc
    BY <1>1, <2>3 DEF Build, Die
  <2> QED BY <1>2, <2>1, <2>2, <2>3 DEF Construct
<1>3. CASE Refresh
  <2>1. CASE FetchPanics
    BY <1>1, <2>1 DEF FetchPanics, Die
  <2> QED BY <1>3, <2>1, FetchShaped, LengthShaped, NamesPointerShaped, ValuesPointerShaped
         DEF Refresh
<1>4. ASSUME NEW w \in Workers, Scrape(w) PROVE Shape'
  <2>1. CASE LoadValues(w)
    BY <2>1, LoadShaped
  <2>2. ASSUME NEW f \in Families, AppendValues(w, f) PROVE Shape'
    <3>1. CASE proc' = proc
      BY <2>2, <3>1, AppendShaped
    <3>2. CASE proc' # proc
      BY <1>1, <2>2, <3>2 DEF AppendValues, Die
    <3> QED BY <3>1, <3>2
  <2>3. CASE MakeMetric(w) /\ proc' = proc
    BY <2>3, MakeShaped
  <2>4. CASE MakeMetric(w) /\ proc' # proc
    BY <1>1, <2>4 DEF MakeMetric, Die
  <2> QED BY <1>4, <2>1, <2>2, <2>3, <2>4 DEF Scrape
<1>5. CASE Rest \/ UNCHANGED vars
  <2>1. UNCHANGED <<Tags, tagVars, nameArr, readVars>>
    BY <1>5 DEF Rest, vars, readVars
  <2> QED BY <1>1, <2>1
<1> QED BY <1>2, <1>3, <1>4, <1>5 DEF Next

\* The inductive invariant holds in every state.
LEMMA AlwaysShaped == Spec => []IInv
<1>1. Init => IInv
  BY StartTyped, StartShaped DEF IInv
<1>2. IInv /\ [Next]_vars => IInv'
  BY StepTyped, MixedStays, StepShaped DEF IInv
<1> QED BY <1>1, <1>2, PTL DEF Spec

-----------------------------------------------------------------------------
(* The properties, for any tags, families, goroutines and refreshes, as    *)
(* long as no reader has appended over the tags themselves.                *)

\* As long as no append has written over the tags, the value at a position of
\* TagLabelValues belongs to the name at the same position of TagLabelNames, at every
\* moment of every refresh (auxiliaryfunctions.go:46-53, 143-158).
THEOREM AlwaysAligned == Spec => []Aligned
<1>1. IInv => Aligned
  <2> SUFFICES ASSUME IInv, values.arr # 0, ~mixed
               PROVE  \A i \in 1..N : valArr[values.arr][i] = TagValue(nameArr[i])
    BY DEF Aligned
  <2>1. values.arr \in 1..Len(valArr)
    BY Bounds DEF IInv
  <2> QED BY <2>1 DEF IInv, Shape, Valued
<1> QED BY <1>1, AlwaysShaped, PTL

\* As long as no append has written over the tags, a metric has every tag's value under
\* the tag's name, or no tag's value at all, and its other names are families' own:
\* whatever the tags are named, the lengths, capacities and pointers a reader loads while
\* they are stored, and the other readers append (templatedcollector.go:75-85).
THEOREM AllOrNone == Spec => []TagsAllOrNone
<1>1. IInv => TagsAllOrNone
  BY DEF IInv, Shape, TagsSent, TagsAllOrNone
<1> QED BY <1>1, AlwaysShaped, PTL

\* As long as no append has written over the tags, a metric's own labels have its own
\* row's values and a descriptor its own names, unless another append into the shared
\* spare capacity came between; with as many tags as a capacity has room for, none does
\* (templatedcollector.go:78, 84).
THEOREM OwnKept == Spec => []OwnLabels
<1>1. IInv => OwnLabels
  <2> SUFFICES ASSUME IInv, ~mixed PROVE OwnLabels
    BY DEF OwnLabels
  <2>1. Types /\ Shape
    BY DEF IInv
  <2>2. ASSUME NEW f \in 1..Len(desc)
        PROVE  /\ f \in Families /\ desc[f].arr \in {0, 1} /\ Len(desc[f].was) \in Nat
               /\ DescOf(f) /\ Len(Own[f]) \in Nat /\ N \in Nat
    <3>1. desc[f] \in [arr : {0, 1}, was : Seq(AllNames)]
      BY <2>1, ElementOfSeq DEF Types, Descs
    <3>2. desc[f].was \in Seq(AllNames) /\ desc[f].arr \in {0, 1}
      BY <3>1
    <3>3. f \in Families
      <4>1. Len(desc) \in 0..Len(Own) /\ Len(Own) \in Nat
        BY <2>1 DEF Types, Descs
      <4> QED BY <4>1 DEF Families
    <3>4. N \in Nat
      BY <2>1, Places
    <3> QED BY <2>1, <3>2, <3>3, <3>4, LenProperties, OwnTyped DEF Shape
  <2>3. ASSUME NEW f \in 1..Len(desc), ~Overwritten(f)
        PROVE  \A i \in 1..Len(desc[f].was) : NameAt(desc[f], i) = desc[f].was[i]
    BY <2>2, <2>3 DEF DescOf, KeptNames, NameAt
  <2>4. ASSUME NoRoom, NEW g \in 1..Len(desc)
        PROVE  desc[g].arr = 0 \/ Own[g] = <<>>
    <3>1. CASE PlainNames(g)
      BY <2>2, <3>1, OwnEmpty DEF PlainNames
    <3>2. CASE TaggedNames(g) /\ desc[g].arr = 1
      <4>1. Len(desc[g].was) <= N /\ Len(desc[g].was) = N + Len(Own[g])
        <5>1. Grown(N) = N
          BY <2>4, GrownExact DEF NoRoom
        <5>2. names.arr = 1 /\ Len(desc[g].was) <= Len(nameArr)
          BY <2>1, <3>2 DEF Types, Descs
        <5>3. Len(nameArr) = Grown(N)
          BY <2>1, <5>2 DEF Types, Phases
        <5> QED BY <3>2, <5>1, <5>2, <5>3 DEF TaggedNames
      <4>2. Len(Own[g]) = 0
        BY <2>2, <4>1
      <4> QED BY <2>2, <4>2, OwnEmpty
    <3> QED BY <2>2, <3>1, <3>2 DEF DescOf
  <2>5. ASSUME NoRoom, NEW f \in 1..Len(desc) PROVE ~Overwritten(f)
    <3>1. \A g \in f+1..Len(desc) : g \in 1..Len(desc)
      <4>1. Len(desc) \in 0..Len(Own) /\ Len(Own) \in Nat
        BY <2>1 DEF Types, Descs
      <4> QED BY <4>1
    <3> QED BY <2>4, <2>5, <3>1 DEF Overwritten
  <2>6. NoRoom => \A w \in Workers : ~worker[w].over /\ ~metric[w].over
    BY <2>1 DEF Shape, Undisturbed
  <2>7. \A w \in Workers : OwnSent(w)
    BY <2>1 DEF Shape
  <2> QED BY <2>3, <2>5, <2>6, <2>7 DEF OwnLabels, OwnSent
<1> QED BY <1>1, AlwaysShaped, PTL

=============================================================================
