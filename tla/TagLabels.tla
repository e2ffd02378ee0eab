------------------------------ MODULE TagLabels ------------------------------
(***************************************************************************)
(* The AWS tag labels: the slices TagLabelNames and TagLabelValues of      *)
(* utils/auxiliaryfunctions.go, written by the ticker goroutine, and their *)
(* readers, which take no lock: the constructors of the labelled           *)
(* collectors (cpu and the templates), which append a family's own label   *)
(* names to the first, and the scrapes' goroutines, which append a         *)
(* metric's own label values to the second.                                *)
(*                                                                         *)
(* A Go slice is a pointer, a length and a capacity.  append writes into   *)
(* the slice's own array while the capacity lasts, and only then copies.   *)
(* A store to a slice variable is two steps, its length and capacity first *)
(* and its pointer second, and a load takes its three words one by one, in *)
(* an order that the compiler chooses: a reader may find a length over a   *)
(* nil pointer, or no length over an array of tags, and then append from   *)
(* its first element on.                                                   *)
(***************************************************************************)
EXTENDS Naturals, Sequences, FiniteSets

CONSTANTS
  AllTags,    \* label names that MetadataReporting.Attributes may list
  Own,        \* Own[f]: the label names family f adds to them, in build order
  Workers,    \* goroutines that emit metrics, one WMI row each
  MaxFetches  \* bound: the arrays of values that the refreshes store

Blank    == <<>>
Families == 1..Len(Own)
OwnNames == UNION {{Own[f][i] : i \in 1..Len(Own[f])} : f \in Families}

\* No tag has an empty name.  One may have the name of a family's own label: NewDesc
\* only records that in the descriptor's err (prometheus/desc.go:141), which neither
\* NewConstMetric nor a Gather that is not pedantic looks at.
ASSUME TagsAssumption    == /\ IsFiniteSet(AllTags) /\ Cardinality(AllTags) <= 16
                            /\ Blank \notin AllTags
ASSUME OwnAssumption     == Own \in Seq(Seq(OwnNames))
ASSUME FetchesAssumption == MaxFetches \in Nat \ {0}

VARIABLES
  Tags,       \* the label names of this configuration, in lower case
  proc,       \* "running", or what ended the process
  refresher,  \* the ticker goroutine, in FetchAWSLabelTags
  fresh,      \* the two slices getTagLabels and getTagLabelValues built
  names,      \* the variable TagLabelNames: [len, cap, arr]
  values,     \* the variable TagLabelValues: [len, cap, arr]
  nameArr,    \* the array of TagLabelNames
  valArr,     \* valArr[k]: the array of TagLabelValues after refresh k
  builder,    \* the constructors' goroutine, in GetLabelNames
  desc,       \* the descriptors built so far
  worker,     \* worker[w]: the goroutine, in GetLabelValues or before makeLabelPairs
  metric,     \* metric[w]: the label pairs of the last metric it sent
  mixed       \* history: an append has written over the tags themselves

tagVars == <<refresher, fresh, names, values, valArr>>
vars == <<Tags, proc, tagVars, nameArr, builder, desc, worker, metric, mixed>>

-----------------------------------------------------------------------------
N == Cardinality(Tags)

\* Values are told apart by what they belong to: a tag, or a label of a
\* goroutine's row.  processTagLabelMap looks a tag's value up by its name; a name
\* that is no tag's has the map's zero value.
TagValue(t)     == <<t>>
LookUp(name)    == IF name \in Tags THEN TagValue(name) ELSE Blank
OwnValue(w, l)  == <<w, l>>

\* Mutant: the caller passes a row's values in the other order than the names.
OwnValuesSwapped(w, f) ==
  [i \in 1..Len(Own[f]) |-> OwnValue(w, Own[f][Len(Own[f]) + 1 - i])]

OwnValues(w, f) == [i \in 1..Len(Own[f]) |-> OwnValue(w, Own[f][i])]

\* The capacity of a slice of strings that append grew from nil to n elements.
Grown(n) ==
  IF n = 0 THEN 0
  ELSE CHOOSE c \in {1, 2, 4, 8, 16} : c >= n /\ c < 2 * n

Slice(s) == s \o [i \in 1..(Grown(Len(s)) - Len(s)) |-> Blank]
Nil      == [len |-> 0, cap |-> 0, arr |-> 0]

\* What a load of a slice variable may get that began when the variable was old and
\* ends as it is now: each word is as it was at some moment between.
Loaded(old, now) ==
  [len : {old.len, now.len}, cap : {old.cap, now.cap}, arr : old.arr..now.arr]

\* append(h, own...) for k own elements: it writes them behind the first h.len of h's
\* array if they fit there; with a nil pointer it panics when it reads or writes.
InPlace(h, k)    == h.len + k <= h.cap
NilDeref(h, k)   == h.arr = 0 /\ (h.len > 0 \/ (k > 0 /\ InPlace(h, k)))
Shared(h, k)     == IF InPlace(h, k) THEN h.arr ELSE 0
Over(h, k)       == h.len = 0 /\ k > 0 /\ Shared(h, k) # 0
Put(arr, n, own) ==
  [i \in 1..Len(arr) |-> IF i \in n+1..n+Len(own) THEN own[i - n] ELSE arr[i]]

\* A slice got from append: what it was made of, and in which shared array it
\* stands (0: in one of its own).
NameAt(d, i)  == IF d.arr = 0 THEN d.was[i] ELSE nameArr[i]
ValueAt(v, i) == IF v.arr = 0 THEN v.was[i] ELSE valArr[v.arr][i]

\* Go ranges over a map in any order.
Orders == {o \in [1..N -> Tags] : \A i, j \in 1..N : i # j => o[i] # o[j]}

AllNames  == OwnNames \cup Tags
AllValues == {TagValue(t) : t \in Tags} \cup (Workers \X OwnNames) \cup {Blank}
Header    == [len : {0, N}, cap : {0, Grown(N)}, arr : 0..MaxFetches]

TypeOK ==
  /\ Tags \subseteq AllTags
  /\ proc \in {"running", "nil map", "nil slice", "cardinality"}
  /\ refresher \in {"idle", "names", "namesPtr", "values", "valuesPtr"}
  /\ fresh.names \in Orders \cup {<<>>}
  /\ fresh.values \in Seq(AllValues) /\ Len(fresh.values) \in {0, N}
  /\ names \in Header /\ values \in Header
  /\ nameArr \in Seq(AllNames \cup {Blank})
  /\ \A k \in 1..Len(valArr) : valArr[k] \in Seq(AllValues)
  /\ Len(valArr) <= MaxFetches /\ values.arr <= Len(valArr)
  /\ builder \in [pc : {"idle", "load"}, old : Header]
  /\ \A f \in 1..Len(desc) : desc[f].was \in Seq(AllNames)
  /\ \A w \in Workers :
       /\ worker[w].pc \in {"idle", "load", "make"} /\ worker[w].old \in Header
       /\ metric[w].pairs \subseteq (AllNames \X AllValues)
  /\ mixed \in BOOLEAN

\* A goroutine that has nothing to send, and one that has not sent anything.
Resting == [pc |-> "idle", old |-> Nil, family |-> 0, arr |-> 0, was |-> <<>>, over |-> FALSE]
Nothing == [family |-> 0, over |-> FALSE, pairs |-> {}]

Init ==
  /\ Tags \in SUBSET AllTags
  /\ proc = "running" /\ refresher = "idle"
  /\ fresh = [names |-> <<>>, values |-> <<>>]
  /\ names = Nil /\ values = Nil
  /\ nameArr = <<>> /\ valArr = <<>>
  /\ builder = [pc |-> "idle", old |-> Nil] /\ desc = <<>>
  /\ worker = [w \in Workers |-> Resting]
  /\ metric = [w \in Workers |-> Nothing]
  /\ mixed = FALSE

Running == proc = "running"
readVars == <<builder, desc, worker, metric, mixed>>
Die(how) == proc' = how /\ UNCHANGED <<Tags, tagVars, nameArr, readVars>>

-----------------------------------------------------------------------------
(* FetchAWSLabelTags.  labels is nil for as long as the process lives: the *)
(* first tag or attribute written into it panics.                          *)

\* getTagLabels: names and values in the order of one pass over the map.
FirstFetch ==
  /\ Running /\ refresher = "idle" /\ Len(valArr) < MaxFetches
  /\ names.len = 0
  /\ \E o \in Orders :
       fresh' = [names |-> o, values |-> [i \in 1..N |-> TagValue(o[i])]]
  /\ refresher' = "names"
  /\ UNCHANGED <<Tags, proc, names, values, nameArr, valArr, readVars>>

\* Mutant: the values come from a pass over the map.
NextFetchAnyOrder ==
  /\ Running /\ refresher = "idle" /\ Len(valArr) < MaxFetches
  /\ names.len > 0
  /\ \E o \in Orders : fresh' = [fresh EXCEPT !.values = [i \in 1..N |-> TagValue(o[i])]]
  /\ refresher' = "values"
  /\ UNCHANGED <<Tags, proc, names, values, nameArr, valArr, readVars>>

\* getTagLabelValues: values in the order of TagLabelNames.
NextFetch ==
  /\ Running /\ refresher = "idle" /\ Len(valArr) < MaxFetches
  /\ names.len > 0
  /\ fresh' = [fresh EXCEPT !.values = [i \in 1..N |-> LookUp(nameArr[i])]]
  /\ refresher' = "values"
  /\ UNCHANGED <<Tags, proc, names, values, nameArr, valArr, readVars>>

\* An AWS error returns before the arrays are touched; a tag of the instance is
\* written into the nil map.
FetchPanics == Running /\ refresher = "idle" /\ Die("nil map")

\* Mutant: the length is taken from the array's capacity.
StoreNamesCapacity ==
  /\ Running /\ refresher = "names" /\ refresher' = "namesPtr"
  /\ names' = [names EXCEPT !.len = Grown(N), !.cap = Grown(N)]
  /\ UNCHANGED <<Tags, proc, fresh, values, nameArr, valArr, readVars>>

StoreNames ==
  /\ Running /\ refresher = "names" /\ refresher' = "namesPtr"
  /\ names' = [names EXCEPT !.len = N, !.cap = Grown(N)]
  /\ UNCHANGED <<Tags, proc, fresh, values, nameArr, valArr, readVars>>

StoreNamesPointer ==
  /\ Running /\ refresher = "namesPtr" /\ refresher' = "values"
  /\ nameArr' = Slice(fresh.names)
  /\ names' = [names EXCEPT !.arr = IF N = 0 THEN 0 ELSE 1]
  /\ UNCHANGED <<Tags, proc, fresh, values, valArr, readVars>>

StoreValues ==
  /\ Running /\ refresher = "values" /\ refresher' = "valuesPtr"
  /\ values' = [values EXCEPT !.len = N, !.cap = Grown(N)]
  /\ UNCHANGED <<Tags, proc, fresh, names, nameArr, valArr, readVars>>

\* Without tags the slice is nil again and no array is stored.
StoreValuesPointer ==
  /\ Running /\ refresher = "valuesPtr" /\ refresher' = "idle"
  /\ \/ N = 0 /\ UNCHANGED <<values, valArr>>
     \/ /\ N # 0
        /\ valArr' = Append(valArr, Slice(fresh.values))
        /\ values' = [values EXCEPT !.arr = Len(valArr) + 1]
  /\ UNCHANGED <<Tags, proc, fresh, names, nameArr, readVars>>

-----------------------------------------------------------------------------
(* The readers.                                                            *)

\* GetLabelNames(own...) for the next descriptor of the constructors: the load of
\* TagLabelNames begins, and ends in the append.
LoadNames ==
  /\ Running /\ Len(desc) < Len(Own) /\ builder.pc = "idle"
  /\ builder' = [pc |-> "load", old |-> names]
  /\ UNCHANGED <<Tags, proc, tagVars, nameArr, desc, worker, metric, mixed>>

Build ==
  /\ Running /\ builder.pc = "load"
  /\ \E h \in Loaded(builder.old, names) :
       LET own == Own[Len(desc) + 1]
           k   == Len(own)
       IN  \/ NilDeref(h, k) /\ Die("nil slice")
           \/ /\ ~NilDeref(h, k)
              /\ nameArr' = IF Shared(h, k) = 0 THEN nameArr ELSE Put(nameArr, h.len, own)
              /\ desc' = Append(desc, [arr |-> Shared(h, k),
                                       was |-> SubSeq(nameArr, 1, h.len) \o own])
              /\ builder' = [pc |-> "idle", old |-> Nil]
              /\ mixed' = (mixed \/ Over(h, k))
              /\ UNCHANGED <<Tags, proc, tagVars, worker, metric>>

\* GetLabelValues(own...) of the row's next metric, of family f.
LoadValues(w) ==
  /\ Running /\ Len(desc) = Len(Own) /\ worker[w].pc = "idle"
  /\ worker' = [worker EXCEPT ![w].pc = "load", ![w].old = values]
  /\ metric' = [metric EXCEPT ![w] = Nothing]
  /\ UNCHANGED <<Tags, proc, tagVars, nameArr, builder, desc, mixed>>

ArrayOf(k) == IF k = 0 THEN <<>> ELSE valArr[k]

\* The goroutines whose values stand in array k and are written over.
Disturbed(v, w, k) == v # w /\ k # 0 /\ worker[v].pc = "make" /\ worker[v].arr = k

AppendValues(w, f) ==
  /\ Running /\ worker[w].pc = "load"
  /\ \E h \in Loaded(worker[w].old, values) :
       LET own == OwnValues(w, f)
           k   == Len(own)
           a   == Shared(h, k)
           arr == ArrayOf(h.arr)
       IN  \/ NilDeref(h, k) /\ Die("nil slice")
           \/ /\ ~NilDeref(h, k)
              /\ valArr' = IF a = 0 THEN valArr ELSE [valArr EXCEPT ![a] = Put(arr, h.len, own)]
              /\ worker' = [v \in Workers |->
                   IF v = w THEN [pc |-> "make", old |-> Nil, family |-> f, arr |-> a,
                                  was |-> SubSeq(arr, 1, h.len) \o own, over |-> FALSE]
                   ELSE IF k > 0 /\ Disturbed(v, w, a) THEN [worker[v] EXCEPT !.over = TRUE]
                   ELSE worker[v]]
              /\ mixed' = (mixed \/ Over(h, k))
              /\ UNCHANGED <<Tags, proc, refresher, fresh, names, values, nameArr,
                             builder, desc, metric>>

\* MustNewConstMetric: as many values as names, or a panic; makeLabelPairs
\* reads both slices as they are now.
MakeMetric(w) ==
  /\ Running /\ worker[w].pc = "make"
  /\ LET f == worker[w].family
         n == Len(desc[f].was)
     IN  \/ n # Len(worker[w].was) /\ Die("cardinality")
         \/ /\ n = Len(worker[w].was)
            /\ metric' = [metric EXCEPT ![w] =
                 [family |-> f, over |-> worker[w].over,
                  pairs |-> {<<NameAt(desc[f], i), ValueAt(worker[w], i)>> : i \in 1..n}]]
            /\ worker' = [worker EXCEPT ![w] = Resting]
            /\ UNCHANGED <<Tags, proc, tagVars, nameArr, builder, desc, mixed>>

-----------------------------------------------------------------------------
Refresh == \/ FirstFetch \/ NextFetch \/ FetchPanics
           \/ StoreNames \/ StoreNamesPointer
           \/ StoreValues \/ StoreValuesPointer
Construct == LoadNames \/ Build
Scrape(w) == LoadValues(w) \/ (\E f \in Families : AppendValues(w, f)) \/ MakeMetric(w)

\* An ended process rests.
Rest == ~Running /\ UNCHANGED vars

Next == Construct \/ Refresh \/ (\E w \in Workers : Scrape(w)) \/ Rest
Spec == Init /\ [][Next]_vars

-----------------------------------------------------------------------------
(* Safety.  Every property but TagsCanBeAdded is about a process in which  *)
(* no reader has appended over the tags themselves, which takes a load     *)
(* that got the length before, and the capacity and the pointer after, the *)
(* first store of the slice.                                               *)

\* At every moment a reader may look, each tag's value stands at the position of
\* its name: getTagLabels fills both arrays in one pass over a map that has no
\* order, getTagLabelValues in the order of the names (lines 143-158).
Aligned ==
  values.arr # 0 /\ ~mixed =>
    \A i \in 1..N : valArr[values.arr][i] = TagValue(nameArr[i])

\* A metric that is sent has every tag's value under the tag's name, or, as long as
\* neither slice is filled, none of them; never some, never the value of one tag under
\* another's name.  Every other label is the family's own, also one of a tag's name.
TagsAllOrNone == ~mixed =>
  \A w \in Workers :
    LET tagged == {p \in metric[w].pairs : \E t \in Tags : p[2] = TagValue(t)}
    IN  /\ tagged = {} \/ tagged = {<<t, TagValue(t)>> : t \in Tags}
        /\ \A p \in metric[w].pairs \ tagged : p[1] \in OwnNames

\* A later family's names have been written into the array where f's stand.
Overwritten(f) ==
  desc[f].arr # 0 /\ \E g \in f+1..Len(desc) : desc[g].arr # 0 /\ Own[g] # <<>>

\* A metric's own labels carry the values of its own row, and a descriptor keeps the
\* names it was built with, unless another append into the spare room of the shared
\* array came between the append and the use (templatedcollector.go:78 and 84): three
\* tags leave room for one label.  Without room none ever does.
NoRoom == N \in {0, 1, 2, 4, 8, 16}
OwnLabels == ~mixed =>
  /\ \A w \in Workers :
       LET f == metric[w].family
       IN  f # 0 /\ ~metric[w].over /\ ~Overwritten(f) =>
             \A i \in 1..Len(Own[f]) : <<Own[f][i], OwnValue(w, Own[f][i])>> \in metric[w].pairs
  /\ \A f \in 1..Len(desc) : ~Overwritten(f) =>
       \A i \in 1..Len(desc[f].was) : NameAt(desc[f], i) = desc[f].was[i]
  /\ NoRoom => /\ \A w \in Workers : ~worker[w].over /\ ~metric[w].over
               /\ \A f \in 1..Len(desc) : ~Overwritten(f)

\* conf/config.go:42, "captures the aws tags that should be added to reported
\* metrics as Labels": when every descriptor was built before the tags were there, as
\* the constructors run a whole period before the first refresh, no metric is refused
\* once they are.
TagsCanBeAdded ==
  proc = "cardinality" => \E f \in 1..Len(desc) : Len(desc[f].was) > Len(Own[f])
=============================================================================
