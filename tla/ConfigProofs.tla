---------------------------- MODULE ConfigProofs ----------------------------
(***************************************************************************)
(* Proofs about Config, for every set of collectors and of metric paths.   *)
(***************************************************************************)
EXTENDS Config, TLAPS

-----------------------------------------------------------------------------
(* The inductive invariant: what each step of the start up leaves.         *)

BeforeDecode  == {"print", "decode"}
BeforeAddress == BeforeDecode \cup {"address"}
BeforePath    == BeforeAddress \cup {"path"}
BeforeAdd     == BeforePath \cup {"collectors"}
AfterAdd      == {"tags", "load", "paths"}

\* Only a file that could be read has contents, and they are the configuration's.
FileDecoded ==
  /\ flags.file # "good" => file = NoFile
  /\ step \notin BeforeDecode =>
       /\ flags.file # "bad"
       /\ conf.address = file.address /\ conf.made = file.made
       /\ conf.tags = file.tags /\ conf.period = file.period
       /\ \A n \in Names : conf.spec[n] = "file's" <=> n \in file.collectors

AddressParsed == step \notin BeforeAddress => flags.address \in {"not given", "host:port"}

MergedPath == IF flags.path # Placeholder THEN flags.path
              ELSE IF file.path # Unset THEN file.path ELSE DefaultPath

PathMerged ==
  /\ step \in BeforePath \ BeforeDecode => conf.path = file.path
  /\ step \notin BeforePath => conf.path = MergedPath

\* The names to be added make up what is wanted, and a nil map has stayed empty.
NamesMerged ==
  /\ step \in BeforeAdd => todo = {}
  /\ step \in BeforeAdd \ BeforeDecode => \A n \in Names : conf.spec[n] # "default"
  /\ step = "add" => Enabled \cup todo = Wanted
  /\ step \in AfterAdd => Enabled = Wanted
  /\ step \notin BeforeDecode /\ ~conf.made => Enabled = {}

TickerMade == step \in {"load", "paths"} /\ conf.tags => conf.period > 0

LoadedOnly ==
  /\ step \notin {"load", "paths"} => loaded = {}
  /\ step = "paths" => loaded = Enabled
  /\ loaded \cap Patterned # {} => flags.regexps

Served == proc = "serving" => step = "paths" /\ conf.path \notin Reserved \cup {Unset}

NotStartable == proc \in Ends \ {"printed"} => ~Startable

IInv ==
  /\ TypeOK /\ FileDecoded /\ AddressParsed /\ PathMerged
  /\ NamesMerged /\ TickerMade /\ LoadedOnly /\ Served /\ NotStartable

-----------------------------------------------------------------------------
(* The inputs.                                                             *)

\* What the file and the flags may hold.
LEMMA Inputs ==
  ASSUME TypeOK
  PROVE  /\ file.collectors \subseteq Names /\ (~file.made => file.collectors = {})
         /\ file.made \in BOOLEAN /\ file.tags \in BOOLEAN
         /\ file.period \in Periods \cup {0} /\ file.period \in Int
         /\ file.path \in Paths \cup {Unset} /\ file.address \in {NoAddress, "file's"}
         /\ flags.collectors \subseteq Names /\ flags.collectors # {}
         /\ flags.regexps \in BOOLEAN /\ flags.address \in AddressFlags
         /\ flags.path \in Paths \cup {Unset, Placeholder}
<1>1. flags \in FlagsType /\ (file \in FileType \/ file = NoFile)
  BY DEF TypeOK
<1>2. /\ flags.collectors \subseteq Names /\ flags.collectors # {}
      /\ flags.regexps \in BOOLEAN /\ flags.address \in AddressFlags
      /\ flags.path \in Paths \cup {Unset, Placeholder}
  <2>1. flags.collectors \in (SUBSET Names) \ {{}}
    BY <1>1 DEF FlagsType
  <2>2. flags.regexps \in BOOLEAN
    BY <1>1 DEF FlagsType
  <2>3. flags.address \in AddressFlags
    BY <1>1 DEF FlagsType
  <2>4. flags.path \in Paths \cup {Unset, Placeholder}
    BY <1>1 DEF FlagsType
  <2>5. flags.collectors \subseteq Names
    BY <2>1
  <2>6. flags.collectors # {}
    BY <2>1
  <2> QED BY <2>2, <2>3, <2>4, <2>5, <2>6
<1>3. CASE file \in FileType
  <2>1. /\ file.collectors \subseteq Names /\ (~file.made => file.collectors = {})
        /\ file.made \in BOOLEAN /\ file.tags \in BOOLEAN
        /\ file.path \in Paths \cup {Unset} /\ file.address \in {NoAddress, "file's"}
    BY <1>3 DEF FileType
  <2>2. file.period \in Periods
    BY <1>3 DEF FileType
  <2> QED BY <1>2, <2>1, <2>2, PeriodsAssumption
<1>4. CASE file = NoFile
  <2>1. /\ file.collectors = {} /\ file.made = FALSE /\ file.tags = FALSE
        /\ file.period = 0 /\ file.path = Unset /\ file.address = NoAddress
    BY <1>4 DEF NoFile
  <2>2. file.made \in BOOLEAN /\ file.tags \in BOOLEAN
    BY <2>1
  <2>3. file.period \in Periods \cup {0} /\ file.period \in Int
    BY <2>1
  <2> QED BY <1>2, <2>1, <2>2, <2>3
<1> QED BY <1>1, <1>3, <1>4

\* Decode makes a well-typed configuration of the file.
LEMMA DecodedType ==
  ASSUME TypeOK
  PROVE  Decoded(file) \in ConfType
<1>1. [n \in Names |-> IF n \in file.collectors THEN "file's" ELSE "none"]
        \in [Names -> {"none", "file's", "default"}]
  OBVIOUS
<1> QED BY <1>1, Inputs DEF Decoded, ConfType

\* There is always something wanted.
LEMMA WantedSome ==
  ASSUME TypeOK
  PROVE  Wanted \subseteq Names /\ Wanted # {}
BY Inputs DEF Wanted

-----------------------------------------------------------------------------
(* One lemma for each part.                                                *)

\* Every step keeps every variable in its type.
LEMMA TypeStep ==
  ASSUME TypeOK, LoadedOnly, [Next]_vars
  PROVE  TypeOK'
<1> USE DEF At, Goto, End, Steps, Ends, TypeOK
<1>1. CASE PrintOnly
  BY <1>1 DEF PrintOnly
<1>2. CASE Decode
  <2>1. Decoded(file) \in ConfType /\ (At("decode") => loaded = {})
    BY DecodedType DEF LoadedOnly
  <2> QED BY <1>2, <2>1 DEF Decode
<1>3. CASE SetAddress
  BY <1>3 DEF SetAddress
<1>4. CASE SetPath
  <2>1. conf' \in ConfType /\ conf'.spec = conf.spec
    BY <1>4, PathsAssumption, Inputs DEF SetPath, ConfType
  <2> QED BY <1>4, <2>1 DEF SetPath
<1>5. CASE SplitCollectors
  <2>1. Asked \subseteq Names
    BY Inputs DEF Asked
  <2> QED BY <1>5, <2>1 DEF SplitCollectors
<1>6. CASE AddCollector
  <2>1. PICK n \in todo :
               \/ End("nil map")
               \/ Goto("add") /\ conf' = [conf EXCEPT !.spec[n] = "default"]
                              /\ todo' \subseteq todo /\ UNCHANGED loaded
               \/ Goto("add") /\ todo' \subseteq todo /\ UNCHANGED <<conf, loaded>>
    BY <1>6 DEF AddCollector
  <2>2. CASE conf' = [conf EXCEPT !.spec[n] = "default"]
    <3>1. conf.spec \in [Names -> {"none", "file's", "default"}] /\ n \in Names
      BY DEF ConfType
    <3>2. conf'.spec = [conf.spec EXCEPT ![n] = "default"]
      BY <2>2 DEF ConfType
    <3>3. conf'.spec \in [Names -> {"none", "file's", "default"}]
      BY <3>1, <3>2
    <3>4. \A k \in Names : conf.spec[k] # "none" => conf'.spec[k] # "none"
      BY <3>1, <3>2
    <3>5. conf' \in ConfType
      BY <2>2, <3>3 DEF ConfType
    <3> QED BY <2>1, <3>4, <3>5
  <2> QED BY <2>1, <2>2
<1>7. CASE Configured
  BY <1>7 DEF Configured
<1>8. CASE StartTicker
  BY <1>8 DEF StartTicker
<1>9. CASE LoadCollector
  <2>1. PICK n \in Enabled : \/ End("no such collector")
                            \/ End("bad regexp")
                            \/ /\ n \in Factories /\ Goto("load")
                               /\ loaded' = loaded \cup {n} /\ UNCHANGED <<conf, todo>>
    BY <1>9 DEF LoadCollector
  <2> QED BY <2>1 DEF Enabled
<1>10. CASE Loaded
  BY <1>10 DEF Loaded
<1>11. CASE ServePaths
  BY <1>11 DEF ServePaths
<1>12. CASE Rest \/ UNCHANGED vars
  BY <1>12 DEF Rest, vars
<1> QED BY <1>1, <1>2, <1>3, <1>4, <1>5, <1>6, <1>7, <1>8, <1>9, <1>10, <1>11, <1>12 DEF Next

\* Nothing changes the command line or the file, nor what is wanted of them.
LEMMA InputsKept ==
  ASSUME [Next]_vars
  PROVE  UNCHANGED <<flags, file, Wanted, Startable, MergedPath>>
<1> USE DEF At, Goto, End, Wanted, Startable, MergedPath
<1>1. CASE PrintOnly
  BY <1>1 DEF PrintOnly
<1>2. CASE Decode
  BY <1>2 DEF Decode
<1>3. CASE SetAddress
  BY <1>3 DEF SetAddress
<1>4. CASE SetPath
  BY <1>4 DEF SetPath
<1>5. CASE SplitCollectors
  BY <1>5 DEF SplitCollectors
<1>6. CASE AddCollector
  BY <1>6 DEF AddCollector
<1>7. CASE Configured
  BY <1>7 DEF Configured
<1>8. CASE StartTicker
  BY <1>8 DEF StartTicker
<1>9. CASE LoadCollector
  BY <1>9 DEF LoadCollector
<1>10. CASE Loaded
  BY <1>10 DEF Loaded
<1>11. CASE ServePaths
  BY <1>11 DEF ServePaths
<1>12. CASE Rest \/ UNCHANGED vars
  BY <1>12 DEF Rest, vars
<1> QED BY <1>1, <1>2, <1>3, <1>4, <1>5, <1>6, <1>7, <1>8, <1>9, <1>10, <1>11, <1>12 DEF Next

\* What the file says of a collector stays in the configuration.
LEMMA FileStep ==
  ASSUME TypeOK, FileDecoded, [Next]_vars
  PROVE  FileDecoded'
<1> USE DEF At, Goto, End, TypeOK, FileDecoded,
           BeforeDecode, BeforeAddress, BeforePath, BeforeAdd, AfterAdd
<1>1. CASE PrintOnly
  BY <1>1 DEF PrintOnly
<1>2. CASE Decode
  <2>1. /\ \A n \in Names : Decoded(file).spec[n] = "file's" <=> n \in file.collectors
        /\ Decoded(file).address = file.address /\ Decoded(file).made = file.made
        /\ Decoded(file).tags = file.tags /\ Decoded(file).period = file.period
    BY DEF Decoded
  <2> QED BY <1>2, <2>1 DEF Decode
<1>3. CASE SetAddress
  BY <1>3 DEF SetAddress
<1>4. CASE SetPath
  <2>1. conf'.spec = conf.spec /\ conf'.made = conf.made /\ conf'.address = conf.address
        /\ conf'.tags = conf.tags /\ conf'.period = conf.period
    BY <1>4 DEF SetPath, ConfType
  <2> QED BY <1>4, <2>1 DEF SetPath
<1>5. CASE SplitCollectors
  BY <1>5 DEF SplitCollectors
<1>6. CASE AddCollector
  <2>1. PICK n \in todo :
               \/ UNCHANGED conf
               \/ conf.spec[n] = "none" /\ conf' = [conf EXCEPT !.spec[n] = "default"]
    BY <1>6 DEF AddCollector
  <2>2. UNCHANGED <<flags, file>> /\ (UNCHANGED step \/ (step = "add" /\ step' = "add"))
    BY <1>6 DEF AddCollector
  <2>3. CASE UNCHANGED conf
    BY <2>2, <2>3
  <2>4. CASE conf.spec[n] = "none" /\ conf' = [conf EXCEPT !.spec[n] = "default"]
    <3>1. conf.spec \in [Names -> {"none", "file's", "default"}] /\ n \in Names
      BY DEF ConfType
    <3>2. /\ conf'.spec = [conf.spec EXCEPT ![n] = "default"] /\ conf'.made = conf.made
          /\ conf'.address = conf.address
          /\ conf'.tags = conf.tags /\ conf'.period = conf.period
      BY <2>4 DEF ConfType
    <3>3. \A k \in Names : conf'.spec[k] = "file's" <=> conf.spec[k] = "file's"
      BY <2>4, <3>1, <3>2
    <3> QED BY <2>2, <3>2, <3>3
  <2> QED BY <2>1, <2>3, <2>4
<1>7. CASE Configured
  BY <1>7 DEF Configured
<1>8. CASE StartTicker
  BY <1>8 DEF StartTicker
<1>9. CASE LoadCollector
  BY <1>9 DEF LoadCollector
<1>10. CASE Loaded
  BY <1>10 DEF Loaded
<1>11. CASE ServePaths
  BY <1>11 DEF ServePaths
<1>12. CASE Rest \/ UNCHANGED vars
  BY <1>12 DEF Rest, vars
<1> QED BY <1>1, <1>2, <1>3, <1>4, <1>5, <1>6, <1>7, <1>8, <1>9, <1>10, <1>11, <1>12 DEF Next

\* The address flag has a host and a port when main comes to the path.
LEMMA AddressStep ==
  ASSUME AddressParsed, TypeOK, [Next]_vars
  PROVE  AddressParsed'
<1> USE DEF At, Goto, End, AddressParsed, AddressFlags,
           BeforeDecode, BeforeAddress, BeforePath, BeforeAdd, AfterAdd
<1>1. CASE PrintOnly
  BY <1>1 DEF PrintOnly
<1>2. CASE Decode
  BY <1>2 DEF Decode
<1>3. CASE SetAddress
  <2>1. flags.address \in AddressFlags
    BY Inputs
  <2> QED BY <1>3, <2>1 DEF SetAddress
<1>4. CASE SetPath
  BY <1>4 DEF SetPath
<1>5. CASE SplitCollectors
  BY <1>5 DEF SplitCollectors
<1>6. CASE AddCollector
  BY <1>6 DEF AddCollector
<1>7. CASE Configured
  BY <1>7 DEF Configured
<1>8. CASE StartTicker
  BY <1>8 DEF StartTicker
<1>9. CASE LoadCollector
  BY <1>9 DEF LoadCollector
<1>10. CASE Loaded
  BY <1>10 DEF Loaded
<1>11. CASE ServePaths
  BY <1>11 DEF ServePaths
<1>12. CASE Rest \/ UNCHANGED vars
  BY <1>12 DEF Rest, vars
<1> QED BY <1>1, <1>2, <1>3, <1>4, <1>5, <1>6, <1>7, <1>8, <1>9, <1>10, <1>11, <1>12 DEF Next

\* The path is the flag's, the file's or the default one.
LEMMA PathStep ==
  ASSUME TypeOK, PathMerged, [Next]_vars
  PROVE  PathMerged'
<1> USE DEF At, Goto, End, PathMerged, MergedPath,
           BeforeDecode, BeforeAddress, BeforePath, BeforeAdd, AfterAdd
<1>1. CASE PrintOnly
  BY <1>1 DEF PrintOnly
<1>2. CASE Decode
  <2>1. Decoded(file).path = file.path
    BY DEF Decoded
  <2> QED BY <1>2, <2>1 DEF Decode
<1>3. CASE SetAddress
  BY <1>3 DEF SetAddress
<1>4. CASE SetPath
  <2>1. conf \in ConfType
    BY DEF TypeOK
  <2>2. conf'.path = IF flags.path = Placeholder /\ conf.path # Unset THEN conf.path
                     ELSE IF flags.path = Placeholder THEN DefaultPath ELSE flags.path
    BY <1>4, <2>1 DEF SetPath, ConfType
  <2> QED BY <1>4, <2>2 DEF SetPath
<1>5. CASE SplitCollectors
  BY <1>5 DEF SplitCollectors
<1>6. CASE AddCollector
  <2>1. conf'.path = conf.path
    BY <1>6 DEF AddCollector, TypeOK, ConfType
  <2> QED BY <1>6, <2>1 DEF AddCollector
<1>7. CASE Configured
  BY <1>7 DEF Configured
<1>8. CASE StartTicker
  BY <1>8 DEF StartTicker
<1>9. CASE LoadCollector
  BY <1>9 DEF LoadCollector
<1>10. CASE Loaded
  BY <1>10 DEF Loaded
<1>11. CASE ServePaths
  BY <1>11 DEF ServePaths
<1>12. CASE Rest \/ UNCHANGED vars
  BY <1>12 DEF Rest, vars
<1> QED BY <1>1, <1>2, <1>3, <1>4, <1>5, <1>6, <1>7, <1>8, <1>9, <1>10, <1>11, <1>12 DEF Next

\* Step by step the enabled collectors become the wanted ones.
LEMMA NamesStep ==
  ASSUME TypeOK, FileDecoded, NamesMerged, [Next]_vars
  PROVE  NamesMerged'
<1> USE DEF At, Goto, End, NamesMerged, Enabled,
           BeforeDecode, BeforeAddress, BeforePath, BeforeAdd, AfterAdd
<1>1. CASE PrintOnly
  BY <1>1 DEF PrintOnly
<1>2. CASE Decode
  <2>1. /\ \A n \in Names : Decoded(file).spec[n] =
                             IF n \in file.collectors THEN "file's" ELSE "none"
        /\ ~Decoded(file).made => file.collectors = {}
    BY Inputs DEF Decoded
  <2> QED BY <1>2, <2>1 DEF Decode
<1>3. CASE SetAddress
  BY <1>3 DEF SetAddress
<1>4. CASE SetPath
  <2>1. conf'.spec = conf.spec /\ conf'.made = conf.made
    BY <1>4 DEF SetPath, TypeOK, ConfType
  <2> QED BY <1>4, <2>1 DEF SetPath
<1>5. CASE SplitCollectors
  <2>1. conf.spec \in [Names -> {"none", "file's", "default"}]
    BY DEF TypeOK, ConfType
  <2>2. Enabled = file.collectors
    BY <1>5, <2>1, Inputs DEF SplitCollectors, FileDecoded
  <2>3. Enabled \cup Asked = Wanted
    BY <2>2 DEF Asked, Wanted, Enabled
  <2> QED BY <1>5, <2>3, InputsKept DEF SplitCollectors
<1>6. CASE AddCollector
  <2>1. PICK n \in todo :
               \/ UNCHANGED <<step, conf, todo>>
               \/ /\ step = "add" /\ step' = "add" /\ conf.spec[n] # "none"
                  /\ todo' = todo \ {n} /\ UNCHANGED conf
               \/ /\ step = "add" /\ step' = "add" /\ conf.spec[n] = "none" /\ conf.made
                  /\ todo' = todo \ {n} /\ conf' = [conf EXCEPT !.spec[n] = "default"]
    BY <1>6 DEF AddCollector
  <2>2. CASE UNCHANGED <<step, conf, todo>>
    BY <2>2, InputsKept
  <2>3. CASE /\ step = "add" /\ step' = "add" /\ conf.spec[n] # "none"
             /\ todo' = todo \ {n} /\ UNCHANGED conf
    <3>1. n \in Enabled
      BY <2>3 DEF TypeOK
    <3> QED BY <2>3, <3>1, InputsKept
  <2>4. CASE /\ step = "add" /\ step' = "add" /\ conf.spec[n] = "none" /\ conf.made
             /\ todo' = todo \ {n} /\ conf' = [conf EXCEPT !.spec[n] = "default"]
    <3>1. conf.spec \in [Names -> {"none", "file's", "default"}] /\ n \in Names
      BY DEF TypeOK, ConfType
    <3>2. conf'.spec = [conf.spec EXCEPT ![n] = "default"] /\ conf'.made = conf.made
      BY <2>4 DEF TypeOK, ConfType
    <3>3. Enabled' = Enabled \cup {n}
      BY <3>1, <3>2
    <3> QED BY <2>4, <3>2, <3>3, InputsKept
  <2> QED BY <2>1, <2>2, <2>3, <2>4
<1>7. CASE Configured
  BY <1>7, InputsKept DEF Configured
<1>8. CASE StartTicker
  BY <1>8, InputsKept DEF StartTicker
<1>9. CASE LoadCollector
  BY <1>9, InputsKept DEF LoadCollector
<1>10. CASE Loaded
  BY <1>10, InputsKept DEF Loaded
<1>11. CASE ServePaths
  BY <1>11, InputsKept DEF ServePaths
<1>12. CASE Rest \/ UNCHANGED vars
  BY <1>12, InputsKept DEF Rest, vars
<1> QED BY <1>1, <1>2, <1>3, <1>4, <1>5, <1>6, <1>7, <1>8, <1>9, <1>10, <1>11, <1>12 DEF Next

\* Collectors are loaded only with a ticker that could be made.
LEMMA TickerStep ==
  ASSUME TypeOK, TickerMade, [Next]_vars
  PROVE  TickerMade'
<1> USE DEF At, Goto, End, TickerMade
<1>1. CASE PrintOnly
  BY <1>1 DEF PrintOnly
<1>2. CASE Decode
  BY <1>2 DEF Decode
<1>3. CASE SetAddress
  BY <1>3 DEF SetAddress
<1>4. CASE SetPath
  BY <1>4 DEF SetPath
<1>5. CASE SplitCollectors
  BY <1>5 DEF SplitCollectors
<1>6. CASE AddCollector
  BY <1>6 DEF AddCollector
<1>7. CASE Configured
  BY <1>7 DEF Configured
<1>8. CASE StartTicker
  <2>1. conf.period \in Periods \cup {0}
    BY DEF TypeOK, ConfType
  <2>2. conf.period \in Int
    <3>1. CASE conf.period \in Periods
      BY <3>1, PeriodsAssumption
    <3>2. CASE conf.period = 0
      BY <3>2
    <3> QED BY <2>1, <3>1, <3>2
  <2> QED BY <1>8, <2>2 DEF StartTicker
<1>9. CASE LoadCollector
  BY <1>9 DEF LoadCollector
<1>10. CASE Loaded
  BY <1>10 DEF Loaded
<1>11. CASE ServePaths
  BY <1>11 DEF ServePaths
<1>12. CASE Rest \/ UNCHANGED vars
  BY <1>12 DEF Rest, vars
<1> QED BY <1>1, <1>2, <1>3, <1>4, <1>5, <1>6, <1>7, <1>8, <1>9, <1>10, <1>11, <1>12 DEF Next

\* What is loaded needs no pattern, or was given its pattern.
LEMMA LoadedStep ==
  ASSUME TypeOK, LoadedOnly, [Next]_vars
  PROVE  LoadedOnly'
<1> USE DEF At, Goto, End, LoadedOnly, Enabled
<1>1. CASE PrintOnly
  BY <1>1 DEF PrintOnly
<1>2. CASE Decode
  BY <1>2 DEF Decode
<1>3. CASE SetAddress
  BY <1>3 DEF SetAddress
<1>4. CASE SetPath
  BY <1>4 DEF SetPath
<1>5. CASE SplitCollectors
  BY <1>5 DEF SplitCollectors
<1>6. CASE AddCollector
  BY <1>6 DEF AddCollector
<1>7. CASE Configured
  BY <1>7 DEF Configured
<1>8. CASE StartTicker
  BY <1>8 DEF StartTicker
<1>9. CASE LoadCollector
  BY <1>9 DEF LoadCollector
<1>10. CASE Loaded
  BY <1>10 DEF Loaded
<1>11. CASE ServePaths
  BY <1>11 DEF ServePaths
<1>12. CASE Rest \/ UNCHANGED vars
  BY <1>12 DEF Rest, vars
<1> QED BY <1>1, <1>2, <1>3, <1>4, <1>5, <1>6, <1>7, <1>8, <1>9, <1>10, <1>11, <1>12 DEF Next

\* Only main's last step serves.
LEMMA ServedStep ==
  ASSUME Served, [Next]_vars
  PROVE  Served'
<1> USE DEF At, Goto, End, Served
<1>1. CASE PrintOnly
  BY <1>1 DEF PrintOnly
<1>2. CASE Decode
  BY <1>2 DEF Decode
<1>3. CASE SetAddress
  BY <1>3 DEF SetAddress
<1>4. CASE SetPath
  BY <1>4 DEF SetPath
<1>5. CASE SplitCollectors
  BY <1>5 DEF SplitCollectors
<1>6. CASE AddCollector
  BY <1>6 DEF AddCollector
<1>7. CASE Configured
  BY <1>7 DEF Configured
<1>8. CASE StartTicker
  BY <1>8 DEF StartTicker
<1>9. CASE LoadCollector
  BY <1>9 DEF LoadCollector
<1>10. CASE Loaded
  BY <1>10 DEF Loaded
<1>11. CASE ServePaths
  BY <1>11 DEF ServePaths
<1>12. CASE Rest \/ UNCHANGED vars
  BY <1>12 DEF Rest, vars
<1> QED BY <1>1, <1>2, <1>3, <1>4, <1>5, <1>6, <1>7, <1>8, <1>9, <1>10, <1>11, <1>12 DEF Next

\* Every end of the start up but that of a print has its reason in the flags or the
\* file.
LEMMA EndStep ==
  ASSUME IInv, [Next]_vars
  PROVE  NotStartable'
<1> USE DEF IInv, At, End, Goto,
           BeforeDecode, BeforeAddress, BeforePath, BeforeAdd, AfterAdd
<1>1. Startable' = Startable
  BY InputsKept
<1>2. CASE proc' = proc \/ proc' \in {"serving", "printed"}
  BY <1>1, <1>2 DEF NotStartable, Ends
<1>3. ASSUME Decode, proc' # proc PROVE ~Startable
  BY <1>3 DEF Decode, Startable
<1>4. ASSUME SetAddress, proc' # proc PROVE ~Startable
  BY <1>4 DEF SetAddress, Startable
<1>5. ASSUME AddCollector, proc' # proc PROVE ~Startable
  <2>1. ~conf.made /\ step = "add"
    BY <1>5 DEF AddCollector
  <2> QED BY <2>1 DEF FileDecoded, Startable
<1>6. ASSUME StartTicker, proc' # proc PROVE ~Startable
  <2>1. conf.tags /\ conf.period <= 0 /\ step = "tags"
    BY <1>6 DEF StartTicker
  <2>2. file.tags /\ file.period <= 0
    BY <2>1 DEF FileDecoded
  <2>3. file.period \in Int
    BY Inputs
  <2>4. ~(file.period > 0)
    BY <2>2, <2>3
  <2> QED BY <2>2, <2>4 DEF Startable
<1>7. ASSUME LoadCollector, proc' # proc PROVE ~Startable
  <2>1. Enabled = Wanted
    BY <1>7 DEF LoadCollector, NamesMerged
  <2>2. PICK n \in Enabled : \/ n \notin Factories
                            \/ (n \in Patterned /\ ~flags.regexps)
                            \/ UNCHANGED proc
    BY <1>7 DEF LoadCollector
  <2> QED BY <1>7, <2>1, <2>2 DEF Startable
<1>8. ASSUME ServePaths, proc' \in Ends, proc' # proc PROVE ~Startable
  <2>1. conf.path = MergedPath
    BY <1>8 DEF ServePaths, PathMerged
  <2>2. MergedPath \in Reserved \cup {Unset}
    BY <1>8, <2>1 DEF ServePaths, Ends
  <2>3. DefaultPath \notin Reserved \cup {Unset}
    BY PathsAssumption
  <2>4. \/ flags.path \in Reserved \cup {Unset}
        \/ (flags.path = Placeholder /\ file.path \in Reserved)
    <3>1. CASE flags.path # Placeholder
      BY <2>2, <3>1 DEF MergedPath
    <3>2. CASE flags.path = Placeholder
      BY <2>2, <2>3, <3>2 DEF MergedPath
    <3> QED BY <3>1, <3>2
  <2> QED BY <2>4 DEF Startable
<1>9. \/ proc' = proc \/ proc' \in {"serving", "printed"}
      \/ Decode \/ SetAddress \/ AddCollector \/ StartTicker \/ LoadCollector
      \/ ServePaths /\ proc' \in Ends
  BY DEF Next, vars, Rest, PrintOnly, SetPath, SplitCollectors, Configured, Loaded,
         ServePaths, Ends
<1> QED BY <1>1, <1>2, <1>3, <1>4, <1>5, <1>6, <1>7, <1>8, <1>9 DEF NotStartable

-----------------------------------------------------------------------------
(* What follows.                                                           *)

\* IInv holds at the start and every step keeps it.
LEMMA Inductive == Spec => []IInv
<1>1. ASSUME Init PROVE IInv
  <2>1. conf \in ConfType
    <3>1. [n \in Names |-> IF n \in {} THEN "file's" ELSE "none"]
            \in [Names -> {"none", "file's", "default"}]
      OBVIOUS
    <3> QED BY <1>1, <3>1 DEF Init, Decoded, NoFile, ConfType
  <2>2. TypeOK
    BY <1>1, <2>1 DEF Init, TypeOK, Steps
  <2>3. Enabled = {}
    BY <1>1 DEF Init, Decoded, NoFile, Enabled
  <2>4. /\ FileDecoded /\ AddressParsed /\ PathMerged /\ NamesMerged
        /\ TickerMade /\ LoadedOnly /\ Served /\ NotStartable
    BY <1>1, <2>3
       DEF Init, FileDecoded, AddressParsed, PathMerged, NamesMerged, TickerMade,
           LoadedOnly, Served, NotStartable, Ends,
           BeforeDecode, BeforeAddress, BeforePath, BeforeAdd, AfterAdd
  <2> QED BY <2>2, <2>4 DEF IInv
<1>2. ASSUME IInv, [Next]_vars PROVE IInv'
  BY <1>2, TypeStep, FileStep, AddressStep, PathStep, NamesStep, TickerStep,
     LoadedStep, ServedStep, EndStep DEF IInv
<1> QED BY <1>1, <1>2, PTL DEF Spec

\* Every variable of the start up keeps its type, and only collectors that exist and
\* are enabled are loaded.
THEOREM TypeCorrect == Spec => []TypeOK
BY Inductive, PTL DEF IInv

\* A process that serves does so under the merged path and with the wanted
\* collectors, for every set of names and paths (config.go lines 142-172).
THEOREM Merged == Spec => []FlagsMerged
<1>1. IInv => FlagsMerged
  BY DEF IInv, Served, FileDecoded, PathMerged, MergedPath, NamesMerged, LoadedOnly,
         FlagsMerged,
           BeforeDecode, BeforeAddress, BeforePath, BeforeAdd, AfterAdd
<1> QED BY <1>1, Inductive, PTL

\* The process serves only when it was startable and ends on its way only when it was
\* not (config.go lines 142-172, exporter.go lines 86-104, 150 and 194-198).
THEOREM StartsExactly == Spec => []StartsExactlyWhen
<1>1. ASSUME IInv PROVE StartsExactlyWhen
  <2> SUFFICES ASSUME proc = "serving" PROVE Startable
    BY <1>1 DEF IInv, NotStartable, StartsExactlyWhen
  <2> USE <1>1 DEF IInv,
           BeforeDecode, BeforeAddress, BeforePath, BeforeAdd, AfterAdd
  <2>1. step = "paths" /\ conf.path \notin Reserved \cup {Unset}
    BY DEF Served
  <2>2. Enabled = Wanted /\ loaded = Wanted
    BY <2>1 DEF NamesMerged, LoadedOnly
  <2>3. file.made
    BY <2>1, <2>2, WantedSome DEF NamesMerged, FileDecoded
  <2>4. flags.file = "good"
    BY <2>3 DEF FileDecoded, NoFile
  <2>5. flags.address \in {"not given", "host:port"}
    BY <2>1 DEF AddressParsed
  <2>6. Wanted \subseteq Factories /\ (flags.regexps \/ Wanted \cap Patterned = {})
    BY <2>2 DEF TypeOK, LoadedOnly
  <2>7. file.tags => file.period > 0
    BY <2>1 DEF TickerMade, FileDecoded
  <2>8. /\ flags.path \notin Reserved \cup {Unset}
        /\ flags.path = Placeholder => file.path \notin Reserved
    BY <2>1, PathsAssumption DEF PathMerged, MergedPath
  <2> QED BY <2>3, <2>4, <2>5, <2>6, <2>7, <2>8 DEF Startable
<1> QED BY <1>1, Inductive, PTL
=============================================================================
