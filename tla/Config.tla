------------------------------- MODULE Config -------------------------------
(***************************************************************************)
(* The exporter's start up to the listener (exporter.go main, conf): the   *)
(* configuration file is read, the flags of the command line are merged    *)
(* into it, the collectors named are made and the paths are served.  Each  *)
(* step can end the process.  Consul, AWS and the goroutines that start on *)
(* the way are in module Exporter.                                         *)
(***************************************************************************)
EXTENDS Integers

CONSTANTS
  Names,        \* the collectors that a file or a flag may name
  Factories,    \* those that are built in
  Patterned,    \* those whose constructor compiles a regexp from the flags
  Placeholder,  \* DefaultPlaceholder, "[defaults]": the value of a flag not given
  Paths,        \* metric paths
  DefaultPath,  \* defaultMetricsPath
  Reserved,     \* paths that main serves itself: "/health", "/"
  Unset,        \* the empty string
  Periods,      \* refresh periods in seconds
  NoAddress     \* GetAddress of no file, ":0"

ASSUME NamesAssumption ==
  /\ Factories \subseteq Names /\ Patterned \subseteq Factories
  /\ Placeholder \in Names \ Factories
ASSUME PathsAssumption ==
  /\ {DefaultPath} \cup Reserved \subseteq Paths /\ DefaultPath \notin Reserved
  /\ Unset \notin Paths /\ Placeholder \notin Paths \cup {Unset}
ASSUME PeriodsAssumption == Periods \subseteq Int

\* An address is its form: what strings.Split and Atoi make of it.
AddressFlags == {"not given", "host:port", "host", "host:word"}

\* collectors: what strings.Split leaves of the list, never nothing; listed: the flag
\* is another string than the placeholder, perhaps one that names it twice.
FlagsType == {f \in [file : {"none", "bad", "good"}, address : AddressFlags,
                     path : Paths \cup {Unset, Placeholder},
                     listed : BOOLEAN, collectors : (SUBSET Names) \ {{}},
                     regexps : BOOLEAN] :
                ~f.listed => f.collectors = {Placeholder}}

\* made: the file has a table of collectors, perhaps an empty one, so that the map
\* is not nil; period is that of the tag labels, which the file may leave out.
FileType == {f \in [address : {NoAddress, "file's"}, path : Paths \cup {Unset},
                    made : BOOLEAN, collectors : SUBSET Names,
                    tags : BOOLEAN, period : Periods] :
               ~f.made => f.collectors = {}}

NoFile == [address |-> NoAddress, path |-> Unset, made |-> FALSE, collectors |-> {},
           tags |-> FALSE, period |-> 0]

VARIABLES
  flags,   \* the command line
  file,    \* what the file holds
  step,    \* what main does next
  proc,    \* "starting", "serving", or how the process ended
  conf,    \* UCMConfig
  todo,    \* the names of the flag that are still to be added
  loaded   \* the collectors made so far

vars == <<flags, file, step, proc, conf, todo, loaded>>

\* spec[n]: the CollectorSpec of n, the file's or the one of the default namespace.
ConfType == [address : {NoAddress, "file's", "flag's"}, path : Paths \cup {Unset}, made : BOOLEAN,
             spec : [Names -> {"none", "file's", "default"}],
             tags : BOOLEAN, period : Periods \cup {0}]

Steps == {"print", "decode", "address", "path", "collectors", "add", "tags", "load", "paths"}
Ends  == {"printed", "cannot parse file", "cannot parse address", "no such part",
          "nil map", "no period", "no such collector", "bad regexp",
          "invalid pattern", "registered twice"}

TypeOK ==
  /\ flags \in FlagsType /\ file \in FileType \cup {NoFile} /\ step \in Steps
  /\ proc \in {"starting", "serving"} \cup Ends
  /\ conf \in ConfType /\ todo \subseteq Names
  /\ loaded \subseteq Factories /\ loaded \subseteq {n \in Names : conf.spec[n] # "none"}

Decoded(f) == [address |-> f.address, path |-> f.path, made |-> f.made,
               spec |-> [n \in Names |-> IF n \in f.collectors THEN "file's" ELSE "none"],
               tags |-> f.tags, period |-> f.period]

Init ==
  /\ flags \in FlagsType /\ file \in FileType \cup {NoFile}
  /\ flags.file # "good" => file = NoFile
  /\ step = "print" /\ proc = "starting" /\ conf = Decoded(NoFile)
  /\ todo = {} /\ loaded = {}

At(s)   == proc = "starting" /\ step = s
Goto(s) == step' = s /\ UNCHANGED <<flags, file, proc>>
End(e)  == proc' = e /\ UNCHANGED <<flags, file, step, conf, todo, loaded>>

-----------------------------------------------------------------------------
(* main's flags and conf.InitializeFromConfig.                             *)

\* -version and -collectors.print print and return.
PrintOnly ==
  /\ At("print")
  /\ \/ End("printed")
     \/ Goto("decode") /\ UNCHANGED <<conf, todo, loaded>>

Decode ==
  /\ At("decode")
  /\ \/ flags.file = "bad" /\ End("cannot parse file")
     \/ /\ flags.file # "bad" /\ Goto("address")
        /\ conf' = Decoded(file) /\ UNCHANGED <<todo, loaded>>

\* setAddress has a value receiver: it parses the flag and sets a copy.  GetAddress
\* is never empty, so that without the flag it is not called.
SetAddress ==
  /\ At("address")
  /\ \/ flags.address = "host" /\ End("no such part")
     \/ flags.address = "host:word" /\ End("cannot parse address")
     \/ /\ flags.address \notin {"host", "host:word"} /\ Goto("path")
        /\ UNCHANGED <<conf, todo, loaded>>

SetPath ==
  /\ At("path") /\ Goto("collectors")
  /\ conf' = IF flags.path = Placeholder /\ conf.path # Unset THEN conf
             ELSE [conf EXCEPT !.path = IF flags.path = Placeholder THEN DefaultPath
                                        ELSE flags.path]
  /\ UNCHANGED <<todo, loaded>>

\* Mutant: a flag that is not given adds nothing.
AskedIfGiven == IF flags.listed THEN flags.collectors ELSE {}

\* The names that are added: the placeholder too, which is not expanded.
Asked ==
  IF flags.listed \/ \A n \in Names : conf.spec[n] = "none"
  THEN flags.collectors ELSE {}

SplitCollectors ==
  /\ At("collectors") /\ Goto("add")
  /\ todo' = Asked /\ UNCHANGED <<conf, loaded>>

\* Mutant: the flag's entry takes the place of the file's.
AddCollectorAlways ==
  /\ At("add")
  /\ \E n \in todo :
       \/ ~conf.made /\ End("nil map")
       \/ /\ conf.made /\ Goto("add")
          /\ conf' = [conf EXCEPT !.spec[n] = "default"]
          /\ todo' = todo \ {n} /\ UNCHANGED loaded

\* EnabledCollectors[v] = CollectorSpec{Namespace: "wmi"}, unless the file has it.
AddCollector ==
  /\ At("add")
  /\ \E n \in todo :
       \/ conf.spec[n] = "none" /\ ~conf.made /\ End("nil map")
       \/ /\ conf.spec[n] = "none" /\ conf.made /\ Goto("add")
          /\ conf' = [conf EXCEPT !.spec[n] = "default"]
          /\ todo' = todo \ {n} /\ UNCHANGED loaded
       \/ /\ conf.spec[n] # "none" /\ Goto("add")
          /\ todo' = todo \ {n} /\ UNCHANGED <<conf, loaded>>

Configured ==
  /\ At("add") /\ todo = {} /\ Goto("tags")
  /\ UNCHANGED <<conf, todo, loaded>>

-----------------------------------------------------------------------------
(* The rest of main.                                                       *)

\* time.NewTicker panics unless the period is positive.
StartTicker ==
  /\ At("tags")
  /\ \/ conf.tags /\ conf.period <= 0 /\ End("no period")
     \/ /\ conf.tags => conf.period > 0
        /\ Goto("load") /\ UNCHANGED <<conf, todo, loaded>>

Enabled == {n \in Names : conf.spec[n] # "none"}

\* Mutant: unsupported collectors are left out, as the comment says.
LoadCollectorOrSkip ==
  /\ At("load")
  /\ \E n \in Enabled \ loaded :
       \/ n \in Patterned /\ ~flags.regexps /\ End("bad regexp")
       \/ /\ ~(n \in Patterned /\ ~flags.regexps) /\ Goto("load")
          /\ loaded' = loaded \cup {n} /\ UNCHANGED <<conf, todo>>

LoadCollector ==
  /\ At("load")
  /\ \E n \in Enabled \ loaded :
       \/ n \notin Factories /\ End("no such collector")
       \/ n \in Patterned /\ ~flags.regexps /\ End("bad regexp")
       \/ /\ n \in Factories /\ (n \in Patterned => flags.regexps)
          /\ Goto("load")
          /\ loaded' = loaded \cup {n} /\ UNCHANGED <<conf, todo>>

Loaded ==
  /\ At("load") /\ loaded = Enabled /\ Goto("paths")
  /\ UNCHANGED <<conf, todo, loaded>>

\* http.Handle and HandleFunc panic on an empty pattern and on one they have.
ServePaths ==
  /\ At("paths")
  /\ \/ conf.path = Unset /\ End("invalid pattern")
     \/ conf.path \in Reserved /\ End("registered twice")
     \/ conf.path \notin Reserved \cup {Unset} /\ End("serving")

Rest == proc # "starting" /\ UNCHANGED vars

Next ==
  \/ PrintOnly \/ Decode \/ SetAddress \/ SetPath
  \/ SplitCollectors \/ AddCollector \/ Configured
  \/ StartTicker \/ LoadCollector \/ Loaded \/ ServePaths \/ Rest

Spec == Init /\ [][Next]_vars

-----------------------------------------------------------------------------
(* Safety.                                                                 *)

\* The collectors that are asked for: the file's, and those of the command line,
\* which without its flag is the placeholder, and counts if the file names none.
Wanted ==
  file.collectors \cup (IF ~flags.listed /\ file.collectors # {}
                        THEN {} ELSE flags.collectors)

\* Whoever started the process finds it serving under the command line's path, or
\* else the file's, or else the default, with the file's collectors as the file
\* describes them and those of the command line besides, which replaces none of
\* them (config.go:154, "allow override of configuration file values with command
\* line params").  The same line says it of the address: see InstalledServes.
FlagsMerged ==
  proc = "serving" =>
    /\ conf.path = IF flags.path # Placeholder THEN flags.path
                   ELSE IF file.path # Unset THEN file.path ELSE DefaultPath
    /\ loaded = Wanted
    /\ \A n \in Names : conf.spec[n] = "file's" <=> n \in file.collectors

\* What the code needs to be started with, which is more than what its documents
\* say.  A file must have a table of collectors, since no other map is ever made; a
\* collector that is not built in ends the process, although loadCollectors means to
\* "remove any unsupported collectors" (exporter.go:90); and the placeholder is such
\* a name, although the flag's help (exporter.go:119) and TestExpandEnabled take it
\* to stand for the default collectors.  InstalledServes has what comes of that.
Startable ==
  /\ flags.file = "good" /\ flags.address \in {"not given", "host:port"}
  /\ Wanted \subseteq Factories /\ file.made
  /\ flags.regexps \/ Wanted \cap Patterned = {}
  /\ file.tags => file.period > 0
  /\ flags.path \notin Reserved \cup {Unset}
  /\ flags.path = Placeholder => file.path \notin Reserved

\* The process serves if it is started so, and with anything else it ends at one of
\* the steps: no mistake of the configuration is overlooked and none is made up
\* (config.go lines 142-172, exporter.go lines 86-104, 150 and 194-198).
StartsExactlyWhen ==
  /\ proc = "serving" => Startable
  /\ proc \in Ends \ {"printed"} => ~Startable

-----------------------------------------------------------------------------
(* What the documents say, and the code does not do.                       *)

\* The service as the installer sets it up without parameters: no file, the address
\* ":9182", and no path, collectors or patterns (installer/wmi_exporter.wxs).
Installed ==
  /\ flags.file = "none" /\ flags.address = "host:port"
  /\ flags.path = Placeholder /\ ~flags.listed /\ flags.regexps

\* README.md:27 and 33: "If the installer is run without any parameters, the exporter
\* will run with default settings for enabled collectors, ports, etc.", LISTEN_PORT
\* "Defaults to 9182".  So the installed process serves, and at the flag's address,
\* as config.go:154 and the flag's help (exporter.go:117) promise.
InstalledServes ==
  Installed /\ proc \notin {"starting", "printed"} =>
    proc = "serving" /\ conf.address = "flag's"
=============================================================================
