------------------------------ MODULE Exporter ------------------------------
(***************************************************************************)
(* The life of one wmi_exporter process: main() and the goroutines it      *)
(* starts (exporter.go), the service loop of the vendored svc package that *)
(* runs Execute, the calls to Consul (utils/auxiliaryfunctions.go) and the *)
(* Windows service control manager (SCM) that watches the process.         *)
(*                                                                         *)
(* Every goroutine has its program counter as a variable.  The unbuffered  *)
(* channels stopCh, quitCh, cmdsToHandler, changesFromHandler and          *)
(* exitFromHandler have no state of their own: a send and its receive are  *)
(* one step of both goroutines.                                            *)
(***************************************************************************)
EXTENDS Naturals

CONSTANTS
  Configs,      \* the configurations the process may be started with
  MaxControls,  \* bound: the control requests the SCM sends, by configuration
  SvcFaults     \* may a call of the Windows service API fail?

\* interactive: svc.IsAnInteractiveSession(); tags: AwsTagsToLabels.Enabled;
\* discovery: ServiceDiscovery.Enabled.
ConfigType == [interactive : BOOLEAN, tags : BOOLEAN, discovery : BOOLEAN]

ASSUME ConfigsAssumption == Configs \subseteq ConfigType
ASSUME BoundsAssumption ==
  MaxControls \in [ConfigType -> Nat] /\ SvcFaults \in BOOLEAN

VARIABLES
  cfg,        \* the loaded configuration
  proc,       \* the process: "running", or how it ended
  main,       \* main()
  refresher,  \* the goroutine of the AWS tag ticker
  tick,       \* a tick waits in ticker.C (capacity 1)
  labelled,   \* utils.TagLabelNames has been filled
  sig,        \* the SIGINT goroutine
  server,     \* the goroutine of http.ListenAndServe
  run,        \* svc.Run and service.run
  exec,       \* wmiExporterService.Execute
  ctl,        \* the control the SCM's callback holds out on service.c
  runCmd,     \* the control service.run holds out to Execute
  status,     \* service.run's copy of the last status it reported
  echo,       \* ChangeRequest.CurrentStatus of the request Execute answers
  ec,         \* did service.run break its loop over a failed call?
  controls,   \* control requests sent by the SCM
  scm,        \* the state the SCM shows for the service
  catalog,    \* Consul's catalog holds an entry for this service ID
  wire,       \* requests Consul has not seen yet
  acked,      \* requests Consul has applied
  regRes,     \* what Register() knows of its call
  deregRes    \* what DeRegister() knows of its call

tagVars    == <<refresher, tick, labelled>>
svcVars    == <<run, exec, ctl, runCmd, status, echo, ec, controls, scm>>
consulVars == <<catalog, wire, acked, regRes, deregRes>>
vars == <<cfg, proc, main, tagVars, sig, server, svcVars, consulVars>>

-----------------------------------------------------------------------------
Cmds     == {"Interrogate", "Stop", "Shutdown", "Other"}
States   == {"StartPending", "Running", "StopPending", "Stopped"}
Requests == {"register", "deregister"}
Results  == {"none", "ok", "err"}

Starting == {"config", "metadata", "schedule", "session", "sigint", "load",
             "register", "registering", "serve"}
Stopping == {"quit", "deregister", "deregistering", "done"}
PastQuit == Stopping \ {"quit"}
Ended    == {"exited", "fatal", "panicked", "interrupted"}

ProcessTypes ==
  /\ cfg \in ConfigType
  /\ proc \in {"running"} \cup Ended
  /\ main \in Starting \cup {"wait"} \cup Stopping
  /\ refresher \in {"off", "select", "fetch", "gone"}
  /\ tick \in BOOLEAN /\ labelled \in BOOLEAN
  /\ sig \in {"off", "starting", "listening", "sending", "gone"}
  /\ server \in {"off", "starting", "listening"}

ServiceTypes ==
  /\ run \in {"off", "dispatch", "failed", "loop", "broken"}
  /\ exec \in {"off", "start", "started", "select", "reply", "stopping",
               "stopped", "exit", "gone"}
  /\ ctl \in Cmds \cup {"none"} /\ runCmd \in Cmds \cup {"none"}
  /\ status \in States /\ echo \in States
  /\ ec \in BOOLEAN
  /\ controls \in 0..MaxControls[cfg]
  /\ scm \in States \cup {"none"}

ConsulTypes ==
  /\ catalog \in BOOLEAN
  /\ wire \subseteq Requests /\ acked \subseteq Requests
  /\ regRes \in Results /\ deregRes \in Results

TypeOK == ProcessTypes /\ ServiceTypes /\ ConsulTypes

\* A process starts with every goroutine but main's still to come.  The
\* catalog may hold the entry an earlier process left there.
Init ==
  /\ cfg \in Configs
  /\ proc = "running" /\ main = "config"
  /\ refresher = "off" /\ tick = FALSE /\ labelled = FALSE
  /\ sig = "off" /\ server = "off"
  /\ run = "off" /\ exec = "off" /\ ctl = "none" /\ runCmd = "none"
  /\ status = "Stopped" /\ echo = "Stopped" /\ ec = FALSE /\ controls = 0
  /\ scm = "none"
  /\ catalog \in {FALSE, cfg.discovery}
  /\ wire = {} /\ acked = {} /\ regRes = "none" /\ deregRes = "none"

Running == proc = "running"

\* The process ends where it stands: no goroutine takes another step and no
\* deferred call runs.
Die(how) ==
  /\ proc' = how
  /\ UNCHANGED <<cfg, main, tagVars, sig, server, svcVars, consulVars>>

MainStep(from, to) == Running /\ main = from /\ main' = to

-----------------------------------------------------------------------------
(* main(), up to the wait for a stop.                                      *)

\* conf.InitializeFromConfig: returns, or ends the process on a bad file.
LoadConfig ==
  \/ /\ MainStep("config", "metadata")
     /\ UNCHANGED <<cfg, proc, tagVars, sig, server, svcVars, consulVars>>
  \/ Running /\ main = "config" /\ Die("panicked")

\* utils.FetchAWSMetadata: an error of the metadata service is logged only;
\* a document with a string attribute is written into the nil map labels.
FetchAWSMetadata ==
  \/ /\ MainStep("metadata", "schedule")
     /\ UNCHANGED <<cfg, proc, tagVars, sig, server, svcVars, consulVars>>
  \/ Running /\ main = "metadata" /\ Die("panicked")

\* The ticker and its goroutine exist only when tags become labels; NewTicker
\* panics for a period that is not positive (which periods are: module Config).
Schedule ==
  \/ /\ MainStep("schedule", "session")
     /\ refresher' = IF cfg.tags THEN "select" ELSE refresher
     /\ UNCHANGED <<cfg, proc, tick, labelled, sig, server, svcVars, consulVars>>
  \/ Running /\ main = "schedule" /\ cfg.tags /\ Die("panicked")

\* go svc.Run when the session is not interactive; log.Fatal when Windows
\* cannot tell.
CheckSession ==
  \/ /\ MainStep("session", "sigint")
     /\ run' = IF cfg.interactive THEN run ELSE "dispatch"
     /\ UNCHANGED <<cfg, proc, tagVars, sig, server, exec, ctl, runCmd, status,
                    echo, ec, controls, scm, consulVars>>
  \/ Running /\ SvcFaults /\ main = "session" /\ Die("fatal")

SpawnSigint ==
  /\ MainStep("sigint", "load") /\ sig' = "starting"
  /\ UNCHANGED <<cfg, proc, tagVars, server, svcVars, consulVars>>

\* loadCollectors, MustRegister and the handlers; log.Fatalf on a collector
\* that does not exist or whose constructor fails.
LoadCollectors ==
  \/ /\ MainStep("load", "register")
     /\ UNCHANGED <<cfg, proc, tagVars, sig, server, svcVars, consulVars>>
  \/ Running /\ main = "load" /\ Die("fatal")

\* utils.Register: nothing without discovery; hostip[0] and the nil client
\* panic; else the request is put on the wire.
Register ==
  \/ /\ MainStep("register", "registering")
     /\ cfg.discovery
     /\ wire' = wire \cup {"register"}
     /\ UNCHANGED <<cfg, proc, tagVars, sig, server, svcVars, catalog, acked,
                    regRes, deregRes>>
  \/ /\ MainStep("register", "serve")
     /\ ~cfg.discovery
     /\ UNCHANGED <<cfg, proc, tagVars, sig, server, svcVars, consulVars>>
  \/ Running /\ main = "register" /\ cfg.discovery /\ Die("panicked")

\* Mutant: the call is not waited for and taken to have succeeded.
RegisterReturnsAtOnce ==
  /\ MainStep("registering", "serve") /\ regRes' = "ok"
  /\ UNCHANGED <<cfg, proc, tagVars, sig, server, svcVars, catalog, wire,
                 acked, deregRes>>

\* The call returns: only an applied request is acknowledged, but an error may
\* come back for one that was applied, was lost, or is still on its way.
RegisterReturns ==
  /\ MainStep("registering", "serve")
  /\ \/ "register" \in acked /\ regRes' = "ok"
     \/ regRes' = "err"
  /\ UNCHANGED <<cfg, proc, tagVars, sig, server, svcVars, catalog, wire,
                 acked, deregRes>>

\* Mutant: DeRegister is called where it should be deferred.
SpawnServerDeregistering ==
  /\ MainStep("serve", "wait") /\ server' = "starting"
  /\ wire' = IF cfg.discovery THEN wire \cup {"deregister"} ELSE wire
  /\ UNCHANGED <<cfg, proc, tagVars, sig, svcVars, catalog, acked, regRes,
                 deregRes>>

SpawnServer ==
  /\ MainStep("serve", "wait") /\ server' = "starting"
  /\ UNCHANGED <<cfg, proc, tagVars, sig, svcVars, consulVars>>

-----------------------------------------------------------------------------
(* Stopping: <-stopCh, then quitCh <- true, then the deferred DeRegister.  *)

\* Mutant: the goroutine listens for the next SIGINT again.
StopBySigintAgain ==
  /\ MainStep("wait", "quit")
  /\ sig = "sending" /\ sig' = "listening"
  /\ UNCHANGED <<cfg, proc, tagVars, server, svcVars, consulVars>>

StopBySigint ==
  /\ MainStep("wait", "quit")
  /\ sig = "sending" /\ sig' = "gone"
  /\ UNCHANGED <<cfg, proc, tagVars, server, svcVars, consulVars>>

StopByService ==
  /\ MainStep("wait", "quit")
  /\ exec = "stopping" /\ exec' = "stopped"
  /\ UNCHANGED <<cfg, proc, tagVars, sig, server, run, ctl, runCmd, status,
                 echo, ec, controls, scm, consulVars>>

\* Mutant: quitCh has a buffer, the send does not wait for the refresher.
QuitHandshakeBuffered ==
  /\ MainStep("quit", "deregister")
  /\ UNCHANGED <<cfg, proc, tagVars, sig, server, svcVars, consulVars>>

\* Mutant: a tick that is due is always taken before the quit.
QuitHandshakeTicksFirst ==
  /\ MainStep("quit", "deregister")
  /\ refresher = "select" /\ ~tick /\ refresher' = "gone"
  /\ UNCHANGED <<cfg, proc, tick, labelled, sig, server, svcVars, consulVars>>

\* quitCh <- true; close(quitCh): the send needs the refresher at its select.
QuitHandshake ==
  /\ MainStep("quit", "deregister")
  /\ refresher = "select" /\ refresher' = "gone"
  /\ UNCHANGED <<cfg, proc, tick, labelled, sig, server, svcVars, consulVars>>

DeRegister ==
  \/ /\ MainStep("deregister", "deregistering")
     /\ cfg.discovery
     /\ wire' = wire \cup {"deregister"}
     /\ UNCHANGED <<cfg, proc, tagVars, sig, server, svcVars, catalog, acked,
                    regRes, deregRes>>
  \/ /\ Running /\ main = "deregister" /\ ~cfg.discovery
     /\ main' = "done" /\ proc' = "exited"
     /\ UNCHANGED <<cfg, tagVars, sig, server, svcVars, consulVars>>
  \/ Running /\ main = "deregister" /\ cfg.discovery /\ Die("panicked")

\* main returns, and with it the process.
DeRegisterReturns ==
  /\ MainStep("deregistering", "done") /\ proc' = "exited"
  /\ \/ "deregister" \in acked /\ deregRes' = "ok"
     \/ deregRes' = "err"
  /\ UNCHANGED <<cfg, tagVars, sig, server, svcVars, catalog, wire, acked,
                 regRes>>

-----------------------------------------------------------------------------
(* The tag refresher.                                                      *)

\* time.Ticker: a tick that finds the channel full is dropped.
Tick ==
  /\ Running /\ refresher \in {"select", "fetch"} /\ tick' = TRUE
  /\ UNCHANGED <<cfg, proc, main, refresher, labelled, sig, server, svcVars,
                 consulVars>>

TakeTick ==
  /\ Running /\ refresher = "select" /\ tick
  /\ refresher' = "fetch" /\ tick' = FALSE
  /\ UNCHANGED <<cfg, proc, main, labelled, sig, server, svcVars, consulVars>>

\* utils.FetchAWSLabelTags returns: labels set, or early on an AWS error; it
\* panics when it writes a tag into the nil map labels.
FetchReturns ==
  \/ /\ Running /\ refresher = "fetch" /\ refresher' = "select"
     /\ labelled' \in {labelled, TRUE}
     /\ UNCHANGED <<cfg, proc, main, tick, sig, server, svcVars, consulVars>>
  \/ Running /\ refresher = "fetch" /\ Die("panicked")

-----------------------------------------------------------------------------
(* SIGINT and the HTTP server.                                             *)

Notify ==
  /\ Running /\ sig = "starting" /\ sig' = "listening"
  /\ UNCHANGED <<cfg, proc, main, tagVars, server, svcVars, consulVars>>

\* Before signal.Notify the runtime's default kills the process; later signals
\* than the first stay unread in sigchan.
Interrupt ==
  \/ /\ Running /\ sig = "listening" /\ sig' = "sending"
     /\ UNCHANGED <<cfg, proc, main, tagVars, server, svcVars, consulVars>>
  \/ Running /\ sig \in {"off", "starting"} /\ Die("interrupted")

\* ListenAndServe: listens, or fails into log.Fatalf, at once or later.
Listen ==
  /\ Running /\ server = "starting" /\ server' = "listening"
  /\ UNCHANGED <<cfg, proc, main, tagVars, sig, svcVars, consulVars>>

ServerFails == Running /\ server # "off" /\ Die("fatal")

\* A collector's goroutine panics during a scrape: module Scrape.
ScrapePanics == Running /\ server = "listening" /\ Die("panicked")

-----------------------------------------------------------------------------
(* service.run, Execute, and the SCM.                                      *)

otherThanSvc == <<cfg, proc, main, tagVars, sig, server, consulVars>>

\* StartServiceCtrlDispatcher: the SCM calls the service's main, or there is no
\* SCM behind the process and Run returns an error that nobody reads.
SvcConnect ==
  /\ Running /\ run = "dispatch"
  /\ \/ run' = "loop" /\ exec' = "start" /\ scm' = "StartPending"
     \/ run' = "failed" /\ UNCHANGED <<exec, scm>>
  /\ UNCHANGED <<otherThanSvc, ctl, runCmd, status, echo, ec, controls>>

\* service.run leaves its loop over an error: Stopped is reported if the API
\* still answers, and nobody receives Execute's changes any more.
BreakLoop ==
  /\ SvcFaults /\ run' = "broken" /\ ec' = TRUE
  /\ scm' \in {scm, "Stopped"}

\* changes <- st, received by service.run and passed to SetServiceStatus.
Report(from, st, to) ==
  /\ Running /\ run = "loop" /\ exec = from /\ exec' = to
  /\ \/ scm' = st /\ status' = st /\ UNCHANGED <<run, ec>>
     \/ BreakLoop /\ UNCHANGED status
  /\ UNCHANGED <<otherThanSvc, ctl, runCmd, echo, controls>>

ReportStartPending == Report("start", "StartPending", "started")
ReportRunning      == Report("started", "Running", "select")
AnswerInterrogate  == Report("reply", echo, "select")
ReportStopPending  == Report("stopped", "StopPending", "exit")

\* Execute returns and service.run reports Stopped.
ExecuteExits ==
  /\ Running /\ run = "loop" /\ exec = "exit"
  /\ exec' = "gone" /\ run' = "broken"
  /\ scm' \in {"Stopped"} \cup (IF SvcFaults THEN {scm} ELSE {})
  /\ UNCHANGED <<otherThanSvc, ctl, runCmd, status, echo, ec, controls>>

\* The SCM sends a control: Interrogate and user-defined codes whenever the
\* service is not stopped, Stop and Shutdown while it accepts them.
Control(cmd) ==
  /\ Running /\ ctl = "none" /\ controls < MaxControls[cfg]
  /\ scm \notin {"none", "Stopped"}
  /\ cmd \in {"Stop", "Shutdown"} => scm = "Running"
  /\ ctl' = cmd /\ controls' = controls + 1
  /\ UNCHANGED <<otherThanSvc, run, exec, runCmd, status, echo, ec, scm>>

\* case r := <-inch, with inch nil while a command is held out to Execute.
TakeControl ==
  /\ Running /\ run = "loop" /\ ctl # "none" /\ runCmd = "none"
  /\ ctl' = "none"
  /\ \/ runCmd' = ctl /\ UNCHANGED <<run, ec, scm>>
     \/ BreakLoop /\ UNCHANGED runCmd
  /\ UNCHANGED <<otherThanSvc, exec, status, echo, controls>>

\* Mutant: the request is built without a CurrentStatus, whose zero State is
\* none of the states the API knows.
DeliverNoStatus ==
  /\ Running /\ run = "loop" /\ runCmd # "none" /\ exec = "select"
  /\ runCmd' = "none" /\ echo' = "0"
  /\ exec' = CASE runCmd = "Interrogate"           -> "reply"
               [] runCmd \in {"Stop", "Shutdown"}  -> "stopping"
               [] OTHER                            -> "select"
  /\ UNCHANGED <<otherThanSvc, run, ctl, status, ec, controls, scm>>

\* Mutant: the request carries the status service.run began with.
DeliverFirstStatus ==
  /\ Running /\ run = "loop" /\ runCmd # "none" /\ exec = "select"
  /\ runCmd' = "none" /\ echo' = "Stopped"
  /\ exec' = CASE runCmd = "Interrogate"           -> "reply"
               [] runCmd \in {"Stop", "Shutdown"}  -> "stopping"
               [] OTHER                            -> "select"
  /\ UNCHANGED <<otherThanSvc, run, ctl, status, ec, controls, scm>>

\* Mutant: a stop is reported before main is asked to stop.
DeliverReportFirst ==
  /\ Running /\ run = "loop" /\ runCmd # "none" /\ exec = "select"
  /\ runCmd' = "none" /\ echo' = status
  /\ exec' = CASE runCmd = "Interrogate"           -> "reply"
               [] runCmd \in {"Stop", "Shutdown"}  -> "stopped"
               [] OTHER                            -> "select"
  /\ UNCHANGED <<otherThanSvc, run, ctl, status, ec, controls, scm>>

\* Mutant: inch and outch are not set back after the delivery.
DeliverForever ==
  /\ Running /\ run = "loop" /\ runCmd # "none" /\ exec = "select"
  /\ echo' = status
  /\ exec' = CASE runCmd = "Interrogate"           -> "reply"
               [] runCmd \in {"Stop", "Shutdown"}  -> "stopping"
               [] OTHER                            -> "select"
  /\ UNCHANGED <<otherThanSvc, run, ctl, runCmd, status, ec, controls, scm>>

\* case outch <- ChangeRequest{cmd, status}, received in Execute's loop.
Deliver ==
  /\ Running /\ run = "loop" /\ runCmd # "none" /\ exec = "select"
  /\ runCmd' = "none" /\ echo' = status
  /\ exec' = CASE runCmd = "Interrogate"           -> "reply"
               [] runCmd \in {"Stop", "Shutdown"}  -> "stopping"
               [] OTHER                            -> "select"
  /\ UNCHANGED <<otherThanSvc, run, ctl, status, ec, controls, scm>>

\* The SCM notices that the service's process is gone.
ScmNotices ==
  /\ ~Running /\ scm \notin {"none", "Stopped"} /\ scm' = "Stopped"
  /\ UNCHANGED <<otherThanSvc, run, exec, ctl, runCmd, status, echo, ec,
                 controls>>

-----------------------------------------------------------------------------
(* Consul and the network before it, which outlive the process.            *)

Apply(m) ==
  /\ m \in wire
  /\ wire' = wire \ {m} /\ acked' = acked \cup {m}
  /\ catalog' = (m = "register")
  /\ UNCHANGED <<cfg, proc, main, tagVars, sig, server, svcVars, regRes,
                 deregRes>>

Lose(m) ==
  /\ m \in wire /\ wire' = wire \ {m}
  /\ UNCHANGED <<cfg, proc, main, tagVars, sig, server, svcVars, catalog,
                 acked, regRes, deregRes>>

-----------------------------------------------------------------------------
Startup == \/ LoadConfig \/ FetchAWSMetadata \/ Schedule \/ CheckSession
           \/ SpawnSigint \/ LoadCollectors \/ Register \/ RegisterReturns
           \/ SpawnServer
Shutdown == \/ StopBySigint \/ StopByService \/ QuitHandshake \/ DeRegister
            \/ DeRegisterReturns
Refresher == Tick \/ TakeTick \/ FetchReturns
Listeners == Notify \/ Interrupt \/ Listen \/ ServerFails \/ ScrapePanics
Service == \/ SvcConnect \/ ReportStartPending \/ ReportRunning
           \/ AnswerInterrogate \/ ReportStopPending \/ ExecuteExits
           \/ \E cmd \in Cmds : Control(cmd)
           \/ TakeControl \/ Deliver \/ ScmNotices
Consul == \E m \in Requests : Apply(m) \/ Lose(m)

\* What rests without being stuck: an ended process, and main at <-stopCh with
\* the server waiting for requests.
Idle ==
  /\ \/ ~Running
     \/ main = "wait" /\ server = "listening"
  /\ UNCHANGED vars

Next == Startup \/ Shutdown \/ Refresher \/ Listeners \/ Service \/ Consul
        \/ Idle

\* The Go scheduler runs every goroutine that can run; a select with several
\* ready cases picks one at random, so the quit case, ready again and again, is
\* taken in the end however fast the ticks come.  Calls to Consul, AWS and the
\* SCM return.  Nothing makes the environment send a signal, a control or a
\* tick, and nothing makes a call fail.
Fairness ==
  /\ WF_vars(Startup) /\ WF_vars(StopBySigint \/ StopByService)
  /\ SF_vars(QuitHandshake)
  /\ WF_vars(DeRegister) /\ WF_vars(DeRegisterReturns)
  /\ WF_vars(TakeTick) /\ WF_vars(FetchReturns)
  /\ WF_vars(Notify) /\ WF_vars(Listen)
  /\ WF_vars(SvcConnect) /\ WF_vars(ReportStartPending)
  /\ WF_vars(ReportRunning) /\ WF_vars(AnswerInterrogate)
  /\ WF_vars(ReportStopPending) /\ WF_vars(ExecuteExits)
  /\ WF_vars(TakeControl) /\ WF_vars(Deliver)

Spec == Init /\ [][Next]_vars
FairSpec == Spec /\ Fairness

-----------------------------------------------------------------------------
(* Safety.                                                                 *)

\* main leaves its wait on exactly one stop: of the SIGINT goroutine and
\* Execute, which both send on stopCh (exporter.go:181, 257), one has handed
\* its value over when main is past exporter.go:216, and none before.
StopHandedOver ==
  LET bySigint  == sig = "gone"
      byService == exec \in {"stopped", "exit", "gone"}
  IN  /\ main \in Stopping <=> (bySigint \/ byService)
      /\ ~(bySigint /\ byService)

\* Once main is past quitCh <- true (exporter.go:218) the tag refresher has
\* returned: no fetch is running, and none rewrites the label arrays while the
\* process deregisters and ends.
RefresherQuiesced == main \in PastQuit => refresher = "gone"

\* The SCM is told StopPending only once main has the stop, and Stopped only
\* after Execute returned, a service API call failed, or the process ended.
StatusHonest ==
  /\ scm = "StopPending" => main \in Stopping
  /\ scm = "Stopped" /\ Running => exec = "gone" \/ ec

\* While main serves, a registration Consul confirmed is in the catalog: only
\* the deferred DeRegister (exporter.go:206) ever asks for its removal.
AdvertisedWhileServing ==
  Running /\ main = "wait" /\ regRes = "ok" => catalog

\* A process that returned from main with both calls confirmed leaves no entry
\* behind, whatever the network did with the requests.
CleanExitWithdraws ==
  proc = "exited" /\ regRes = "ok" /\ deregRes = "ok" => ~catalog

\* The state the SCM shows only moves forward, also when Execute answers an
\* Interrogate with the status it was handed (exporter.go:255).
Rank(st) == CASE st = "none"         -> 0
              [] st = "StartPending" -> 1
              [] st = "Running"      -> 2
              [] st = "StopPending"  -> 3
              [] st = "Stopped"      -> 4
StatusForward == [][Rank(scm') >= Rank(scm)]_vars

-----------------------------------------------------------------------------
(* What makes them inductive.                                              *)

\* The state the SCM shows follows Execute's place in its code for as long as
\* service.run is in its loop, and Execute only ever answers an Interrogate
\* with Running (service.go:222-235, exporter.go:247-264).
Due(at) == CASE at \in {"start", "started"} -> "StartPending"
             [] at = "exit"                 -> "StopPending"
             [] OTHER                       -> "Running"
StatusFollowsExecute ==
  /\ main \in {"config", "metadata", "schedule", "session"} => run = "off"
  /\ exec = "off" <=> run \in {"off", "dispatch", "failed"}
  /\ exec = "off" <=> scm = "none"
  /\ run = "loop" => exec # "gone" /\ (Running => scm = Due(exec))
  /\ run = "loop" /\ exec \in {"select", "reply", "stopping", "stopped"}
       => status = "Running"
  /\ run = "loop" /\ exec = "reply" => echo = "Running"

\* Each request is sent once, at its place in main; an acknowledged one is not
\* in the network any more, so nothing old can overtake a later request, and
\* the catalog holds what the last applied request left.
RequestsInOrder ==
  /\ "register" \in wire \cup acked =>
       main \notin Starting \ {"registering", "serve"}
  /\ "deregister" \in wire \cup acked => main \in {"deregistering", "done"}
  /\ wire \cap acked = {}
  /\ regRes = "ok" => "register" \in acked
  /\ deregRes = "ok" => "deregister" \in acked
  /\ "register" \in acked /\ "deregister" \notin acked => catalog
  /\ regRes = "ok" /\ "deregister" \in acked => ~catalog

-----------------------------------------------------------------------------
(* Liveness, under FairSpec.                                               *)

\* A stop somebody is sending ends the process: the select of the refresher is
\* reached again, the hand-shake happens and main returns, even when a second
\* stopper is left blocked for good.
StopTerminates == sig = "sending" \/ exec = "stopping" ~> ~Running

\* The control callback, which runs on the SCM's dispatcher thread, is never
\* left blocked on service.c (service.go:290) by a process that lives on, as
\* long as service.run is in its loop.  It leaves the loop for good over a
\* failed call (service.go:226-235); the receiver of service.c is then gone, and
\* a control that comes later blocks the dispatcher.
ControlTaken == ctl # "none" ~> ctl = "none" \/ ~Running \/ run = "broken"

-----------------------------------------------------------------------------
(* The abstract specification.                                             *)

phase == CASE proc = "exited"             -> "stopped"
           [] proc \in Ended \ {"exited"} -> "crashed"
           [] main \in Starting           -> "starting"
           [] main = "wait"               -> "serving"
           [] OTHER                       -> "stopping"

L == INSTANCE Lifecycle WITH phase <- phase, advertised <- catalog

\* Seen from outside, the process starts, serves, accepts one stop and ends,
\* and the catalog entry is never withdrawn before the stop.
ImplementsLifecycle == L!Spec

\* ... and a process that accepted a stop does end.
ImplementsFairLifecycle == L!FairSpec

-----------------------------------------------------------------------------
(* What comments of the code say, and the code does not do.                *)

\* exporter.go:205, "deregister from consul when done": the process that logged
\* "Shutting down" comes to the deferred call.
ShutdownReachesDeRegister == main = "quit" ~> main = "deregister" \/ ~Running
=============================================================================
