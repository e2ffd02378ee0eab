----------------------------- MODULE Lifecycle -----------------------------
(***************************************************************************)
(* What the rest of the installation may rely on about one exporter        *)
(* process, without its goroutines: the phase it is in, and whether        *)
(* Consul's catalog sends Prometheus to it.  Module Exporter implements    *)
(* this specification.                                                     *)
(***************************************************************************)

VARIABLES
  phase,      \* of the process
  advertised  \* the catalog holds an entry for the service ID

vars == <<phase, advertised>>

Phases == {"starting", "serving", "stopping", "stopped", "crashed"}
Alive  == {"starting", "serving", "stopping"}

Init == phase = "starting" /\ advertised \in BOOLEAN

Serve == phase = "starting" /\ phase' = "serving" /\ UNCHANGED advertised

\* One stop is accepted, and only by a process that has finished starting.
Stop == phase = "serving" /\ phase' = "stopping" /\ UNCHANGED advertised

Finish == phase = "stopping" /\ phase' = "stopped" /\ UNCHANGED advertised

Crash == phase \in Alive /\ phase' = "crashed" /\ UNCHANGED advertised

\* The entry appears once the process has asked for it, perhaps long after.
Advertise == advertised' = TRUE /\ UNCHANGED phase

\* The entry is never taken from a process that is starting or serving.
Withdraw ==
  /\ phase \in {"stopping", "stopped", "crashed"}
  /\ advertised' = FALSE /\ UNCHANGED phase

Next == Serve \/ Stop \/ Finish \/ Crash \/ Advertise \/ Withdraw

\* A process that has accepted a stop ends.
Fairness == WF_vars(Finish \/ (phase = "stopping" /\ Crash))

Spec == Init /\ [][Next]_vars
FairSpec == Spec /\ Fairness
=============================================================================
