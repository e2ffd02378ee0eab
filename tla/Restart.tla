------------------------------ MODULE Restart ------------------------------
(***************************************************************************)
(* The processes of one service after each other, and the one entry that   *)
(* they all have in Consul's catalog: every registration is under the same *)
(* node and service ID (utils/auxiliaryfunctions.go), so that each process *)
(* writes over, and withdraws, what its predecessors have left.  A process *)
(* may die at any moment, by a crash or by log.Fatalf, and with a call to  *)
(* Consul under way; a request may be lost, and it may come late, when the *)
(* call has long failed or the process is gone.                            *)
(*                                                                         *)
(* Module Exporter has one of these processes with all its goroutines.     *)
(***************************************************************************)
EXTENDS Naturals

CONSTANT MaxProcesses  \* bound: the processes that are started

ASSUME ProcessesAssumption == MaxProcesses \in Nat

VARIABLES
  now,     \* the process that was started last, 0 before the first
  phase,   \* what it is doing
  wire,    \* the requests that Consul has not seen yet
  done,    \* the requests that Consul has applied
  result,  \* result[p][kind]: what p knows of its request
  entry,   \* the process that the catalog's entry is of, 0 for none
  late     \* history: requests of the processes before the last one that Consul
           \* has applied after the last one's registration

vars == <<now, phase, wire, done, result, entry, late>>

Processes == 1..MaxProcesses
Kinds     == {"register", "deregister"}
Requests  == Processes \X Kinds

TypeOK ==
  /\ now \in 0..MaxProcesses /\ entry \in 0..now
  /\ phase \in {"ended", "starting", "register", "serving", "deregister"}
  /\ wire \subseteq Requests /\ done \subseteq Requests /\ late \subseteq done
  /\ result \in [Processes -> [Kinds -> {"none", "asked", "ok", "failed"}]]

Init ==
  /\ now = 0 /\ phase = "ended" /\ entry = 0
  /\ wire = {} /\ done = {} /\ late = {}
  /\ result = [p \in Processes |-> [k \in Kinds |-> "none"]]

-----------------------------------------------------------------------------
(* The service control manager, or a hand, starts the next when none runs. *)

Start ==
  /\ phase = "ended" /\ now < MaxProcesses
  /\ now' = now + 1 /\ phase' = "starting" /\ late' = {}
  /\ UNCHANGED <<wire, done, result, entry>>

\* Mutant: an entry that is there already is as good as one's own.
CallIfMissing(kind) ==
  /\ phase = IF kind = "register" THEN "starting" ELSE "serving"
  /\ IF kind = "register" /\ entry # 0
     THEN phase' = "serving" /\ result' = [result EXCEPT ![now][kind] = "ok"] /\ wire' = wire
     ELSE /\ phase' = kind /\ wire' = wire \cup {<<now, kind>>}
          /\ result' = [result EXCEPT ![now][kind] = "asked"]
  /\ UNCHANGED <<now, done, entry, late>>

\* utils.Register and the deferred utils.DeRegister: the request goes out ...
Call(kind) ==
  /\ phase = IF kind = "register" THEN "starting" ELSE "serving"
  /\ phase' = kind /\ wire' = wire \cup {<<now, kind>>}
  /\ result' = [result EXCEPT ![now][kind] = "asked"]
  /\ UNCHANGED <<now, done, entry, late>>

After(kind) == IF kind = "register" THEN "serving" ELSE "ended"

\* Mutant: the call does not wait for the answer.
ReturnEarly(kind) ==
  /\ phase = kind /\ phase' = After(kind)
  /\ \E answer \in {"ok", "failed"} :
       result' = [result EXCEPT ![now][kind] = answer]
  /\ UNCHANGED <<now, wire, done, entry, late>>

\* ... and the call returns.  Only what Consul has applied is confirmed, but an
\* error, which is only logged, says nothing of the request.
Return(kind) ==
  /\ phase = kind /\ phase' = After(kind)
  /\ \E answer \in {"ok", "failed"} :
       /\ answer = "ok" => <<now, kind>> \in done
       /\ result' = [result EXCEPT ![now][kind] = answer]
  /\ UNCHANGED <<now, wire, done, entry, late>>

\* No deferred call runs.
Die ==
  /\ phase # "ended" /\ phase' = "ended"
  /\ UNCHANGED <<now, wire, done, result, entry, late>>

\* The requests name the node and the service ID, and no process.
Apply(r) ==
  /\ r \in wire /\ wire' = wire \ {r} /\ done' = done \cup {r}
  /\ entry' = IF r[2] = "register" THEN r[1] ELSE 0
  /\ late' = IF r[1] < now /\ <<now, "register">> \in done
             THEN late \cup {r} ELSE late
  /\ UNCHANGED <<now, phase, result>>

Lose(r) ==
  /\ r \in wire /\ wire' = wire \ {r}
  /\ UNCHANGED <<now, phase, done, result, entry, late>>

Rest == phase = "ended" /\ now = MaxProcesses /\ UNCHANGED vars

Next ==
  \/ Start \/ Die \/ Rest
  \/ \E kind \in Kinds : Call(kind) \/ Return(kind)
  \/ \E r \in Requests : Apply(r) \/ Lose(r)

Spec == Init /\ [][Next]_vars

-----------------------------------------------------------------------------
(* Safety.                                                                 *)

\* However the processes before it ended, and whatever they left unanswered: once
\* the registration of the last one was confirmed, the catalog is what that one has
\* made it until a request of theirs comes.  The entry of a crash, or of a log.Fatalf
\* in the server goroutine, is written over, requests that came before the
\* registration do no harm, and neither do those that are still under way or lost
\* (exporter.go:205-211, auxiliaryfunctions.go:61-134).
EntryOfLast ==
  now # 0 /\ result[now]["register"] = "ok" /\ late = {}
    => entry = IF <<now, "deregister">> \in done THEN 0 ELSE now

\* A process that serves, and whose registration was confirmed, may all the same not
\* be in the catalog: then a request of a process before it, one that this process
\* never saw confirmed, has come after the registration, and has put the dead process
\* back or taken the entry away.  Nothing registers the one that serves again.
LostToPredecessor ==
  phase = "serving" /\ result[now]["register"] = "ok" /\ entry # now =>
    \E r \in late :
      /\ result[r[1]][r[2]] # "ok"
      /\ entry = IF r[2] = "register" THEN r[1] ELSE 0
=============================================================================
