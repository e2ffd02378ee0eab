--------------------------- MODULE RestartProofs ---------------------------
(***************************************************************************)
(* Proofs about Restart, for any number of processes one after another.    *)
(***************************************************************************)
EXTENDS Restart, TLAPS

-----------------------------------------------------------------------------
(* The inductive invariant.                                                *)

\* A request that no process has made is nowhere, one that Consul has applied is
\* not under way as well, and a confirmed one was applied.
RequestsAccounted ==
  /\ \A p \in Processes, kind \in Kinds :
       /\ p > now => result[p][kind] = "none"
       /\ result[p][kind] = "none" => <<p, kind>> \notin wire \cup done
       /\ result[p][kind] = "ok" => <<p, kind>> \in done
  /\ wire \cap done = {}

\* Where the running process is tells which calls it has made.
CallsInOrder ==
  /\ phase # "ended" => now \in Processes
  /\ phase = "starting" => result[now]["register"] = "none"
  /\ phase \in {"starting", "register", "serving"} =>
       result[now]["deregister"] = "none"

\* What came late is of the processes before the last.
LateBefore == \A r \in late : r[1] \in 1..(now - 1)

\* The catalog has this process's entry once its registration is applied, until
\* its deregistration is, or else a predecessor's unconfirmed request came late.
EntryOrLate ==
  now # 0 /\ <<now, "register">> \in done /\ <<now, "deregister">> \notin done
          /\ entry # now =>
    \E r \in late :
      /\ result[r[1]][r[2]] # "ok"
      /\ entry = IF r[2] = "register" THEN r[1] ELSE 0

\* After a confirmed registration the deregistration stands, as long as nothing of
\* the predecessors comes late.  (Without the confirmation it may not: a registration
\* whose call failed can come after the deregistration of the same process.)
Withdrawn ==
  now # 0 /\ result[now]["register"] = "ok" /\ <<now, "deregister">> \in done
          /\ late = {}
    => entry = 0

IInv == /\ TypeOK /\ RequestsAccounted /\ CallsInOrder
        /\ LateBefore /\ EntryOrLate /\ Withdrawn

-----------------------------------------------------------------------------
(* Types.                                                                  *)

\* Every action keeps every variable in its type.
LEMMA TypeStep ==
  ASSUME TypeOK, RequestsAccounted, CallsInOrder, [Next]_vars
  PROVE  TypeOK'
<1> USE ProcessesAssumption DEF TypeOK, Processes, Kinds, Requests
<1>1. CASE Start
  BY <1>1 DEF Start
<1>2. CASE Die
  BY <1>2 DEF Die
<1>3. ASSUME NEW kind \in Kinds, Call(kind) PROVE TypeOK'
  <2>1. now \in Processes
    BY <1>3 DEF Call, CallsInOrder
  <2> QED BY <1>3, <2>1 DEF Call
<1>4. ASSUME NEW kind \in Kinds, Return(kind) PROVE TypeOK'
  <2>1. now \in Processes
    BY <1>4 DEF Return, CallsInOrder
  <2> QED BY <1>4, <2>1 DEF Return, After
<1>5. ASSUME NEW r \in Requests, Apply(r) PROVE TypeOK'
  <2>1. PICK p \in Processes, kind \in Kinds : r = <<p, kind>>
    OBVIOUS
  <2>2. result[p][kind] # "none"
    BY <1>5, <2>1 DEF Apply, RequestsAccounted
  <2>3. ~(p > now)
    BY <2>1, <2>2 DEF RequestsAccounted
  <2> QED BY <1>5, <2>1, <2>3 DEF Apply
<1>6. ASSUME NEW r \in Requests, Lose(r) PROVE TypeOK'
  BY <1>6 DEF Lose
<1>7. CASE Rest \/ UNCHANGED vars
  BY <1>7 DEF Rest, vars
<1> QED BY <1>1, <1>2, <1>3, <1>4, <1>5, <1>6, <1>7 DEF Next

-----------------------------------------------------------------------------
(* Who has called what.                                                    *)

\* A process calls once, and Consul confirms what it has applied.
LEMMA AccountedStep ==
  ASSUME TypeOK, RequestsAccounted, CallsInOrder, [Next]_vars
  PROVE  RequestsAccounted'
<1> USE DEF TypeOK, Processes, Kinds, Requests
<1>1. CASE Start
  BY <1>1 DEF Start, RequestsAccounted
<1>2. CASE Die
  BY <1>2 DEF Die, RequestsAccounted
<1>3. ASSUME NEW kind \in Kinds, Call(kind) PROVE RequestsAccounted'
  <2>1. now \in Processes
    BY <1>3 DEF Call, CallsInOrder
  <2>2. result[now][kind] = "none"
    BY <1>3 DEF Call, CallsInOrder
  <2>3. <<now, kind>> \notin done
    BY <2>1, <2>2 DEF RequestsAccounted
  <2> QED BY <1>3, <2>1, <2>3 DEF Call, RequestsAccounted
<1>4. ASSUME NEW kind \in Kinds, Return(kind) PROVE RequestsAccounted'
  <2>1. now \in Processes
    BY <1>4 DEF Return, CallsInOrder
  <2> QED BY <1>4, <2>1 DEF Return, RequestsAccounted
<1>5. ASSUME NEW r \in Requests, Apply(r) PROVE RequestsAccounted'
  BY <1>5 DEF Apply, RequestsAccounted
<1>6. ASSUME NEW r \in Requests, Lose(r) PROVE RequestsAccounted'
  BY <1>6 DEF Lose, RequestsAccounted
<1>7. CASE Rest \/ UNCHANGED vars
  BY <1>7 DEF Rest, vars, RequestsAccounted
<1> QED BY <1>1, <1>2, <1>3, <1>4, <1>5, <1>6, <1>7 DEF Next

\* The calls of a process come in their order.
LEMMA CallsStep ==
  ASSUME TypeOK, RequestsAccounted, CallsInOrder, [Next]_vars
  PROVE  CallsInOrder'
<1> USE DEF TypeOK, Processes, Kinds
<1>1. CASE Start
  <2>1. now' \in Processes /\ now' > now
    BY <1>1, ProcessesAssumption DEF Start
  <2>2. result'[now'] = result[now'] /\ \A kind \in Kinds : result[now'][kind] = "none"
    BY <1>1, <2>1 DEF Start, RequestsAccounted
  <2> QED BY <1>1, <2>1, <2>2 DEF Start, CallsInOrder
<1>2. CASE Die
  BY <1>2 DEF Die, CallsInOrder
<1>3. ASSUME NEW kind \in Kinds, Call(kind) PROVE CallsInOrder'
  <2>1. now \in Processes
    BY <1>3 DEF Call, CallsInOrder
  <2> QED BY <1>3, <2>1 DEF Call, CallsInOrder
<1>4. ASSUME NEW kind \in Kinds, Return(kind) PROVE CallsInOrder'
  <2>1. now \in Processes
    BY <1>4 DEF Return, CallsInOrder
  <2> QED BY <1>4, <2>1 DEF Return, After, CallsInOrder
<1>5. ASSUME NEW r \in Requests, Apply(r) PROVE CallsInOrder'
  BY <1>5 DEF Apply, CallsInOrder
<1>6. ASSUME NEW r \in Requests, Lose(r) PROVE CallsInOrder'
  BY <1>6 DEF Lose, CallsInOrder
<1>7. CASE Rest \/ UNCHANGED vars
  BY <1>7 DEF Rest, vars, CallsInOrder
<1> QED BY <1>1, <1>2, <1>3, <1>4, <1>5, <1>6, <1>7 DEF Next

-----------------------------------------------------------------------------
(* The catalog.                                                            *)

\* A request that is still on the wire is not one its process saw confirmed.
LEMMA OnWireUnsettled ==
  ASSUME TypeOK, RequestsAccounted,
         NEW p \in Processes, NEW kind \in Kinds, <<p, kind>> \in wire
  PROVE  p <= now /\ <<p, kind>> \notin done /\ result[p][kind] # "ok"
<1>1. <<p, kind>> \notin done /\ result[p][kind] \notin {"none", "ok"}
  BY DEF RequestsAccounted
<1>2. p <= now
  BY <1>1, ProcessesAssumption DEF RequestsAccounted, Processes, TypeOK
<1> QED BY <1>1, <1>2

\* Only a predecessor's request is noted as late.
LEMMA LateStep ==
  ASSUME TypeOK, RequestsAccounted, CallsInOrder, LateBefore, [Next]_vars
  PROVE  LateBefore'
<1> USE DEF TypeOK, Processes, Kinds, Requests
<1>1. CASE Start
  BY <1>1 DEF Start, LateBefore
<1>2. CASE Die
  BY <1>2 DEF Die, LateBefore
<1>3. ASSUME NEW kind \in Kinds, Call(kind) PROVE LateBefore'
  BY <1>3 DEF Call, LateBefore
<1>4. ASSUME NEW kind \in Kinds, Return(kind) PROVE LateBefore'
  BY <1>4 DEF Return, LateBefore
<1>5. ASSUME NEW r \in Requests, Apply(r) PROVE LateBefore'
  BY <1>5, ProcessesAssumption DEF Apply, LateBefore
<1>6. ASSUME NEW r \in Requests, Lose(r) PROVE LateBefore'
  BY <1>6 DEF Lose, LateBefore
<1>7. CASE Rest \/ UNCHANGED vars
  BY <1>7 DEF Rest, vars, LateBefore
<1> QED BY <1>1, <1>2, <1>3, <1>4, <1>5, <1>6, <1>7 DEF Next

\* Only a predecessor's late request makes the entry another's.
LEMMA EntryStep ==
  ASSUME TypeOK, RequestsAccounted, CallsInOrder, LateBefore, EntryOrLate,
         [Next]_vars
  PROVE  EntryOrLate'
<1> USE DEF TypeOK, Processes, Kinds, Requests
<1>1. CASE Start
  <2>1. now' \in Processes /\ now' > now
    BY <1>1, ProcessesAssumption DEF Start
  <2>2. <<now', "register">> \notin done'
    BY <1>1, <2>1 DEF Start, RequestsAccounted
  <2> QED BY <2>2 DEF EntryOrLate
<1>2. CASE Die
  BY <1>2 DEF Die, EntryOrLate
<1>3. ASSUME NEW kind \in Kinds, Call(kind) PROVE EntryOrLate'
  <2>1. now \in Processes
    BY <1>3 DEF Call, CallsInOrder
  <2>2. \A r \in late : result'[r[1]] = result[r[1]]
    BY <1>3, <2>1 DEF Call, LateBefore
  <2> QED BY <1>3, <2>2 DEF Call, EntryOrLate
<1>4. ASSUME NEW kind \in Kinds, Return(kind) PROVE EntryOrLate'
  <2>1. now \in Processes
    BY <1>4 DEF Return, CallsInOrder
  <2>2. \A r \in late : result'[r[1]] = result[r[1]]
    BY <1>4, <2>1 DEF Return, LateBefore
  <2> QED BY <1>4, <2>2 DEF Return, EntryOrLate
<1>5. ASSUME NEW r \in Requests, Apply(r) PROVE EntryOrLate'
  <2>1. PICK p \in Processes, kind \in Kinds : r = <<p, kind>>
    OBVIOUS
  <2>2. <<p, kind>> \in wire
    BY <1>5, <2>1 DEF Apply
  <2>3. p <= now /\ result[p][kind] # "ok"
    BY <2>2, OnWireUnsettled
  <2>4. entry' = IF kind = "register" THEN p ELSE 0
    BY <1>5, <2>1 DEF Apply
  <2>5. CASE p = now
    <3>1. kind = "register" => entry' = now'
      BY <1>5, <2>4, <2>5 DEF Apply
    <3>2. kind = "deregister" => <<now, "deregister">>' \in done'
      BY <1>5, <2>1, <2>5 DEF Apply
    <3> QED BY <3>1, <3>2 DEF EntryOrLate
  <2>6. CASE p < now /\ <<now, "register">> \in done
    <3>1. r \in late' /\ result'[r[1]][r[2]] # "ok"
      BY <1>5, <2>1, <2>3, <2>6 DEF Apply
    <3> QED BY <2>1, <2>4, <3>1 DEF EntryOrLate
  <2>7. CASE p < now /\ <<now, "register">> \notin done
    <3>1. <<now', "register">> \notin done'
      BY <1>5, <2>1, <2>7 DEF Apply
    <3> QED BY <3>1 DEF EntryOrLate
  <2> QED BY <2>3, <2>5, <2>6, <2>7
<1>6. ASSUME NEW r \in Requests, Lose(r) PROVE EntryOrLate'
  BY <1>6 DEF Lose, EntryOrLate
<1>7. CASE Rest \/ UNCHANGED vars
  <2>1. UNCHANGED <<now, wire, done, result, entry, late>>
    BY <1>7 DEF Rest, vars
  <2> QED BY <2>1 DEF EntryOrLate
<1> QED BY <1>1, <1>2, <1>3, <1>4, <1>5, <1>6, <1>7 DEF Next

\* Behind a deregistration nothing can come but a predecessor's late request.
LEMMA WithdrawnStep ==
  ASSUME TypeOK, RequestsAccounted, CallsInOrder, Withdrawn, [Next]_vars
  PROVE  Withdrawn'
<1> USE DEF TypeOK, Processes, Kinds, Requests
<1>1. CASE Start
  <2>1. now' \in Processes /\ now' > now
    BY <1>1, ProcessesAssumption DEF Start
  <2>2. <<now', "deregister">> \notin done'
    BY <1>1, <2>1 DEF Start, RequestsAccounted
  <2> QED BY <2>2 DEF Withdrawn
<1>2. CASE Die
  BY <1>2 DEF Die, Withdrawn
<1>3. ASSUME NEW kind \in Kinds, Call(kind) PROVE Withdrawn'
  <2>1. now \in Processes
    BY <1>3 DEF Call, CallsInOrder
  <2>2. <<now, "deregister">> \notin done
    BY <1>3, <2>1 DEF Call, CallsInOrder, RequestsAccounted
  <2> QED BY <1>3, <2>2 DEF Call, Withdrawn
<1>4. ASSUME NEW kind \in Kinds, Return(kind) PROVE Withdrawn'
  <2>1. now \in Processes
    BY <1>4 DEF Return, CallsInOrder
  <2>2. CASE kind = "register"
    <3>1. <<now, "deregister">> \notin done
      BY <1>4, <2>1, <2>2 DEF Return, CallsInOrder, RequestsAccounted
    <3> QED BY <1>4, <3>1 DEF Return, Withdrawn
  <2>3. CASE kind = "deregister"
    <3>1. result'[now]["register"] = result[now]["register"]
      BY <1>4, <2>1, <2>3 DEF Return
    <3> QED BY <1>4, <3>1 DEF Return, Withdrawn
  <2> QED BY <2>2, <2>3
<1>5. ASSUME NEW r \in Requests, Apply(r) PROVE Withdrawn'
  <2>1. PICK p \in Processes, kind \in Kinds : r = <<p, kind>>
    OBVIOUS
  <2>2. <<p, kind>> \in wire
    BY <1>5, <2>1 DEF Apply
  <2>3. p <= now /\ result[p][kind] # "ok"
    BY <2>2, OnWireUnsettled
  <2>4. CASE p = now
    BY <1>5, <2>1, <2>3, <2>4 DEF Apply, Withdrawn
  <2>5. CASE p < now
    <3>1. now \in Processes
      BY <2>1, <2>5
    <3>2. result[now]["register"] = "ok" => late' # {}
      BY <1>5, <2>1, <2>5, <3>1 DEF Apply, RequestsAccounted
    <3> QED BY <1>5, <3>2 DEF Apply, Withdrawn
  <2> QED BY <2>3, <2>4, <2>5
<1>6. ASSUME NEW r \in Requests, Lose(r) PROVE Withdrawn'
  BY <1>6 DEF Lose, Withdrawn
<1>7. CASE Rest \/ UNCHANGED vars
  <2>1. UNCHANGED <<now, wire, done, result, entry, late>>
    BY <1>7 DEF Rest, vars
  <2> QED BY <2>1 DEF Withdrawn
<1> QED BY <1>1, <1>2, <1>3, <1>4, <1>5, <1>6, <1>7 DEF Next

-----------------------------------------------------------------------------
(* What follows.                                                           *)

\* IInv holds before the first process and every step keeps it.
LEMMA Inductive == Spec => []IInv
<1>1. ASSUME Init PROVE IInv
  <2>1. TypeOK
    BY <1>1, ProcessesAssumption DEF Init, TypeOK, Processes, Kinds
  <2>2. /\ RequestsAccounted /\ CallsInOrder
        /\ LateBefore /\ EntryOrLate /\ Withdrawn
    BY <1>1 DEF Init, RequestsAccounted, CallsInOrder, LateBefore, EntryOrLate,
                Withdrawn
  <2> QED BY <2>1, <2>2 DEF IInv
<1>2. ASSUME IInv, [Next]_vars PROVE IInv'
  BY <1>2, TypeStep, AccountedStep, CallsStep, LateStep, EntryStep,
     WithdrawnStep DEF IInv
<1> QED BY <1>1, <1>2, PTL DEF Spec

\* Every variable keeps its type, and the entry is never one of a process to come.
THEOREM TypeCorrect == Spec => []TypeOK
BY Inductive, PTL DEF IInv

\* After any number of processes, each of which may have died at any point with its
\* calls failed, lost or under way, the entry is what the last one has made it from
\* its confirmed registration on, until a predecessor's request comes behind that
\* (auxiliaryfunctions.go:61-134, exporter.go:204-211).
THEOREM LastDecides == Spec => []EntryOfLast
<1>1. IInv => EntryOfLast
  <2> SUFFICES ASSUME IInv, now # 0, result[now]["register"] = "ok", late = {}
               PROVE  entry = IF <<now, "deregister">> \in done THEN 0 ELSE now
    BY DEF EntryOfLast
  <2>1. now \in Processes
    BY ProcessesAssumption DEF IInv, TypeOK, Processes
  <2>2. <<now, "register">> \in done
    BY <2>1 DEF IInv, RequestsAccounted, Kinds
  <2>3. CASE <<now, "deregister">> \in done
    BY <2>3 DEF IInv, Withdrawn
  <2>4. CASE <<now, "deregister">> \notin done
    BY <2>2, <2>4 DEF IInv, EntryOrLate
  <2> QED BY <2>3, <2>4
<1> QED BY <1>1, Inductive, PTL

\* A serving process that was confirmed and is not in the catalog has lost its place
\* to an unanswered request of one of the processes before it.
THEOREM LostOnlyToPredecessor == Spec => []LostToPredecessor
<1>1. IInv => LostToPredecessor
  <2> SUFFICES ASSUME IInv, phase = "serving", result[now]["register"] = "ok",
                      entry # now
               PROVE  \E r \in late :
                        /\ result[r[1]][r[2]] # "ok"
                        /\ entry = IF r[2] = "register" THEN r[1] ELSE 0
    BY DEF LostToPredecessor
  <2>1. now \in Processes
    BY DEF IInv, CallsInOrder
  <2>2. <<now, "register">> \in done
    BY <2>1 DEF IInv, RequestsAccounted, Kinds
  <2>3. <<now, "deregister">> \notin done
    BY <2>1 DEF IInv, RequestsAccounted, CallsInOrder, Kinds
  <2>4. now # 0
    BY <2>1, ProcessesAssumption DEF Processes
  <2> QED BY <2>2, <2>3, <2>4 DEF IInv, EntryOrLate
<1> QED BY <1>1, Inductive, PTL
=============================================================================
