-------------------------- MODULE CollectorsProofs --------------------------
(***************************************************************************)
(* Proofs about Collectors: for any instances, filters and templates, the  *)
(* samples of all eleven collectors fit their descriptors, none is         *)
(* forgotten or shown twice, and a run is one of module Collection.        *)
(***************************************************************************)
EXTENDS Collectors, SequenceTheorems, TLAPS

-----------------------------------------------------------------------------
(* Lists.                                                                  *)

IsList(s) == Len(s) \in Nat /\ s = [i \in 1..Len(s) |-> s[i]]

\* A list is a sequence of its elements.
LEMMA SeqOf ==
  ASSUME NEW s, IsList(s) PROVE s \in Seq({s[i] : i \in 1..Len(s)})
<1> DEFINE S == {s[i] : i \in 1..Len(s)}
<1>1. \A i \in 1..Len(s) : s[i] \in S
  OBVIOUS
<1>2. s = [i \in 1..Len(s) |-> s[i]] /\ Len(s) \in Nat
  BY DEF IsList
<1> HIDE DEF S
<1>3. s \in [1..Len(s) -> S]
  BY <1>1, <1>2
<1>4. s \in Seq(S)
  BY <1>2, <1>3, SeqDef
<1> QED BY <1>4 DEF S

\* The length and the elements of a concatenation.
LEMMA Concat ==
  ASSUME NEW s, NEW t, IsList(s), IsList(t)
  PROVE  /\ IsList(s \o t) /\ Len(s \o t) = Len(s) + Len(t)
         /\ \A i \in 1..Len(s) : (s \o t)[i] = s[i]
         /\ \A i \in 1..Len(t) : (s \o t)[Len(s) + i] = t[i]
         /\ \A i \in 1..Len(s \o t) :
              \/ i \in 1..Len(s) /\ (s \o t)[i] = s[i]
              \/ i - Len(s) \in 1..Len(t) /\ (s \o t)[i] = t[i - Len(s)]
<1> DEFINE S == {s[i] : i \in 1..Len(s)}
           T == {t[i] : i \in 1..Len(t)}
<1>1. s \in Seq(S) /\ t \in Seq(T)
  BY SeqOf
<1> HIDE DEF S, T
<1>2. s \in Seq(S \cup T) /\ t \in Seq(S \cup T)
  BY <1>1, SeqMonotonic
<1>3. /\ s \o t \in Seq(S \cup T) /\ Len(s \o t) = Len(s) + Len(t)
      /\ \A i \in 1..(Len(s) + Len(t)) :
           (s \o t)[i] = IF i <= Len(s) THEN s[i] ELSE t[i - Len(s)]
  BY <1>2, ConcatProperties
<1>4. Len(s) \in Nat /\ Len(t) \in Nat
  BY DEF IsList
<1>5. s \o t = [i \in 1..Len(s \o t) |-> (s \o t)[i]]
  <2>1. s \o t \in [1..Len(s \o t) -> S \cup T]
    BY <1>3, LenProperties
  <2> QED BY <2>1
<1>6. \A i \in 1..Len(s) : (s \o t)[i] = s[i]
  BY <1>3, <1>4
<1>7. \A i \in 1..Len(t) : (s \o t)[Len(s) + i] = t[i]
  BY <1>3, <1>4
<1> QED BY <1>3, <1>4, <1>5, <1>6, <1>7 DEF IsList

-----------------------------------------------------------------------------
(* The tables of samples: what holds of each collector's, section by section. *)

FamiliesOf(s) == {s[i].family : i \in 1..Len(s)}

\* As many label values as names: k of the row, and the sample's own.
Fits(s, d, k) ==
  \A i \in 1..Len(s) : /\ s[i].family \in DOMAIN d /\ IsList(s[i].own)
                       /\ k + Len(s[i].own) = Len(d[s[i].family])
\* A family has one type, and no label value twice.
Distinct(s) ==
  \A i, j \in 1..Len(s) : s[i].family = s[j].family =>
    s[i].type = s[j].type /\ (s[i].own = s[j].own => i = j)
\* No field is shown twice in a family.
Doubled == {"IXFRTCPSuccessReceived"}
Apart(s, but) ==
  \A i, j \in 1..Len(s) : s[i].family = s[j].family /\ s[i].shows = s[j].shows =>
    s[i].own = s[j].own \/ s[i].shows \in but
Tabled(s, d, k) == IsList(s) /\ FamiliesOf(s) = DOMAIN d /\ Fits(s, d, k) /\ Distinct(s)

\* cpu.go lines 152-169.
LEMMA CStatesTable ==
  /\ Tabled(CStates, Described({"cstate_seconds_total"}, <<"core", "state">>), 1)
  /\ Apart(CStates, {})
<1> DEFINE d == Described({"cstate_seconds_total"}, <<"core", "state">>)
<1>1. Len(CStates) = 3 /\ IsList(CStates)
  BY DEF IsList, CStates, Gauge, Sample
<1>2. FamiliesOf(CStates) = {"cstate_seconds_total"}
  BY <1>1 DEF FamiliesOf, CStates, Gauge, Sample
<1>3. Distinct(CStates)
  BY <1>1 DEF Distinct, CStates, Gauge, Sample
<1>4. Apart(CStates, {})
  BY <1>1 DEF Apart, CStates, Gauge, Sample
<1>5. \A i \in 1..3 : IsList(CStates[i].own)
  BY DEF IsList, CStates, Gauge, Sample
<1>6. \A f \in {"cstate_seconds_total"} : Len(d[f]) = 2
  BY DEF Described
<1>7. DOMAIN d = {"cstate_seconds_total"}
  BY DEF Described
<1>8. \A i \in 1..3 : CStates[i].family \in FamiliesOf(CStates)
  BY <1>1 DEF FamiliesOf
<1>9. \A i \in 1..3 : Len(CStates[i].own) = 1
  BY DEF CStates, Gauge, Sample
<1>10. \A i \in 1..3 : CStates[i].family \in DOMAIN d
  BY <1>2, <1>7, <1>8
<1> HIDE DEF d
<1>11. ASSUME NEW i \in 1..3 PROVE 1 + Len(CStates[i].own) = Len(d[CStates[i].family])
  <2>1. Len(CStates[i].own) = 1
    BY <1>9
  <2>2. Len(d[CStates[i].family]) = 2
    BY <1>6, <1>7, <1>10
  <2> QED BY <2>1, <2>2
<1> QED BY <1>1, <1>2, <1>3, <1>4, <1>5, <1>6, <1>7, <1>10, <1>11 DEF Tabled, Fits, d

\* cpu.go lines 171-199.
LEMMA CPUTimesTable ==
  /\ Tabled(CPUTimes, Described({"time_total"}, <<"core", "mode">>), 1)
  /\ Apart(CPUTimes, {})
<1> DEFINE d == Described({"time_total"}, <<"core", "mode">>)
<1>1. Len(CPUTimes) = 5 /\ IsList(CPUTimes)
  BY DEF IsList, CPUTimes, Gauge, Sample
<1>2. FamiliesOf(CPUTimes) = {"time_total"}
  BY <1>1 DEF FamiliesOf, CPUTimes, Gauge, Sample
<1>3. Distinct(CPUTimes)
  BY <1>1 DEF Distinct, CPUTimes, Gauge, Sample
<1>4. Apart(CPUTimes, {})
  BY <1>1 DEF Apart, CPUTimes, Gauge, Sample
<1>5. \A i \in 1..5 : IsList(CPUTimes[i].own)
  BY DEF IsList, CPUTimes, Gauge, Sample
<1>6. \A f \in {"time_total"} : Len(d[f]) = 2
  BY DEF Described
<1>7. DOMAIN d = {"time_total"}
  BY DEF Described
<1>8. \A i \in 1..5 : CPUTimes[i].family \in FamiliesOf(CPUTimes)
  BY <1>1 DEF FamiliesOf
<1>9. \A i \in 1..5 : Len(CPUTimes[i].own) = 1
  BY DEF CPUTimes, Gauge, Sample
<1>10. \A i \in 1..5 : CPUTimes[i].family \in DOMAIN d
  BY <1>2, <1>7, <1>8
<1> HIDE DEF d
<1>11. ASSUME NEW i \in 1..5 PROVE 1 + Len(CPUTimes[i].own) = Len(d[CPUTimes[i].family])
  <2>1. Len(CPUTimes[i].own) = 1
    BY <1>9
  <2>2. Len(d[CPUTimes[i].family]) = 2
    BY <1>6, <1>7, <1>10
  <2> QED BY <2>1, <2>2
<1> QED BY <1>1, <1>2, <1>3, <1>4, <1>5, <1>6, <1>7, <1>10, <1>11 DEF Tabled, Fits, d

\* cpu.go lines 201-213.
LEMMA CPUCountsTable ==
  /\ Tabled(CPUCounts, Described({"interrupts_total", "dpcs_total"}, <<"core">>), 1)
  /\ Apart(CPUCounts, {})
<1> DEFINE d == Described({"interrupts_total", "dpcs_total"}, <<"core">>)
<1>1. Len(CPUCounts) = 2 /\ IsList(CPUCounts)
  BY DEF IsList, CPUCounts, Plain, Sample
<1>2. FamiliesOf(CPUCounts) = {"interrupts_total", "dpcs_total"}
  BY <1>1 DEF FamiliesOf, CPUCounts, Plain, Sample
<1>3. Distinct(CPUCounts)
  BY <1>1 DEF Distinct, CPUCounts, Plain, Sample
<1>4. Apart(CPUCounts, {})
  BY <1>1 DEF Apart, CPUCounts, Plain, Sample
<1>5. \A i \in 1..2 : IsList(CPUCounts[i].own)
  BY DEF IsList, CPUCounts, Plain, Sample
<1>6. \A f \in {"interrupts_total", "dpcs_total"} : Len(d[f]) = 1
  BY DEF Described
<1>7. DOMAIN d = {"interrupts_total", "dpcs_total"}
  BY DEF Described
<1>8. \A i \in 1..2 : CPUCounts[i].family \in FamiliesOf(CPUCounts)
  BY <1>1 DEF FamiliesOf
<1>9. \A i \in 1..2 : Len(CPUCounts[i].own) = 0
  BY DEF CPUCounts, Plain, Sample
<1>10. \A i \in 1..2 : CPUCounts[i].family \in DOMAIN d
  BY <1>2, <1>7, <1>8
<1> HIDE DEF d
<1>11. ASSUME NEW i \in 1..2 PROVE 1 + Len(CPUCounts[i].own) = Len(d[CPUCounts[i].family])
  <2>1. Len(CPUCounts[i].own) = 0
    BY <1>9
  <2>2. Len(d[CPUCounts[i].family]) = 1
    BY <1>6, <1>7, <1>10
  <2> QED BY <2>1, <2>2
<1> QED BY <1>1, <1>2, <1>3, <1>4, <1>5, <1>6, <1>7, <1>10, <1>11 DEF Tabled, Fits, d

\* tcpu.go lines 286-341.
LEMMA RawSamplesTable ==
  /\ Tabled(RawSamples, Described({"raw_metrics"}, <<"core", "wminame">>), 1)
  /\ Apart(RawSamples, {})
<1> DEFINE d == Described({"raw_metrics"}, <<"core", "wminame">>)
<1>1. Len(RawSamples) = 9 /\ IsList(RawSamples)
  BY DEF IsList, RawSamples, Gauge, Sample, RawFields
<1>2. FamiliesOf(RawSamples) = {"raw_metrics"}
  BY <1>1 DEF FamiliesOf, RawSamples, Gauge, Sample, RawFields
<1>3. Distinct(RawSamples)
  BY <1>1 DEF Distinct, RawSamples, Gauge, Sample, RawFields
<1>4. Apart(RawSamples, {})
  BY <1>1 DEF Apart, RawSamples, Gauge, Sample, RawFields
<1>5. \A i \in 1..9 : IsList(RawSamples[i].own)
  BY DEF IsList, RawSamples, Gauge, Sample, RawFields
<1>6. \A f \in {"raw_metrics"} : Len(d[f]) = 2
  BY DEF Described
<1>7. DOMAIN d = {"raw_metrics"}
  BY DEF Described
<1>8. \A i \in 1..9 : RawSamples[i].family \in FamiliesOf(RawSamples)
  BY <1>1 DEF FamiliesOf
<1>9. \A i \in 1..9 : Len(RawSamples[i].own) = 1
  BY DEF RawSamples, Gauge, Sample, RawFields
<1>10. \A i \in 1..9 : RawSamples[i].family \in DOMAIN d
  BY <1>2, <1>7, <1>8
<1> HIDE DEF d
<1>11. ASSUME NEW i \in 1..9
       PROVE 1 + Len(RawSamples[i].own) = Len(d[RawSamples[i].family])
  <2>1. Len(RawSamples[i].own) = 1
    BY <1>9
  <2>2. Len(d[RawSamples[i].family]) = 2
    BY <1>6, <1>7, <1>10
  <2> QED BY <2>1, <2>2
<1> QED BY <1>1, <1>2, <1>3, <1>4, <1>5, <1>6, <1>7, <1>10, <1>11 DEF Tabled, Fits, d

\* cs.go lines 64-74.
LEMMA CSSamplesTable ==
  Tabled(CSSamples, CSDesc, 0) /\ Apart(CSSamples, {})
<1> DEFINE d == CSDesc
<1>1. Len(CSSamples) = 2 /\ IsList(CSSamples)
  BY DEF IsList, CSSamples, Plain, Sample
<1>2. FamiliesOf(CSSamples) = {"LogicalProcessors", "PhysicalMemoryBytes"}
  BY <1>1 DEF FamiliesOf, CSSamples, Plain, Sample
<1>3. Distinct(CSSamples)
  BY <1>1 DEF Distinct, CSSamples, Plain, Sample
<1>4. Apart(CSSamples, {})
  BY <1>1 DEF Apart, CSSamples, Plain, Sample
<1>5. \A i \in 1..2 : IsList(CSSamples[i].own)
  BY DEF IsList, CSSamples, Plain, Sample
<1>6. \A f \in {"LogicalProcessors", "PhysicalMemoryBytes"} : Len(d[f]) = 0
  BY DEF CSDesc, Described
<1>7. DOMAIN d = {"LogicalProcessors", "PhysicalMemoryBytes"}
  BY DEF CSDesc, Described
<1>8. \A i \in 1..2 : CSSamples[i].family \in FamiliesOf(CSSamples)
  BY <1>1 DEF FamiliesOf
<1>9. \A i \in 1..2 : Len(CSSamples[i].own) = 0
  BY DEF CSSamples, Plain, Sample
<1>10. \A i \in 1..2 : CSSamples[i].family \in DOMAIN d
  BY <1>2, <1>7, <1>8
<1> HIDE DEF d
<1>11. ASSUME NEW i \in 1..2 PROVE 0 + Len(CSSamples[i].own) = Len(d[CSSamples[i].family])
  <2>1. Len(CSSamples[i].own) = 0
    BY <1>9
  <2>2. Len(d[CSSamples[i].family]) = 0
    BY <1>6, <1>7, <1>10
  <2> QED BY <2>1, <2>2
<1> QED BY <1>1, <1>2, <1>3, <1>4, <1>5, <1>6, <1>7, <1>10, <1>11 DEF Tabled, Fits, d

\* dns.go lines 242-326.
LEMMA DNSTransfersTable ==
  Tabled(DNSTransfers, DNSTransferDesc, 0) /\ Apart(DNSTransfers, Doubled)
<1> DEFINE d == DNSTransferDesc
<1>1. Len(DNSTransfers) = 13 /\ IsList(DNSTransfers)
  BY SMTT(30) DEF IsList, DNSTransfers, Counter, Sample
<1>2. FamiliesOf(DNSTransfers) = {"ZoneTransferRequestsReceived",
        "ZoneTransferRequestsSent", "ZoneTransferResponsesReceived",
        "ZoneTransferSuccessReceived", "ZoneTransferSuccessSent",
        "ZoneTransferFailures"}
  BY <1>1 DEF FamiliesOf, DNSTransfers, Counter, Sample
<1>3. Distinct(DNSTransfers)
  BY <1>1, SMTT(30) DEF Distinct, DNSTransfers, Counter, Sample
<1>4. Apart(DNSTransfers, Doubled)
  BY <1>1, SMTT(30) DEF Apart, Doubled, DNSTransfers, Counter, Sample
<1>5. \A i \in 1..13 : IsList(DNSTransfers[i].own)
  BY SMTT(30) DEF IsList, DNSTransfers, Counter, Sample
<1>6. /\ \A f \in {"ZoneTransferRequestsReceived", "ZoneTransferRequestsSent",
            "ZoneTransferResponsesReceived", "ZoneTransferSuccessSent"} : Len(d[f]) = 1
      /\ \A f \in {"ZoneTransferSuccessReceived"} : Len(d[f]) = 2
      /\ \A f \in {"ZoneTransferFailures"} : Len(d[f]) = 0
  BY DEF DNSTransferDesc, ++, Described
<1>7. DOMAIN d = {"ZoneTransferRequestsReceived", "ZoneTransferRequestsSent",
        "ZoneTransferResponsesReceived", "ZoneTransferSuccessReceived",
        "ZoneTransferSuccessSent", "ZoneTransferFailures"}
  BY DEF DNSTransferDesc, ++, Described
<1>8. \A i \in 1..13 : DNSTransfers[i].family \in FamiliesOf(DNSTransfers)
  BY <1>1 DEF FamiliesOf
<1>9. \A i \in 1..13 :
        \/ DNSTransfers[i].family \in {"ZoneTransferRequestsReceived",
              "ZoneTransferRequestsSent", "ZoneTransferResponsesReceived",
              "ZoneTransferSuccessSent"} /\ Len(DNSTransfers[i].own) = 1
        \/ DNSTransfers[i].family \in {"ZoneTransferSuccessReceived"}
            /\ Len(DNSTransfers[i].own) = 2
        \/ DNSTransfers[i].family \in {"ZoneTransferFailures"}
            /\ Len(DNSTransfers[i].own) = 0
  BY DEF DNSTransfers, Counter, Sample
<1>10. \A i \in 1..13 : DNSTransfers[i].family \in DOMAIN d
  BY <1>2, <1>7, <1>8
<1> HIDE DEF d
<1>11. ASSUME NEW i \in 1..13
       PROVE 0 + Len(DNSTransfers[i].own) = Len(d[DNSTransfers[i].family])
  <2>1. CASE DNSTransfers[i].family \in {"ZoneTransferRequestsReceived",
            "ZoneTransferRequestsSent", "ZoneTransferResponsesReceived",
            "ZoneTransferSuccessSent"} /\ Len(DNSTransfers[i].own) = 1
    <3>1. Len(d[DNSTransfers[i].family]) = 1
      BY <1>6, <2>1
    <3> QED BY <2>1, <3>1
  <2>2. CASE DNSTransfers[i].family \in {"ZoneTransferSuccessReceived"}
          /\ Len(DNSTransfers[i].own) = 2
    <3>1. Len(d[DNSTransfers[i].family]) = 2
      BY <1>6, <2>2
    <3> QED BY <2>2, <3>1
  <2>3. CASE DNSTransfers[i].family \in {"ZoneTransferFailures"}
          /\ Len(DNSTransfers[i].own) = 0
    <3>1. Len(d[DNSTransfers[i].family]) = 0
      BY <1>6, <2>3
    <3> QED BY <2>3, <3>1
  <2> QED BY <1>9, <2>1, <2>2, <2>3
<1> QED BY <1>1, <1>2, <1>3, <1>4, <1>5, <1>6, <1>7, <1>10, <1>11 DEF Tabled, Fits, d

\* dns.go lines 328-393.
LEMMA DNSMemoryAndUpdatesTable ==
  Tabled(DNSMemoryAndUpdates, DNSUpdateDesc, 0) /\ Apart(DNSMemoryAndUpdates, Doubled)
<1> DEFINE d == DNSUpdateDesc
<1>1. Len(DNSMemoryAndUpdates) = 11 /\ IsList(DNSMemoryAndUpdates)
  BY DEF IsList, DNSMemoryAndUpdates, Gauge, Counter, Sample
<1>2. FamiliesOf(DNSMemoryAndUpdates) = {"MemoryUsedBytes", "DynamicUpdatesReceived",
        "DynamicUpdatesQueued", "DynamicUpdatesFailures"}
  BY <1>1 DEF FamiliesOf, DNSMemoryAndUpdates, Gauge, Counter, Sample
<1>3. Distinct(DNSMemoryAndUpdates)
  BY <1>1 DEF Distinct, DNSMemoryAndUpdates, Gauge, Counter, Sample
<1>4. Apart(DNSMemoryAndUpdates, Doubled)
  BY <1>1 DEF Apart, Doubled, DNSMemoryAndUpdates, Gauge, Counter, Sample
<1>5. \A i \in 1..11 : IsList(DNSMemoryAndUpdates[i].own)
  BY DEF IsList, DNSMemoryAndUpdates, Gauge, Counter, Sample
<1>6. /\ \A f \in {"MemoryUsedBytes", "DynamicUpdatesReceived",
            "DynamicUpdatesFailures"} : Len(d[f]) = 1
      /\ \A f \in {"DynamicUpdatesQueued"} : Len(d[f]) = 0
  BY DEF DNSUpdateDesc, ++, Described
<1>7. DOMAIN d = {"MemoryUsedBytes", "DynamicUpdatesReceived", "DynamicUpdatesQueued",
        "DynamicUpdatesFailures"}
  BY DEF DNSUpdateDesc, ++, Described
<1>8. \A i \in 1..11 : DNSMemoryAndUpdates[i].family \in FamiliesOf(DNSMemoryAndUpdates)
  BY <1>1 DEF FamiliesOf
<1>9. \A i \in 1..11 :
        \/ DNSMemoryAndUpdates[i].family \in {"MemoryUsedBytes", "DynamicUpdatesReceived",
              "DynamicUpdatesFailures"} /\ Len(DNSMemoryAndUpdates[i].own) = 1
        \/ DNSMemoryAndUpdates[i].family \in {"DynamicUpdatesQueued"}
            /\ Len(DNSMemoryAndUpdates[i].own) = 0
  BY DEF DNSMemoryAndUpdates, Gauge, Counter, Sample
<1>10. \A i \in 1..11 : DNSMemoryAndUpdates[i].family \in DOMAIN d
  BY <1>2, <1>7, <1>8
<1> HIDE DEF d
<1>11. ASSUME NEW i \in 1..11
       PROVE 0 + Len(DNSMemoryAndUpdates[i].own) = Len(d[DNSMemoryAndUpdates[i].family])
  <2>1. CASE DNSMemoryAndUpdates[i].family \in {"MemoryUsedBytes",
            "DynamicUpdatesReceived",
            "DynamicUpdatesFailures"} /\ Len(DNSMemoryAndUpdates[i].own) = 1
    <3>1. Len(d[DNSMemoryAndUpdates[i].family]) = 1
      BY <1>6, <2>1
    <3> QED BY <2>1, <3>1
  <2>2. CASE DNSMemoryAndUpdates[i].family \in {"DynamicUpdatesQueued"}
          /\ Len(DNSMemoryAndUpdates[i].own) = 0
    <3>1. Len(d[DNSMemoryAndUpdates[i].family]) = 0
      BY <1>6, <2>2
    <3> QED BY <2>2, <3>1
  <2> QED BY <1>9, <2>1, <2>2
<1> QED BY <1>1, <1>2, <1>3, <1>4, <1>5, <1>6, <1>7, <1>10, <1>11 DEF Tabled, Fits, d

\* dns.go lines 395-489.
LEMMA DNSQueriesTable ==
  Tabled(DNSQueries, DNSQueryDesc, 0) /\ Apart(DNSQueries, Doubled)
<1> DEFINE d == DNSQueryDesc
<1>1. Len(DNSQueries) = 16 /\ IsList(DNSQueries)
  BY SMTT(30) DEF IsList, DNSQueries, Counter, Sample
<1>2. FamiliesOf(DNSQueries) = {"NotifyReceived", "NotifySent", "RecursiveQueries",
        "RecursiveQueryFailures", "RecursiveQuerySendTimeouts", "Queries", "Responses",
        "UnmatchedResponsesReceived", "WinsQueries", "WinsResponses",
        "SecureUpdateFailures", "SecureUpdateReceived"}
  BY <1>1 DEF FamiliesOf, DNSQueries, Counter, Sample
<1>3. Distinct(DNSQueries)
  BY <1>1, SMTT(30) DEF Distinct, DNSQueries, Counter, Sample
<1>4. Apart(DNSQueries, Doubled)
  BY <1>1, SMTT(30) DEF Apart, Doubled, DNSQueries, Counter, Sample
<1>5. \A i \in 1..16 : IsList(DNSQueries[i].own)
  BY SMTT(30) DEF IsList, DNSQueries, Counter, Sample
<1>6. /\ \A f \in {"Queries", "Responses", "WinsQueries", "WinsResponses"} : Len(d[f]) = 1
      /\ \A f \in {"NotifyReceived", "NotifySent", "SecureUpdateFailures",
            "SecureUpdateReceived", "RecursiveQueries", "RecursiveQueryFailures",
            "RecursiveQuerySendTimeouts", "UnmatchedResponsesReceived"} : Len(d[f]) = 0
  BY DEF DNSQueryDesc, ++, Described
<1>7. DOMAIN d = {"NotifyReceived", "NotifySent", "RecursiveQueries",
        "RecursiveQueryFailures", "RecursiveQuerySendTimeouts", "Queries", "Responses",
        "UnmatchedResponsesReceived", "WinsQueries", "WinsResponses",
        "SecureUpdateFailures", "SecureUpdateReceived"}
  BY DEF DNSQueryDesc, ++, Described
<1>8. \A i \in 1..16 : DNSQueries[i].family \in FamiliesOf(DNSQueries)
  BY <1>1 DEF FamiliesOf
<1>9. \A i \in 1..16 :
        \/ DNSQueries[i].family \in {"Queries", "Responses", "WinsQueries",
              "WinsResponses"} /\ Len(DNSQueries[i].own) = 1
        \/ DNSQueries[i].family \in {"NotifyReceived", "NotifySent",
              "SecureUpdateFailures", "SecureUpdateReceived", "RecursiveQueries", "RecursiveQueryFailures",
              "RecursiveQuerySendTimeouts",
              "UnmatchedResponsesReceived"} /\ Len(DNSQueries[i].own) = 0
  BY DEF DNSQueries, Counter, Sample
<1>10. \A i \in 1..16 : DNSQueries[i].family \in DOMAIN d
  BY <1>2, <1>7, <1>8
<1> HIDE DEF d
<1>11. ASSUME NEW i \in 1..16
       PROVE 0 + Len(DNSQueries[i].own) = Len(d[DNSQueries[i].family])
  <2>1. CASE DNSQueries[i].family \in {"Queries", "Responses", "WinsQueries",
            "WinsResponses"} /\ Len(DNSQueries[i].own) = 1
    <3>1. Len(d[DNSQueries[i].family]) = 1
      BY <1>6, <2>1
    <3> QED BY <2>1, <3>1
  <2>2. CASE DNSQueries[i].family \in {"NotifyReceived", "NotifySent",
            "SecureUpdateFailures", "SecureUpdateReceived", "RecursiveQueries",
            "RecursiveQueryFailures", "RecursiveQuerySendTimeouts",
            "UnmatchedResponsesReceived"} /\ Len(DNSQueries[i].own) = 0
    <3>1. Len(d[DNSQueries[i].family]) = 0
      BY <1>6, <2>2
    <3> QED BY <2>2, <3>1
  <2> QED BY <1>9, <2>1, <2>2
<1> QED BY <1>1, <1>2, <1>3, <1>4, <1>5, <1>6, <1>7, <1>10, <1>11 DEF Tabled, Fits, d

\* logical_disk.go lines 170-245.
LEMMA DiskSamplesTable ==
  Tabled(DiskSamples, DiskDesc, 1) /\ Apart(DiskSamples, {})
<1> DEFINE d == DiskDesc
<1>1. Len(DiskSamples) = 11 /\ IsList(DiskSamples)
  BY DEF IsList, DiskSamples, Gauge, Counter, Sample
<1>2. FamiliesOf(DiskSamples) = {"RequestsQueued", "ReadBytesTotal", "ReadsTotal",
        "WriteBytesTotal", "WritesTotal", "ReadTime", "WriteTime", "FreeSpace",
        "TotalSpace", "IdleTime", "SplitIOs"}
  BY <1>1 DEF FamiliesOf, DiskSamples, Gauge, Counter, Sample
<1>3. Distinct(DiskSamples)
  BY <1>1 DEF Distinct, DiskSamples, Gauge, Counter, Sample
<1>4. Apart(DiskSamples, {})
  BY <1>1 DEF Apart, DiskSamples, Gauge, Counter, Sample
<1>5. \A i \in 1..11 : IsList(DiskSamples[i].own)
  BY DEF IsList, DiskSamples, Gauge, Counter, Sample
<1>6. \A f \in {"RequestsQueued", "ReadBytesTotal", "ReadsTotal", "WriteBytesTotal",
            "WritesTotal", "ReadTime", "WriteTime", "FreeSpace", "TotalSpace",
            "IdleTime", "SplitIOs"} : Len(d[f]) = 1
  BY DEF DiskDesc, Described
<1>7. DOMAIN d = {"RequestsQueued", "ReadBytesTotal", "ReadsTotal", "WriteBytesTotal",
        "WritesTotal", "ReadTime", "WriteTime", "FreeSpace", "TotalSpace", "IdleTime",
        "SplitIOs"}
  BY DEF DiskDesc, Described
<1>8. \A i \in 1..11 : DiskSamples[i].family \in FamiliesOf(DiskSamples)
  BY <1>1 DEF FamiliesOf
<1>9. \A i \in 1..11 : Len(DiskSamples[i].own) = 0
  BY DEF DiskSamples, Gauge, Counter, Sample
<1>10. \A i \in 1..11 : DiskSamples[i].family \in DOMAIN d
  BY <1>2, <1>7, <1>8
<1> HIDE DEF d
<1>11. ASSUME NEW i \in 1..11
       PROVE 1 + Len(DiskSamples[i].own) = Len(d[DiskSamples[i].family])
  <2>1. Len(DiskSamples[i].own) = 0
    BY <1>9
  <2>2. Len(d[DiskSamples[i].family]) = 1
    BY <1>6, <1>7, <1>10
  <2> QED BY <2>1, <2>2
<1> QED BY <1>1, <1>2, <1>3, <1>4, <1>5, <1>6, <1>7, <1>10, <1>11 DEF Tabled, Fits, d

\* net.go lines 174-241.
LEMMA NetSamplesTable ==
  Tabled(NetSamples, NetDesc, 1) /\ Apart(NetSamples, {})
<1> DEFINE d == NetDesc
<1>1. Len(NetSamples) = 11 /\ IsList(NetSamples)
  BY DEF IsList, NetSamples, Plain, Sample
<1>2. FamiliesOf(NetSamples) = {"BytesReceivedTotal", "BytesSentTotal", "BytesTotal",
        "PacketsOutboundDiscarded", "PacketsOutboundErrors", "PacketsTotal",
        "PacketsReceivedDiscarded", "PacketsReceivedErrors", "PacketsReceivedTotal",
        "PacketsReceivedUnknown", "PacketsSentTotal"}
  BY <1>1 DEF FamiliesOf, NetSamples, Plain, Sample
<1>3. Distinct(NetSamples)
  BY <1>1 DEF Distinct, NetSamples, Plain, Sample
<1>4. Apart(NetSamples, {})
  BY <1>1 DEF Apart, NetSamples, Plain, Sample
<1>5. \A i \in 1..11 : IsList(NetSamples[i].own)
  BY DEF IsList, NetSamples, Plain, Sample
<1>6. \A f \in {"BytesReceivedTotal", "BytesSentTotal", "BytesTotal",
            "PacketsOutboundDiscarded", "PacketsOutboundErrors", "PacketsTotal",
            "PacketsReceivedDiscarded", "PacketsReceivedErrors",
            "PacketsReceivedTotal", "PacketsReceivedUnknown",
            "PacketsSentTotal"} : Len(d[f]) = 1
  BY DEF NetDesc, Described
<1>7. DOMAIN d = {"BytesReceivedTotal", "BytesSentTotal", "BytesTotal",
        "PacketsOutboundDiscarded", "PacketsOutboundErrors", "PacketsTotal",
        "PacketsReceivedDiscarded", "PacketsReceivedErrors", "PacketsReceivedTotal",
        "PacketsReceivedUnknown", "PacketsSentTotal"}
  BY DEF NetDesc, Described
<1>8. \A i \in 1..11 : NetSamples[i].family \in FamiliesOf(NetSamples)
  BY <1>1 DEF FamiliesOf
<1>9. \A i \in 1..11 : Len(NetSamples[i].own) = 0
  BY DEF NetSamples, Plain, Sample
<1>10. \A i \in 1..11 : NetSamples[i].family \in DOMAIN d
  BY <1>2, <1>7, <1>8
<1> HIDE DEF d
<1>11. ASSUME NEW i \in 1..11
       PROVE 1 + Len(NetSamples[i].own) = Len(d[NetSamples[i].family])
  <2>1. Len(NetSamples[i].own) = 0
    BY <1>9
  <2>2. Len(d[NetSamples[i].family]) = 1
    BY <1>6, <1>7, <1>10
  <2> QED BY <2>1, <2>2
<1> QED BY <1>1, <1>2, <1>3, <1>4, <1>5, <1>6, <1>7, <1>10, <1>11 DEF Tabled, Fits, d

\* os.go lines 128-186.
LEMMA OSSamplesTable ==
  Tabled(OSSamples, OSDesc, 0) /\ Apart(OSSamples, {})
<1> DEFINE d == OSDesc
<1>1. Len(OSSamples) = 10 /\ IsList(OSSamples)
  BY DEF IsList, OSSamples, Plain, Sample
<1>2. FamiliesOf(OSSamples) = {"PhysicalMemoryFreeBytes", "PagingFreeBytes",
        "VirtualMemoryFreeBytes", "ProcessesLimit", "ProcessMemoryLimitBytes",
        "Processes", "Users", "PagingLimitBytes", "VirtualMemoryBytes",
        "VisibleMemoryBytes"}
  BY <1>1 DEF FamiliesOf, OSSamples, Plain, Sample
<1>3. Distinct(OSSamples)
  BY <1>1 DEF Distinct, OSSamples, Plain, Sample
<1>4. Apart(OSSamples, {})
  BY <1>1 DEF Apart, OSSamples, Plain, Sample
<1>5. \A i \in 1..10 : IsList(OSSamples[i].own)
  BY DEF IsList, OSSamples, Plain, Sample
<1>6. \A f \in {"PhysicalMemoryFreeBytes", "PagingFreeBytes", "VirtualMemoryFreeBytes",
            "ProcessesLimit", "ProcessMemoryLimitBytes", "Processes", "Users",
            "PagingLimitBytes", "VirtualMemoryBytes",
            "VisibleMemoryBytes"} : Len(d[f]) = 0
  BY DEF OSDesc, Described
<1>7. DOMAIN d = {"PhysicalMemoryFreeBytes", "PagingFreeBytes",
        "VirtualMemoryFreeBytes", "ProcessesLimit", "ProcessMemoryLimitBytes",
        "Processes", "Users", "PagingLimitBytes", "VirtualMemoryBytes",
        "VisibleMemoryBytes"}
  BY DEF OSDesc, Described
<1>8. \A i \in 1..10 : OSSamples[i].family \in FamiliesOf(OSSamples)
  BY <1>1 DEF FamiliesOf
<1>9. \A i \in 1..10 : Len(OSSamples[i].own) = 0
  BY DEF OSSamples, Plain, Sample
<1>10. \A i \in 1..10 : OSSamples[i].family \in DOMAIN d
  BY <1>2, <1>7, <1>8
<1> HIDE DEF d
<1>11. ASSUME NEW i \in 1..10
       PROVE 0 + Len(OSSamples[i].own) = Len(d[OSSamples[i].family])
  <2>1. Len(OSSamples[i].own) = 0
    BY <1>9
  <2>2. Len(d[OSSamples[i].family]) = 0
    BY <1>6, <1>7, <1>10
  <2> QED BY <2>1, <2>2
<1> QED BY <1>1, <1>2, <1>3, <1>4, <1>5, <1>6, <1>7, <1>10, <1>11 DEF Tabled, Fits, d

\* system.go lines 98-128.
LEMMA SystemSamplesTable ==
  Tabled(SystemSamples, SystemDesc, 0) /\ Apart(SystemSamples, {})
<1> DEFINE d == SystemDesc
<1>1. Len(SystemSamples) = 6 /\ IsList(SystemSamples)
  BY DEF IsList, SystemSamples, Plain, Sample
<1>2. FamiliesOf(SystemSamples) = {"ContextSwitchesTotal", "ExceptionDispatchesTotal",
        "ProcessorQueueLength", "SystemCallsTotal", "SystemUpTime", "Threads"}
  BY <1>1 DEF FamiliesOf, SystemSamples, Plain, Sample
<1>3. Distinct(SystemSamples)
  BY <1>1 DEF Distinct, SystemSamples, Plain, Sample
<1>4. Apart(SystemSamples, {})
  BY <1>1 DEF Apart, SystemSamples, Plain, Sample
<1>5. \A i \in 1..6 : IsList(SystemSamples[i].own)
  BY DEF IsList, SystemSamples, Plain, Sample
<1>6. \A f \in {"ContextSwitchesTotal", "ExceptionDispatchesTotal",
        "ProcessorQueueLength", "SystemCallsTotal", "SystemUpTime", "Threads"} : Len(d[f]) = 0
  BY DEF SystemDesc, Described
<1>7. DOMAIN d = {"ContextSwitchesTotal", "ExceptionDispatchesTotal",
        "ProcessorQueueLength", "SystemCallsTotal", "SystemUpTime", "Threads"}
  BY DEF SystemDesc, Described
<1>8. \A i \in 1..6 : SystemSamples[i].family \in FamiliesOf(SystemSamples)
  BY <1>1 DEF FamiliesOf
<1>9. \A i \in 1..6 : Len(SystemSamples[i].own) = 0
  BY DEF SystemSamples, Plain, Sample
<1>10. \A i \in 1..6 : SystemSamples[i].family \in DOMAIN d
  BY <1>2, <1>7, <1>8
<1> HIDE DEF d
<1>11. ASSUME NEW i \in 1..6
       PROVE 0 + Len(SystemSamples[i].own) = Len(d[SystemSamples[i].family])
  <2>1. Len(SystemSamples[i].own) = 0
    BY <1>9
  <2>2. Len(d[SystemSamples[i].family]) = 0
    BY <1>6, <1>7, <1>10
  <2> QED BY <2>1, <2>2
<1> QED BY <1>1, <1>2, <1>3, <1>4, <1>5, <1>6, <1>7, <1>10, <1>11 DEF Tabled, Fits, d

\* test.go lines 64-135.
LEMMA TestSamplesTable ==
  Tabled(TestSamples, TestDesc, 1) /\ Apart(TestSamples, {})
<1> DEFINE d == TestDesc
<1>1. Len(TestSamples) = 7 /\ IsList(TestSamples)
  BY DEF IsList, TestSamples, Gauge, Sample
<1>2. FamiliesOf(TestSamples) = {"Test1", "Test2", "Test3", "Test4", "Test5", "Test6",
        "Test7"}
  BY <1>1 DEF FamiliesOf, TestSamples, Gauge, Sample
<1>3. Distinct(TestSamples)
  BY <1>1 DEF Distinct, TestSamples, Gauge, Sample
<1>4. Apart(TestSamples, {})
  BY <1>1 DEF Apart, TestSamples, Gauge, Sample
<1>5. \A i \in 1..7 : IsList(TestSamples[i].own)
  BY DEF IsList, TestSamples, Gauge, Sample
<1>6. \A f \in {"Test1", "Test2", "Test3", "Test4", "Test5", "Test6",
            "Test7"} : Len(d[f]) = 2
  BY DEF TestDesc, Described
<1>7. DOMAIN d = {"Test1", "Test2", "Test3", "Test4", "Test5", "Test6", "Test7"}
  BY DEF TestDesc, Described
<1>8. \A i \in 1..7 : TestSamples[i].family \in FamiliesOf(TestSamples)
  BY <1>1 DEF FamiliesOf
<1>9. \A i \in 1..7 : Len(TestSamples[i].own) = 1
  BY DEF TestSamples, Gauge, Sample
<1>10. \A i \in 1..7 : TestSamples[i].family \in DOMAIN d
  BY <1>2, <1>7, <1>8
<1> HIDE DEF d
<1>11. ASSUME NEW i \in 1..7
       PROVE 1 + Len(TestSamples[i].own) = Len(d[TestSamples[i].family])
  <2>1. Len(TestSamples[i].own) = 1
    BY <1>9
  <2>2. Len(d[TestSamples[i].family]) = 2
    BY <1>6, <1>7, <1>10
  <2> QED BY <2>1, <2>2
<1> QED BY <1>1, <1>2, <1>3, <1>4, <1>5, <1>6, <1>7, <1>10, <1>11 DEF Tabled, Fits, d

-----------------------------------------------------------------------------
(* Tables put together: each collector's samples and its descriptors.      *)

\* The fields of a gauge, whatever it shows.
LEMMA GaugeFields ==
  ASSUME NEW f, NEW o, NEW x
  PROVE  /\ Gauge(f, o, x).family = f /\ Gauge(f, o, x).own = o
         /\ Gauge(f, o, x).type = "gauge" /\ Gauge(f, o, x).shows = x
BY DEF Gauge, Sample

\* The list of one element.
LEMMA OneElement == ASSUME NEW x PROVE IsList(<<x>>) /\ Len(<<x>>) = 1 /\ <<x>>[1] = x
BY DEF IsList

\* A list of zeros and a one.
LEMMA OneOfTable ==
  ASSUME NEW family, NEW words, NEW current, NEW names, IsList(words), Len(names) = 2,
         \A i, j \in 1..Len(words) : words[i] = words[j] => i = j, Len(words) # 0
  PROVE  /\ Tabled(OneOf(family, words, current), Described({family}, names), 1)
         /\ Len(OneOf(family, words, current)) = Len(words)
         /\ \A i \in 1..Len(words) :
              OneOf(family, words, current)[i] =
                Gauge(family, <<words[i]>>, Lower(words[i]) = ToLower(current))
<1> DEFINE s == OneOf(family, words, current)
           d == Described({family}, names)
<1>0. Len(words) \in Nat /\ DOMAIN words = 1..Len(words) /\ 1 \in 1..Len(words)
  BY DEF IsList
<1>1. s = [i \in 1..Len(words) |->
             Gauge(family, <<words[i]>>, Lower(words[i]) = ToLower(current))]
  BY <1>0 DEF OneOf
<1>2. \A i \in 1..Len(words) :
        s[i] = Gauge(family, <<words[i]>>, Lower(words[i]) = ToLower(current))
  BY <1>1, Zenon
<1>3. DOMAIN s = 1..Len(words)
  BY <1>1, Zenon
<1>4. s = [i \in 1..Len(words) |-> s[i]]
  BY <1>1, <1>2, Zenon
<1> HIDE DEF s
<1>5. IsList(s) /\ Len(s) = Len(words)
  BY <1>0, <1>3, <1>4 DEF IsList
<1>6. \A i \in 1..Len(words) : s[i].family = family /\ s[i].own = <<words[i]>>
        /\ s[i].type = "gauge"
  <2> TAKE i \in 1..Len(words)
  <2> DEFINE x == Lower(words[i]) = ToLower(current)
  <2>1. s[i] = Gauge(family, <<words[i]>>, x)
    BY <1>2, Zenon
  <2> HIDE DEF x
  <2> QED BY <2>1, GaugeFields
<1>7. FamiliesOf(s) = {family} /\ DOMAIN d = {family} /\ Len(d[family]) = 2
  BY <1>0, <1>5, <1>6 DEF FamiliesOf, Described
<1>8. \A i, j \in 1..Len(words) : s[i].own = s[j].own => i = j
  BY <1>6
<1>9. Distinct(s)
  BY <1>5, <1>6, <1>8 DEF Distinct
<1>10. \A i \in 1..Len(words) : IsList(s[i].own) /\ Len(s[i].own) = 1
  BY <1>6, OneElement
<1>11. Fits(s, d, 1)
  <2> SUFFICES ASSUME NEW i \in 1..Len(words)
               PROVE  /\ s[i].family \in DOMAIN d /\ IsList(s[i].own)
                      /\ 1 + Len(s[i].own) = Len(d[s[i].family])
    BY <1>5 DEF Fits
  <2>1. Len(s[i].own) = 1 /\ Len(d[s[i].family]) = 2
    BY <1>6, <1>7, <1>10
  <2> QED BY <1>6, <1>7, <1>10, <2>1
<1>12. Tabled(s, d, 1)
  BY <1>5, <1>7, <1>9, <1>11 DEF Tabled
<1> QED BY <1>2, <1>5, <1>12 DEF s

\* Two tables of samples with families apart are one table.
LEMMA Joined ==
  ASSUME NEW s, NEW t, NEW d, NEW e, NEW k, Tabled(s, d, k), Tabled(t, e, k),
         DOMAIN d \cap DOMAIN e = {}
  PROVE  Tabled(s \o t, d ++ e, k)
<1> DEFINE u == s \o t
<1>0. /\ IsList(u) /\ Len(u) = Len(s) + Len(t)
      /\ Len(s) \in Nat /\ Len(t) \in Nat
      /\ \A i \in 1..Len(s) : u[i] = s[i]
      /\ \A i \in 1..Len(t) : u[Len(s) + i] = t[i]
      /\ \A i \in 1..Len(u) : \/ i \in 1..Len(s) /\ u[i] = s[i]
                              \/ i - Len(s) \in 1..Len(t) /\ u[i] = t[i - Len(s)]
  BY Concat DEF Tabled, IsList
<1>1. /\ DOMAIN (d ++ e) = DOMAIN d \cup DOMAIN e
      /\ \A f \in DOMAIN d : (d ++ e)[f] = d[f]
      /\ \A f \in DOMAIN e : (d ++ e)[f] = e[f]
  BY DEF ++
<1>2. \A i \in 1..Len(s) : i \in 1..Len(u)
  BY <1>0
<1>3. \A i \in 1..Len(t) : Len(s) + i \in 1..Len(u)
  BY <1>0
<1>4. FamiliesOf(u) = FamiliesOf(s) \cup FamiliesOf(t)
  <2>1. \A f \in FamiliesOf(u) : f \in FamiliesOf(s) \cup FamiliesOf(t)
    BY <1>0 DEF FamiliesOf
  <2>2. \A f \in FamiliesOf(s) : f \in FamiliesOf(u)
    BY <1>0, <1>2 DEF FamiliesOf
  <2>3. \A f \in FamiliesOf(t) : f \in FamiliesOf(u)
    BY <1>0, <1>3 DEF FamiliesOf
  <2> QED BY <2>1, <2>2, <2>3
<1>5. Fits(u, d ++ e, k)
  <2> SUFFICES ASSUME NEW i \in 1..Len(u)
               PROVE  /\ u[i].family \in DOMAIN (d ++ e) /\ IsList(u[i].own)
                      /\ k + Len(u[i].own) = Len((d ++ e)[u[i].family])
    BY DEF Fits
  <2>1. CASE i \in 1..Len(s) /\ u[i] = s[i]
    <3>1. /\ s[i].family \in DOMAIN d /\ IsList(s[i].own)
          /\ k + Len(s[i].own) = Len(d[s[i].family])
      BY <2>1 DEF Tabled, Fits
    <3> QED BY <1>1, <2>1, <3>1
  <2>2. CASE i - Len(s) \in 1..Len(t) /\ u[i] = t[i - Len(s)]
    <3>1. /\ u[i].family \in DOMAIN e /\ IsList(u[i].own)
          /\ k + Len(u[i].own) = Len(e[u[i].family])
      BY <2>2 DEF Tabled, Fits
    <3> QED BY <1>1, <3>1
  <2> QED BY <1>0, <2>1, <2>2
<1>6. \A i \in 1..Len(s), j \in 1..Len(t) : s[i].family # t[j].family
  BY DEF Tabled, FamiliesOf
<1>7. Distinct(u)
  <2> SUFFICES ASSUME NEW i \in 1..Len(u), NEW j \in 1..Len(u), u[i].family = u[j].family
               PROVE  u[i].type = u[j].type /\ (u[i].own = u[j].own => i = j)
    BY DEF Distinct
  <2>1. CASE i \in 1..Len(s) /\ u[i] = s[i] /\ j \in 1..Len(s) /\ u[j] = s[j]
    BY <2>1 DEF Tabled, Distinct
  <2>2. CASE /\ i - Len(s) \in 1..Len(t) /\ u[i] = t[i - Len(s)]
             /\ j - Len(s) \in 1..Len(t) /\ u[j] = t[j - Len(s)]
    <3>1. /\ t[i - Len(s)].type = t[j - Len(s)].type
          /\ t[i - Len(s)].own = t[j - Len(s)].own => i - Len(s) = j - Len(s)
      BY <2>2 DEF Tabled, Distinct
    <3>2. i - Len(s) = j - Len(s) => i = j
      BY <1>0
    <3> QED BY <2>2, <3>1, <3>2
  <2> QED BY <1>0, <1>6, <2>1, <2>2
<1> QED BY <1>0, <1>1, <1>4, <1>5, <1>7 DEF Tabled

\* And its fields are as far apart as theirs.
LEMMA JoinedApart ==
  ASSUME NEW s, NEW t, NEW but, IsList(s), IsList(t), Apart(s, but), Apart(t, but),
         FamiliesOf(s) \cap FamiliesOf(t) = {}
  PROVE  Apart(s \o t, but)
<1> DEFINE u == s \o t
<1>1. \A i \in 1..Len(u) : \/ i \in 1..Len(s) /\ u[i] = s[i]
                           \/ i - Len(s) \in 1..Len(t) /\ u[i] = t[i - Len(s)]
  BY Concat
<1>2. \A i \in 1..Len(s), j \in 1..Len(t) : s[i].family # t[j].family
  BY DEF FamiliesOf
<1> SUFFICES ASSUME NEW i \in 1..Len(u), NEW j \in 1..Len(u),
                    u[i].family = u[j].family, u[i].shows = u[j].shows
             PROVE  u[i].own = u[j].own \/ u[i].shows \in but
  BY DEF Apart
<1>3. CASE i \in 1..Len(s) /\ u[i] = s[i] /\ j \in 1..Len(s) /\ u[j] = s[j]
  BY <1>3 DEF Apart
<1>4. CASE /\ i - Len(s) \in 1..Len(t) /\ u[i] = t[i - Len(s)]
           /\ j - Len(s) \in 1..Len(t) /\ u[j] = t[j - Len(s)]
  BY <1>4 DEF Apart
<1> QED BY <1>1, <1>2, <1>3, <1>4

But(c) == IF c = "dns" THEN Doubled ELSE {}
Prefix(c) == IF c \in Single THEN 0 ELSE 1

\* cpu: the idle states, the times and the counts (cpu.go lines 152-213).
LEMMA CPUTable == Tabled(CPUSamples, CPUDesc, 1) /\ Apart(CPUSamples, {})
<1> DEFINE a == Described({"cstate_seconds_total"}, <<"core", "state">>)
           b == Described({"time_total"}, <<"core", "mode">>)
           c == Described({"interrupts_total", "dpcs_total"}, <<"core">>)
<1>1. DOMAIN a \cap DOMAIN b = {} /\ DOMAIN (a ++ b) \cap DOMAIN c = {}
  BY DEF Described, ++
<1>2. Tabled(CStates, a, 1) /\ Tabled(CPUTimes, b, 1) /\ Tabled(CPUCounts, c, 1)
  BY CStatesTable, CPUTimesTable, CPUCountsTable
<1>3. CPUDesc = (a ++ b) ++ c /\ CPUSamples = (CStates \o CPUTimes) \o CPUCounts
  BY DEF CPUDesc, CPUSamples
<1> HIDE DEF a, b, c
<1>4. Tabled(CStates \o CPUTimes, a ++ b, 1)
  BY <1>1, <1>2, Joined
<1>5. Tabled(CPUSamples, CPUDesc, 1)
  BY <1>1, <1>2, <1>3, <1>4, Joined
<1>6. Apart(CStates \o CPUTimes, {})
  BY <1>1, <1>2, CStatesTable, CPUTimesTable, JoinedApart DEF Tabled
<1>7. Apart(CPUSamples, {})
  BY <1>1, <1>2, <1>3, <1>4, <1>6, CPUCountsTable, JoinedApart DEF Tabled
<1> QED BY <1>5, <1>7

\* tcpu: the samples of cpu and the raw fields (tcpu.go lines 218-341).
LEMMA TCPUTable == Tabled(TCPUSamples, TCPUDesc, 1) /\ Apart(TCPUSamples, {})
<1> DEFINE a == Described({"raw_metrics"}, <<"core", "wminame">>)
<1>1. DOMAIN CPUDesc \cap DOMAIN a = {}
  BY DEF CPUDesc, Described, ++
<1>2. TCPUDesc = CPUDesc ++ a /\ TCPUSamples = CPUSamples \o RawSamples
  BY DEF TCPUDesc, TCPUSamples
<1>3. Tabled(RawSamples, a, 1) /\ Apart(RawSamples, {})
  BY RawSamplesTable
<1> HIDE DEF a
<1>4. Tabled(TCPUSamples, TCPUDesc, 1)
  BY <1>1, <1>2, <1>3, CPUTable, Joined
<1>5. Apart(TCPUSamples, {})
  BY <1>1, <1>2, <1>3, CPUTable, JoinedApart DEF Tabled
<1> QED BY <1>4, <1>5

\* dns: transfers, memory and updates, queries (dns.go lines 242-489).
LEMMA DNSTable == Tabled(DNSSamples, DNSDesc, 0) /\ Apart(DNSSamples, Doubled)
<1>1. DOMAIN DNSTransferDesc \cap DOMAIN DNSUpdateDesc = {}
  BY DEF DNSTransferDesc, DNSUpdateDesc, Described, ++
<1>2. DOMAIN DNSTransferDesc \cap DOMAIN DNSQueryDesc = {}
  BY DEF DNSTransferDesc, DNSQueryDesc, Described, ++
<1>3. DOMAIN DNSUpdateDesc \cap DOMAIN DNSQueryDesc = {}
  BY DEF DNSUpdateDesc, DNSQueryDesc, Described, ++
<1>4. DOMAIN (DNSTransferDesc ++ DNSUpdateDesc) \cap DOMAIN DNSQueryDesc = {}
  BY <1>2, <1>3 DEF ++
<1>5. /\ DNSDesc = (DNSTransferDesc ++ DNSUpdateDesc) ++ DNSQueryDesc
      /\ DNSSamples = (DNSTransfers \o DNSMemoryAndUpdates) \o DNSQueries
  BY DEF DNSDesc, DNSSamples
<1>6. Tabled(DNSTransfers \o DNSMemoryAndUpdates, DNSTransferDesc ++ DNSUpdateDesc, 0)
  BY <1>1, DNSTransfersTable, DNSMemoryAndUpdatesTable, Joined
<1>7. Tabled(DNSSamples, DNSDesc, 0)
  BY <1>4, <1>5, <1>6, DNSQueriesTable, Joined
<1>8. Apart(DNSTransfers \o DNSMemoryAndUpdates, Doubled)
  BY <1>1, DNSTransfersTable, DNSMemoryAndUpdatesTable, JoinedApart DEF Tabled
<1>9. Apart(DNSSamples, Doubled)
  BY <1>4, <1>5, <1>6, <1>8, DNSQueriesTable, JoinedApart DEF Tabled
<1> QED BY <1>7, <1>9

\* The empty list.
LEMMA NoElement == IsList(<<>>) /\ Len(<<>>) = 0
BY DEF IsList

\* One descriptor has as many names as the samples have values.
LEMMA FitsOne ==
  ASSUME NEW s, NEW d, FamiliesOf(s) = DOMAIN d, \A i \in 1..Len(s) : s[i].own = <<>>,
         \A f \in DOMAIN d : Len(d[f]) = 1
  PROVE  Fits(s, d, 1)
<1> SUFFICES ASSUME NEW i \in 1..Len(s)
             PROVE  /\ s[i].family \in DOMAIN d /\ IsList(s[i].own)
                    /\ 1 + Len(s[i].own) = Len(d[s[i].family])
  BY DEF Fits
<1>1. s[i].family \in DOMAIN d
  BY DEF FamiliesOf
<1>2. Len(s[i].own) = 0 /\ Len(d[s[i].family]) = 1 /\ IsList(s[i].own)
  BY <1>1, NoElement
<1> QED BY <1>1, <1>2

\* The same, when the samples are of one of two descriptors.
LEMMA FitsTwo ==
  ASSUME NEW s, NEW d, FamiliesOf(s) = DOMAIN d,
         \A i \in 1..Len(s) : IsList(s[i].own) /\ Len(s[i].own) = 1,
         \A f \in DOMAIN d : Len(d[f]) = 2
  PROVE  Fits(s, d, 1)
<1> SUFFICES ASSUME NEW i \in 1..Len(s)
             PROVE  /\ s[i].family \in DOMAIN d /\ IsList(s[i].own)
                    /\ 1 + Len(s[i].own) = Len(d[s[i].family])
  BY DEF Fits
<1>1. s[i].family \in DOMAIN d
  BY DEF FamiliesOf
<1>2. Len(s[i].own) = 1 /\ Len(d[s[i].family]) = 2 /\ IsList(s[i].own)
  BY <1>1
<1> QED BY <1>1, <1>2

\* service: the states and the start modes (service.go lines 85-113).
LEMMA ServiceTable ==
  ASSUME NEW r
  PROVE  Tabled(ServiceSamples(r), ServiceDesc, 1)
<1> DEFINE a == Described({"State"}, <<"name", "state">>)
           b == Described({"StartMode"}, <<"name", "start_mode">>)
           s == OneOf("State", allStates, r.state)
           t == OneOf("StartMode", allStartModes, r.mode)
<1>1. DOMAIN a \cap DOMAIN b = {}
  BY DEF Described
<1>2. ServiceDesc = a ++ b /\ ServiceSamples(r) = s \o t
  BY DEF ServiceDesc, ServiceSamples
<1>3. /\ IsList(allStates) /\ Len(allStates) # 0
      /\ \A i, j \in 1..Len(allStates) : allStates[i] = allStates[j] => i = j
  <2>1. IsList(allStates) /\ Len(allStates) = 8
    BY DEF allStates, IsList
  <2>2. \A i, j \in 1..8 : allStates[i] = allStates[j] => i = j
    <3>1. /\ allStates[1] # allStates[2] /\ allStates[1] # allStates[3]
          /\ allStates[1] # allStates[4]
          /\ allStates[1] # allStates[5] /\ allStates[1] # allStates[6]
          /\ allStates[1] # allStates[7]
          /\ allStates[1] # allStates[8]
          /\ allStates[2] # allStates[3] /\ allStates[2] # allStates[4]
          /\ allStates[2] # allStates[5]
          /\ allStates[2] # allStates[6] /\ allStates[2] # allStates[7]
          /\ allStates[2] # allStates[8]
          /\ allStates[3] # allStates[4] /\ allStates[3] # allStates[5]
          /\ allStates[3] # allStates[6]
          /\ allStates[3] # allStates[7] /\ allStates[3] # allStates[8]
          /\ allStates[4] # allStates[5] /\ allStates[4] # allStates[6]
          /\ allStates[4] # allStates[7]
          /\ allStates[4] # allStates[8]
          /\ allStates[5] # allStates[6] /\ allStates[5] # allStates[7]
          /\ allStates[5] # allStates[8]
          /\ allStates[6] # allStates[7] /\ allStates[6] # allStates[8]
          /\ allStates[7] # allStates[8]
      BY DEF allStates
    <3> QED BY <3>1
  <2> QED BY <2>1, <2>2
<1>4. IsList(allStartModes) /\ Len(allStartModes) # 0
        /\ \A i, j \in 1..Len(allStartModes) :
             allStartModes[i] = allStartModes[j] => i = j
  BY DEF allStartModes, IsList
<1>5. Len(<<"name", "state">>) = 2 /\ Len(<<"name", "start_mode">>) = 2
  OBVIOUS
<1>6. Tabled(s, a, 1)
  BY <1>3, <1>5, OneOfTable
<1>7. Tabled(t, b, 1)
  BY <1>4, <1>5, OneOfTable
<1> HIDE DEF a, b, s, t
<1> QED BY <1>1, <1>2, <1>6, <1>7, Joined

\* iis: gauges, counters and requests (iis.go lines 262-500).
LEMMA IISTable == Tabled(IISSamples, IISDesc, 1) /\ Apart(IISSamples, {})
<1> DEFINE a == {"CurrentAnonymousUsers", "CurrentBlockedAsyncIORequests",
              "CurrentCGIRequests", "CurrentConnections", "CurrentISAPIExtensionRequests",
              "CurrentNonAnonymousUsers"}
           b == {"TotalBytesReceived", "TotalBytesSent", "TotalAnonymousUsers",
              "TotalBlockedAsyncIORequests", "TotalCGIRequests",
              "TotalConnectionAttemptsAllInstances", "TotalFilesReceived",
              "TotalFilesSent", "TotalISAPIExtensionRequests", "TotalLockedErrors",
              "TotalLogonAttempts", "TotalNonAnonymousUsers", "TotalNotFoundErrors",
              "TotalRejectedAsyncIORequests"}
           d == Described(a, <<"site">>)
           e == Described(b, <<"site">>)
           f == Described({"TotalRequests"}, <<"site", "method">>)
<1>1. IISDesc = (d ++ e) ++ f /\ IISSamples = (IISGauges \o IISCounters) \o IISRequests
  BY DEF IISDesc, IISSamples
<1>2. DOMAIN d = a /\ DOMAIN e = b /\ DOMAIN f = {"TotalRequests"}
  BY DEF Described
<1>3. /\ \A x \in DOMAIN d : Len(d[x]) = 1
      /\ \A x \in DOMAIN e : Len(e[x]) = 1
      /\ \A x \in DOMAIN f : Len(f[x]) = 2
  <2>1. \A x \in DOMAIN d : d[x] = <<"site">>
    BY DEF Described
  <2>2. \A x \in DOMAIN e : e[x] = <<"site">>
    BY DEF Described
  <2>3. \A x \in DOMAIN f : f[x] = <<"site", "method">>
    BY DEF Described
  <2> HIDE DEF d, e, f
  <2> QED BY <2>1, <2>2, <2>3
<1>4. DOMAIN d \cap DOMAIN e = {} /\ DOMAIN (d ++ e) \cap DOMAIN f = {}
  <2>1. a \cap b = {}
    OBVIOUS
  <2>2. "TotalRequests" \notin a \cup b
    OBVIOUS
  <2>3. DOMAIN (d ++ e) = a \cup b
    BY <1>2 DEF ++
  <2> HIDE DEF a, b, d, e, f
  <2> QED BY <1>2, <2>1, <2>2, <2>3
<1> HIDE DEF d, e, f
<1>5. Tabled(IISGauges, d, 1) /\ Apart(IISGauges, {})
  <2>1. Len(IISGauges) = 6 /\ IsList(IISGauges)
    BY DEF IISGauges, SameName, Sample, IsList
  <2>2. FamiliesOf(IISGauges) = a
    BY <2>1 DEF IISGauges, SameName, Sample, FamiliesOf
  <2>3. \A i \in 1..6 : IISGauges[i].own = <<>>
    BY DEF IISGauges, SameName, Sample
  <2>4. \A i, j \in 1..6 : IISGauges[i].family = IISGauges[j].family => i = j
    BY DEF IISGauges, SameName, Sample
  <2> HIDE DEF a, b
  <2>5. Distinct(IISGauges) /\ Apart(IISGauges, {})
    BY <2>1, <2>3, <2>4 DEF Distinct, Apart
  <2>6. Fits(IISGauges, d, 1)
    BY <1>2, <1>3, <2>1, <2>2, <2>3, NoElement, FitsOne
  <2> QED BY <1>2, <2>1, <2>2, <2>5, <2>6 DEF Tabled
<1>6. Tabled(IISCounters, e, 1) /\ Apart(IISCounters, {})
  <2>1. Len(IISCounters) = 14 /\ IsList(IISCounters)
    BY DEF IISCounters, SameName, Sample, IsList
  <2>2. FamiliesOf(IISCounters) = b
    BY <2>1 DEF IISCounters, SameName, Sample, FamiliesOf
  <2>3. \A i \in 1..14 : IISCounters[i].own = <<>>
    BY DEF IISCounters, SameName, Sample
  <2>4. \A i, j \in 1..14 : IISCounters[i].family = IISCounters[j].family => i = j
    BY DEF IISCounters, SameName, Sample
  <2> HIDE DEF a, b
  <2>5. Distinct(IISCounters) /\ Apart(IISCounters, {})
    BY <2>1, <2>3, <2>4 DEF Distinct, Apart
  <2>6. Fits(IISCounters, e, 1)
    BY <1>2, <1>3, <2>1, <2>2, <2>3, NoElement, FitsOne
  <2> QED BY <1>2, <2>1, <2>2, <2>5, <2>6 DEF Tabled
<1>7. Tabled(IISRequests, f, 1) /\ Apart(IISRequests, {})
  <2>1. Len(IISRequests) = 16 /\ IsList(IISRequests)
    BY DEF IISRequests, Methods, Counter, Sample, IsList
  <2>2. \A i \in 1..16 : IISRequests[i].family = "TotalRequests"
          /\ IISRequests[i].type = "counter"
    BY DEF IISRequests, Methods, Counter, Sample
  <2>3. FamiliesOf(IISRequests) = {"TotalRequests"}
    BY <2>1, <2>2 DEF FamiliesOf
  <2>4. \A i, j \in 1..16 : IISRequests[i].own = IISRequests[j].own => i = j
    BY DEF IISRequests, Methods, Counter, Sample
  <2>5. \A i, j \in 1..16 : IISRequests[i].shows = IISRequests[j].shows => i = j
    BY DEF IISRequests, Methods, Counter, Sample
  <2>6. Distinct(IISRequests) /\ Apart(IISRequests, {})
    BY <2>1, <2>2, <2>4, <2>5 DEF Distinct, Apart
  <2>7. \A i \in 1..16 : IsList(IISRequests[i].own) /\ Len(IISRequests[i].own) = 1
    BY DEF IISRequests, Methods, Counter, Sample, IsList
  <2>8. Fits(IISRequests, f, 1)
    BY <1>2, <1>3, <2>1, <2>3, <2>7, FitsTwo
  <2> QED BY <1>2, <2>1, <2>3, <2>6, <2>8 DEF Tabled
<1> HIDE DEF a, b
<1>8. Tabled(IISGauges \o IISCounters, d ++ e, 1)
  BY <1>4, <1>5, <1>6, Joined
<1>9. Tabled(IISSamples, IISDesc, 1)
  BY <1>1, <1>4, <1>7, <1>8, Joined
<1>10. Apart(IISGauges \o IISCounters, {})
  BY <1>4, <1>5, <1>6, JoinedApart DEF Tabled
<1>11. Apart(IISSamples, {})
  BY <1>1, <1>4, <1>7, <1>8, <1>10, JoinedApart DEF Tabled
<1> QED BY <1>9, <1>11

\* The table of every collector is right.
LEMMA TableOf ==
  ASSUME NEW c \in Factories, NEW r
  PROVE  /\ Tabled(SamplesOf(c, r), DescOf(c), Prefix(c))
         /\ c # "service" => Apart(SamplesOf(c, r), But(c))
<1>1. CASE c = "cpu"
  BY <1>1, CPUTable DEF SamplesOf, DescOf, Prefix, But, Single
<1>2. CASE c = "cs"
  BY <1>2, CSSamplesTable DEF SamplesOf, DescOf, Prefix, But, Single
<1>3. CASE c = "dns"
  BY <1>3, DNSTable DEF SamplesOf, DescOf, Prefix, But, Single
<1>4. CASE c = "iis"
  BY <1>4, IISTable DEF SamplesOf, DescOf, Prefix, But, Single
<1>5. CASE c = "logical_disk"
  BY <1>5, DiskSamplesTable DEF SamplesOf, DescOf, Prefix, But, Single
<1>6. CASE c = "net"
  BY <1>6, NetSamplesTable DEF SamplesOf, DescOf, Prefix, But, Single
<1>7. CASE c = "os"
  BY <1>7, OSSamplesTable DEF SamplesOf, DescOf, Prefix, But, Single
<1>8. CASE c = "service"
  BY <1>8, ServiceTable DEF SamplesOf, DescOf, Prefix, But, Single
<1>9. CASE c = "system"
  BY <1>9, SystemSamplesTable DEF SamplesOf, DescOf, Prefix, But, Single
<1>10. CASE c = "tcpu"
  BY <1>10, TCPUTable DEF SamplesOf, DescOf, Prefix, But, Single
<1>11. CASE c = "test"
  BY <1>11, TestSamplesTable DEF SamplesOf, DescOf, Prefix, But, Single
<1>12. \/ c = "cpu" \/ c = "cs" \/ c = "dns" \/ c = "iis" \/ c = "logical_disk"
         \/ c = "net"
       \/ c = "os" \/ c = "service" \/ c = "system" \/ c = "tcpu" \/ c = "test"
  BY DEF Factories, Rowed, Single, Template
<1> QED BY <1>1, <1>2, <1>3, <1>4, <1>5, <1>6, <1>7, <1>8, <1>9, <1>10, <1>11, <1>12

-----------------------------------------------------------------------------
(* Label values begin with those of the row.                               *)

\* Equal concatenations with equal beginnings have equal ends.
LEMMA Concat2 ==
  ASSUME NEW s, NEW t, NEW u, IsList(s), IsList(t), IsList(u), s \o t = s \o u
  PROVE  t = u
<1>1. Len(s) \in Nat /\ Len(t) \in Nat /\ Len(u) \in Nat
  BY DEF IsList
<1>2. Len(s \o t) = Len(s) + Len(t) /\ Len(s \o u) = Len(s) + Len(u)
  BY Concat
<1>3. Len(t) = Len(u)
  BY <1>1, <1>2
<1>4. ASSUME NEW i \in 1..Len(t) PROVE t[i] = u[i]
  <2>1. (s \o t)[Len(s) + i] = t[i]
    BY Concat
  <2>2. (s \o u)[Len(s) + i] = u[i]
    BY <1>3, Concat
  <2> QED BY <2>1, <2>2
<1>5. t = [i \in 1..Len(t) |-> t[i]] /\ u = [i \in 1..Len(u) |-> u[i]]
  BY DEF IsList
<1> QED BY <1>3, <1>4, <1>5

\* A concatenation begins with its first part.
LEMMA Front ==
  ASSUME NEW s, NEW t, IsList(s), IsList(t)
  PROVE  SubSeq(s \o t, 1, Len(s)) = s
<1> DEFINE u == s \o t
<1>1. /\ IsList(u) /\ Len(u) = Len(s) + Len(t)
      /\ \A i \in 1..Len(s) : u[i] = s[i]
  BY Concat
<1>2. Len(s) \in Nat /\ Len(t) \in Nat
  BY DEF IsList
<1> HIDE DEF u
<1> DEFINE S == {u[i] : i \in 1..Len(u)}
<1>3. \A i \in 1..Len(s) : u[i] \in S
  BY <1>1, <1>2
<1>4. u \in Seq(S)
  BY <1>1, SeqOf
<1> HIDE DEF S
<1> DEFINE f == SubSeq(u, 1, Len(s))
<1>5. f \in Seq(S) /\ Len(f) = Len(s) /\ \A i \in 1..Len(s) : f[i] = u[i]
  BY <1>1, <1>2, <1>3, <1>4, SubSeqProperties
<1>6. f = [i \in 1..Len(s) |-> f[i]]
  <2>1. f \in [1..Len(f) -> S]
    BY <1>5, LenProperties
  <2> HIDE DEF f
  <2> QED BY <1>5, <2>1
<1>7. s = [i \in 1..Len(s) |-> s[i]]
  BY DEF IsList
<1> HIDE DEF f
<1>8. f = s
  BY <1>1, <1>5, <1>6, <1>7
<1> QED BY <1>8 DEF f, u

-----------------------------------------------------------------------------
(* The inductive invariant.                                                *)

RowMetric(i, n) == LET x == Samples(dst[i])[n] IN Metric(x, LabelOf(dst[i]) \o x.own)
ExportMetric(n) == Metric(ExportSample(n), <<>>)
Known(i, n)     == Samples(dst[i])[n].family \in DOMAIN Desc
Passed(i, n)    == i < row \/ (i = row /\ n < next)

\* What is configured is a template's.
Configured ==
  IF coll \in Template THEN conf \in Exports ELSE conf = Unconfigured

\* Where the run is.
Placed ==
  /\ pc = "query" => /\ dst = <<>> /\ row = 1 /\ next = 1 /\ seen = {} /\ ~refused
                     /\ result = "none"
  /\ pc = "rows" => /\ dst \in Results(coll)
                    /\ row > Len(dst) \/ Skips(dst[row]) => next = 1
  /\ pc = "exports" => row > Len(dst) /\ coll \in Template
  /\ result = "success" => row > Len(dst) /\ next > Len(conf.names)
  /\ pc = "returned" => result = "success" \/ dst = <<>>

SeenFrom ==
  \A m \in seen :
    \/ \E i \in Kept : \E n \in 1..Len(Samples(dst[i])) :
         Passed(i, n) /\ Known(i, n) /\ m = RowMetric(i, n)
    \/ \E n \in DOMAIN conf.names : row > Len(dst) /\ n < next /\ m = ExportMetric(n)

SeenAll ==
  /\ \A i \in Kept : \A n \in 1..Len(Samples(dst[i])) : Passed(i, n) /\ Known(i, n) =>
       \E m \in seen : m.family = RowMetric(i, n).family
           /\ m.labels = RowMetric(i, n).labels
  /\ \A n \in DOMAIN conf.names : row > Len(dst) /\ n < next =>
       \E m \in seen : m.family = conf.names[n]

\* Of two rows with one label the second one has been refused.
Collided ==
  \A i, j \in Kept : /\ i < j /\ Begun(j) /\ LabelOf(dst[i]) = LabelOf(dst[j]) => refused

IInv == TypeOK /\ Configured /\ Placed /\ SeenFrom /\ SeenAll /\ Collided /\ DiesOnlyKnown

-----------------------------------------------------------------------------
(* What it says of rows, descriptors and samples.                          *)

\* The rows of a query: a sequence, each of a name of its own.
LEMMA RowsOfQuery ==
  ASSUME NEW c, NEW q, q = <<>> \/ q \in Results(c)
  PROVE  /\ Len(q) \in Nat /\ DOMAIN q = 1..Len(q)
         /\ \A i \in 1..Len(q) : q[i] \in RowsOf(c)
         /\ \A i, j \in 1..Len(q) : q[i].name = q[j].name => i = j
<1>1. CASE q = <<>>
  BY <1>1
<1>2. CASE q \in Results(c)
  <2>1. PICK n \in 0..MaxRows : q \in [1..n -> RowsOf(c)]
    BY <1>2 DEF Results
  <2>2. \A i, j \in DOMAIN q : q[i].name = q[j].name => i = j
    BY <1>2 DEF Results
  <2>3. n \in Nat
    BY NamesAssumption
  <2>4. q \in Seq(RowsOf(c)) /\ Len(q) = n
    BY <2>1, <2>3, SeqDef
  <2> QED BY <2>1, <2>2, <2>3, <2>4
<1> QED BY <1>1, <1>2

\* The export names are a sequence.
LEMMA ConfNames ==
  ASSUME Configured
  PROVE  Len(conf.names) \in Nat /\ DOMAIN conf.names = 1..Len(conf.names)
<1>1. CASE coll \in Template
  <2>1. conf.names \in Seq(STRING)
    BY <1>1, ExportsAssumption DEF Configured
  <2> QED BY <2>1, LenProperties
<1>2. CASE coll \notin Template
  <2>1. conf.names = <<>>
    BY <1>2 DEF Configured, Unconfigured
  <2> QED BY <2>1
<1> QED BY <1>1, <1>2

\* A descriptor is the constructor's or, without labels, that of an export.
LEMMA DescIs ==
  ASSUME Configured
  PROVE  /\ Exported \subseteq DOMAIN Desc
         /\ \A f \in Exported : Desc[f] = <<>>
         /\ \A f \in DOMAIN Desc \ Exported :
              f \in DOMAIN DescOf(coll) /\ Desc[f] = DescOf(coll)[f]
         /\ coll \notin Template => Exported = {} /\ Desc = DescOf(coll)
<1>1. CASE coll \notin Template
  <2>1. conf.names = <<>>
    BY <1>1 DEF Configured, Unconfigured
  <2>2. Exported = {}
    BY <2>1 DEF Exported
  <2> QED BY <1>1, <2>2 DEF Desc
<1>2. CASE coll \in Template
  <2> DEFINE d == IF conf.drop THEN <<>> ELSE DescOf(coll)
             e == Described(Exported, <<>>)
  <2>1. Desc = e ++ d
    BY <1>2 DEF Desc
  <2>2. DOMAIN e = Exported /\ \A f \in Exported : e[f] = <<>>
    BY DEF Described
  <2>3. DOMAIN <<>> = {}
    OBVIOUS
  <2>4. \A f \in DOMAIN d : f \in DOMAIN DescOf(coll) /\ d[f] = DescOf(coll)[f]
    BY <2>3
  <2> HIDE DEF d, e
  <2>5. DOMAIN Desc = Exported \cup DOMAIN d
    BY <2>1, <2>2 DEF ++
  <2>6. \A f \in DOMAIN Desc : Desc[f] = IF f \in Exported THEN e[f] ELSE d[f]
    BY <2>1, <2>2 DEF ++
  <2> QED BY <1>2, <2>2, <2>4, <2>5, <2>6
<1> QED BY <1>1, <1>2

\* The row's label is one value, and none under a collector of one row.
LEMMA LabelLength ==
  ASSUME NEW r
  PROVE  IsList(LabelOf(r)) /\ Len(LabelOf(r)) = Prefix(coll)
BY OneElement, NoElement DEF LabelOf, Prefix

\* What a sample needs to be sent.
LEMMA SampleOf ==
  ASSUME coll \in Factories, NEW r, NEW n \in 1..Len(Samples(r))
  PROVE  /\ Samples(r)[n].family \in DOMAIN DescOf(coll) /\ IsList(Samples(r)[n].own)
         /\ Len(LabelOf(r) \o Samples(r)[n].own) = Len(DescOf(coll)[Samples(r)[n].family])
<1> DEFINE x == Samples(r)[n]
<1>1. Tabled(Samples(r), DescOf(coll), Prefix(coll))
  BY TableOf DEF Samples
<1>2. /\ x.family \in DOMAIN DescOf(coll) /\ IsList(x.own)
      /\ Prefix(coll) + Len(x.own) = Len(DescOf(coll)[x.family])
  BY <1>1 DEF Tabled, Fits
<1> HIDE DEF x
<1>3. Len(LabelOf(r) \o x.own) = Prefix(coll) + Len(x.own)
  BY <1>2, LabelLength, Concat
<1>4. Len(LabelOf(r) \o x.own) = Len(DescOf(coll)[x.family])
  BY <1>2, <1>3
<1> QED BY <1>2, <1>4 DEF x

\* No collector is without samples.
LEMMA DescsNotEmpty == \A c \in Factories : DOMAIN DescOf(c) # {}
<1> SUFFICES ASSUME NEW c \in Factories PROVE DOMAIN DescOf(c) # {}
  OBVIOUS
<1>0. \A f, g : DOMAIN f # {} => DOMAIN (f ++ g) # {}
  BY DEF ++
<1>1. \A x, names : DOMAIN Described({x}, names) # {}
  BY DEF Described
<1>2. DOMAIN CPUDesc # {}
  BY <1>0, <1>1 DEF CPUDesc
<1>3. DOMAIN TCPUDesc # {}
  BY <1>0, <1>2 DEF TCPUDesc
<1>4. DOMAIN DNSTransferDesc # {}
  BY DEF DNSTransferDesc, Described, ++
<1>5. DOMAIN DNSDesc # {}
  BY <1>0, <1>4 DEF DNSDesc
<1>6. DOMAIN IISDesc # {}
  BY <1>0 DEF IISDesc, Described
<1>7. DOMAIN CSDesc # {} /\ DOMAIN OSDesc # {} /\ DOMAIN SystemDesc # {}
  BY DEF CSDesc, OSDesc, SystemDesc, Described
<1>8. DOMAIN DiskDesc # {} /\ DOMAIN NetDesc # {} /\ DOMAIN TestDesc # {}
  BY DEF DiskDesc, NetDesc, TestDesc, Described
<1>9. DOMAIN ServiceDesc # {}
  BY <1>0, <1>1 DEF ServiceDesc
<1>10. \/ c = "cpu" \/ c = "cs" \/ c = "dns" \/ c = "iis" \/ c = "logical_disk"
         \/ c = "net"
       \/ c = "os" \/ c = "service" \/ c = "system" \/ c = "tcpu" \/ c = "test"
  BY DEF Factories, Rowed, Single, Template
<1> QED
  BY <1>2, <1>3, <1>5, <1>6, <1>7, <1>8, <1>9, <1>10 DEF DescOf

\* The samples of a service: eight states, then five start modes.
LEMMA ServiceList ==
  ASSUME NEW r
  PROVE  /\ Len(ServiceSamples(r)) = 13
         /\ \A n \in 1..8 : ServiceSamples(r)[n] =
              Gauge("State", <<allStates[n]>>, Lower(allStates[n]) = ToLower(r.state))
         /\ \A n \in 1..5 : ServiceSamples(r)[8 + n] =
              Gauge("StartMode", <<allStartModes[n]>>,
                    Lower(allStartModes[n]) = ToLower(r.mode))
<1> DEFINE s == OneOf("State", allStates, r.state)
           t == OneOf("StartMode", allStartModes, r.mode)
<1>1. IsList(allStates) /\ Len(allStates) = 8
  BY DEF allStates, IsList
<1>2. IsList(allStartModes) /\ Len(allStartModes) = 5
  BY DEF allStartModes, IsList
<1>3. DOMAIN allStates = 1..8 /\ DOMAIN allStartModes = 1..5
  BY <1>1, <1>2 DEF IsList
<1>4. s = [i \in 1..8 |->
             Gauge("State", <<allStates[i]>>, Lower(allStates[i]) = ToLower(r.state))]
  BY <1>3, Zenon DEF OneOf
<1>5. t = [i \in 1..5 |-> Gauge("StartMode", <<allStartModes[i]>>,
                                Lower(allStartModes[i]) = ToLower(r.mode))]
  BY <1>3, Zenon DEF OneOf
<1>6. \A n \in 1..8 : s[n] =
        Gauge("State", <<allStates[n]>>, Lower(allStates[n]) = ToLower(r.state))
  BY <1>4, Zenon
<1>7. \A n \in 1..5 : t[n] = Gauge("StartMode", <<allStartModes[n]>>,
                                   Lower(allStartModes[n]) = ToLower(r.mode))
  BY <1>5, Zenon
<1>8. DOMAIN s = 1..8 /\ s = [i \in 1..8 |-> s[i]]
  BY <1>4, Zenon
<1>9. DOMAIN t = 1..5 /\ t = [i \in 1..5 |-> t[i]]
  BY <1>5, Zenon
<1>10. ServiceSamples(r) = s \o t
  BY DEF ServiceSamples
<1> HIDE DEF s, t
<1>11. IsList(s) /\ Len(s) = 8
  BY <1>8 DEF IsList
<1>12. IsList(t) /\ Len(t) = 5
  BY <1>9 DEF IsList
<1>18. /\ Len(s \o t) = Len(s) + Len(t)
       /\ \A i \in 1..Len(s) : (s \o t)[i] = s[i]
       /\ \A i \in 1..Len(t) : (s \o t)[Len(s) + i] = t[i]
  <2>1. IsList(s) /\ IsList(t)
    BY <1>11, <1>12
  <2> QED BY <2>1, Concat
<1>13. Len(s \o t) = 13 /\ \A n \in 1..8 : (s \o t)[n] = s[n]
  <2>1. Len(s) = 8 /\ Len(t) = 5
    BY <1>11, <1>12
  <2> QED BY <1>18, <2>1
<1>14. \A n \in 1..5 : (s \o t)[8 + n] = t[n]
  <2>1. Len(s) = 8 /\ Len(t) = 5
    BY <1>11, <1>12
  <2> QED BY <1>18, <2>1
<1>15. \A n \in 1..8 : ServiceSamples(r)[n] = s[n]
  BY <1>10, <1>13
<1>16. \A n \in 1..5 : ServiceSamples(r)[8 + n] = t[n]
  BY <1>10, <1>14
<1>17. Len(ServiceSamples(r)) = 13
  BY <1>10, <1>13
<1> QED BY <1>6, <1>7, <1>15, <1>16, <1>17, Zenon

\* Two services differ in what their samples show, and in nothing else.
LEMMA ServiceAlike ==
  ASSUME NEW q, NEW r, NEW n \in 1..13
  PROVE  /\ ServiceSamples(q)[n].family = ServiceSamples(r)[n].family
         /\ ServiceSamples(q)[n].own = ServiceSamples(r)[n].own
         /\ ServiceSamples(q)[n].type = ServiceSamples(r)[n].type
<1>1. CASE n \in 1..8
  <2> DEFINE x == Lower(allStates[n]) = ToLower(q.state)
             y == Lower(allStates[n]) = ToLower(r.state)
  <2>1. ServiceSamples(q)[n] = Gauge("State", <<allStates[n]>>, x)
    BY <1>1, ServiceList, Zenon
  <2>2. ServiceSamples(r)[n] = Gauge("State", <<allStates[n]>>, y)
    BY <1>1, ServiceList, Zenon
  <2> HIDE DEF x, y
  <2> QED BY <2>1, <2>2, GaugeFields
<1>2. CASE n \notin 1..8
  <2>0. n - 8 \in 1..5 /\ 8 + (n - 8) = n
    BY <1>2
  <2> DEFINE m == n - 8
             x == Lower(allStartModes[m]) = ToLower(q.mode)
             y == Lower(allStartModes[m]) = ToLower(r.mode)
  <2>1. ServiceSamples(q)[8 + m] = Gauge("StartMode", <<allStartModes[m]>>, x)
    BY <2>0, ServiceList, Zenon
  <2>2. ServiceSamples(r)[8 + m] = Gauge("StartMode", <<allStartModes[m]>>, y)
    BY <2>0, ServiceList, Zenon
  <2>3. 8 + m = n
    BY <2>0
  <2> HIDE DEF x, y, m
  <2> QED BY <2>1, <2>2, <2>3, GaugeFields
<1> QED BY <1>1, <1>2

\* Two rows have the same samples but for what service shows in them.
LEMMA SameTable ==
  ASSUME NEW c \in Factories, NEW q, NEW r
  PROVE  /\ Len(SamplesOf(c, q)) \in Nat \ {0}
         /\ Len(SamplesOf(c, r)) = Len(SamplesOf(c, q))
         /\ \A n \in 1..Len(SamplesOf(c, q)) :
              /\ SamplesOf(c, q)[n].family = SamplesOf(c, r)[n].family
              /\ SamplesOf(c, q)[n].own = SamplesOf(c, r)[n].own
              /\ SamplesOf(c, q)[n].type = SamplesOf(c, r)[n].type
         /\ c # "service" => SamplesOf(c, q) = SamplesOf(c, r)
<1>1. Len(SamplesOf(c, q)) \in Nat /\ FamiliesOf(SamplesOf(c, q)) = DOMAIN DescOf(c)
  BY TableOf DEF Tabled, IsList
<1>2. PICK f : f \in FamiliesOf(SamplesOf(c, q))
  BY <1>1, DescsNotEmpty
<1>3. PICK p \in 1..Len(SamplesOf(c, q)) : f = SamplesOf(c, q)[p].family
  BY <1>2 DEF FamiliesOf
<1>4. Len(SamplesOf(c, q)) # 0
  BY <1>1, <1>3
<1>5. CASE c = "service"
  <2>1. \A x : SamplesOf(c, x) = ServiceSamples(x)
    BY <1>5 DEF SamplesOf
  <2>2. Len(ServiceSamples(q)) = 13 /\ Len(ServiceSamples(r)) = 13
    BY ServiceList
  <2>3. SamplesOf(c, q) = ServiceSamples(q) /\ SamplesOf(c, r) = ServiceSamples(r)
    BY <2>1
  <2>4. Len(SamplesOf(c, q)) = 13 /\ Len(SamplesOf(c, r)) = 13
    BY <2>2, <2>3
  <2>5. \A n \in 1..13 :
          /\ SamplesOf(c, q)[n].family = SamplesOf(c, r)[n].family
          /\ SamplesOf(c, q)[n].own = SamplesOf(c, r)[n].own
          /\ SamplesOf(c, q)[n].type = SamplesOf(c, r)[n].type
    <3>1. \A n \in 1..13 :
            /\ ServiceSamples(q)[n].family = ServiceSamples(r)[n].family
            /\ ServiceSamples(q)[n].own = ServiceSamples(r)[n].own
            /\ ServiceSamples(q)[n].type = ServiceSamples(r)[n].type
      BY ServiceAlike
    <3> QED BY <2>3, <3>1
  <2>6. Len(SamplesOf(c, q)) \in Nat \ {0}
    BY <2>4
  <2>7. 1..Len(SamplesOf(c, q)) = 1..13 /\ Len(SamplesOf(c, r)) = Len(SamplesOf(c, q))
    BY <2>4
  <2> QED BY <1>5, <2>5, <2>6, <2>7, Zenon
<1>6. CASE c # "service"
  <2>1. SamplesOf(c, q) = SamplesOf(c, r)
    BY <1>6 DEF SamplesOf
  <2> QED BY <1>1, <1>4, <2>1
<1> QED BY <1>5, <1>6

\* The rows kept are rows of the query.
LEMMA KeptRange ==
  ASSUME TypeOK
  PROVE  /\ Len(dst) \in Nat /\ DOMAIN dst = 1..Len(dst)
         /\ Kept \subseteq 1..Len(dst) /\ \A i \in Kept : ~Skips(dst[i])
         /\ \A i \in 1..Len(dst) : dst[i] \in RowsOf(coll)
         /\ \A i, j \in 1..Len(dst) : dst[i].name = dst[j].name => i = j
<1>1. dst = <<>> \/ dst \in Results(coll)
  BY DEF TypeOK
<1>2. /\ Len(dst) \in Nat /\ DOMAIN dst = 1..Len(dst)
      /\ \A i \in 1..Len(dst) : dst[i] \in RowsOf(coll)
      /\ \A i, j \in 1..Len(dst) : dst[i].name = dst[j].name => i = j
  BY <1>1, RowsOfQuery
<1> QED BY <1>2 DEF Kept

\* Two rows of a template have different labels.
LEMMA TemplateRowsApart ==
  ASSUME TypeOK, coll \in Template \/ coll = "service",
         NEW i \in Kept, NEW j \in Kept, LabelOf(dst[i]) = LabelOf(dst[j])
  PROVE  i = j
<1>1. coll \notin Single /\ coll # "net"
  BY DEF Template, Single
<1>2. <<dst[i].name>> = <<dst[j].name>>
  BY <1>1 DEF LabelOf
<1>3. dst[i].name = dst[j].name
  BY <1>2, OneElement
<1> QED BY <1>3, KeptRange

\* The fields of the metric that a sample becomes.
LEMMA LabelsOfMetric ==
  ASSUME NEW i, NEW n
  PROVE  /\ RowMetric(i, n).family = Samples(dst[i])[n].family
         /\ RowMetric(i, n).labels = LabelOf(dst[i]) \o Samples(dst[i])[n].own
         /\ RowMetric(i, n).type = Samples(dst[i])[n].type
         /\ RowMetric(i, n).shows = Samples(dst[i])[n].shows
<1> DEFINE x == Samples(dst[i])[n]
           y == LabelOf(dst[i]) \o x.own
<1>1. RowMetric(i, n) = Metric(x, y)
  BY Zenon DEF RowMetric
<1> DEFINE f == x.family
           t == x.type
           s == x.shows
<1>2. RowMetric(i, n) = [family |-> f, labels |-> y, type |-> t, shows |-> s]
  BY <1>1, Zenon DEF Metric
<1> HIDE DEF y, f, t, s
<1>3. /\ RowMetric(i, n).family = f /\ RowMetric(i, n).labels = y
      /\ RowMetric(i, n).type = t /\ RowMetric(i, n).shows = s
  BY <1>2
<1> QED BY <1>3, Zenon DEF f, t, s, y

\* Rows with one label are alike.
LEMMA AlikeRows ==
  ASSUME coll \in Factories, NEW q, NEW r
  PROVE  /\ Len(Samples(q)) \in Nat \ {0} /\ Len(Samples(r)) = Len(Samples(q))
         /\ \A n \in 1..Len(Samples(q)) :
              /\ Samples(q)[n].family = Samples(r)[n].family
              /\ Samples(q)[n].own = Samples(r)[n].own
              /\ Samples(q)[n].type = Samples(r)[n].type
         /\ coll # "service" => Samples(q) = Samples(r)
<1>1. Samples(q) = SamplesOf(coll, q) /\ Samples(r) = SamplesOf(coll, r)
  BY DEF Samples
<1> QED BY <1>1, SameTable

\* A family has one type, in the samples of all rows.
LEMMA OneTypeEach ==
  ASSUME coll \in Factories, NEW q, NEW r,
         NEW n \in 1..Len(Samples(q)), NEW k \in 1..Len(Samples(r)),
         Samples(q)[n].family = Samples(r)[k].family
  PROVE  Samples(q)[n].type = Samples(r)[k].type
<1>1. Tabled(Samples(q), DescOf(coll), Prefix(coll))
  BY TableOf DEF Samples
<1>2. k \in 1..Len(Samples(q))
  BY AlikeRows
<1>3. Samples(r)[k].family = Samples(q)[k].family
        /\ Samples(r)[k].type = Samples(q)[k].type
  BY <1>2, AlikeRows
<1> QED BY <1>1, <1>2, <1>3 DEF Tabled, Distinct

\* Sample n of row q and sample k of row r have one family and the same labels.
SameSample(q, n, r, k) ==
  /\ Samples(q)[n].family = Samples(r)[k].family
  /\ LabelOf(q) \o Samples(q)[n].own = LabelOf(r) \o Samples(r)[k].own

\* Label values tell the row's label and the sample.
LEMMA SameLabels ==
  ASSUME coll \in Factories, NEW q, NEW r,
         NEW n \in 1..Len(Samples(q)), NEW k \in 1..Len(Samples(r)),
         SameSample(q, n, r, k)
  PROVE  LabelOf(q) = LabelOf(r) /\ n = k
<1>0. /\ Samples(q)[n].family = Samples(r)[k].family
      /\ LabelOf(q) \o Samples(q)[n].own = LabelOf(r) \o Samples(r)[k].own
  BY DEF SameSample
<1>1. Tabled(Samples(q), DescOf(coll), Prefix(coll))
  BY TableOf DEF Samples
<1>2. k \in 1..Len(Samples(q))
  BY AlikeRows
<1>3. Samples(r)[k].family = Samples(q)[k].family /\ Samples(r)[k].own = Samples(q)[k].own
  BY <1>2, AlikeRows
<1>4. IsList(Samples(q)[n].own) /\ IsList(Samples(r)[k].own)
  BY SampleOf
<1>5. /\ IsList(LabelOf(q)) /\ IsList(LabelOf(r))
      /\ Len(LabelOf(q)) = Prefix(coll) /\ Len(LabelOf(r)) = Prefix(coll)
  BY LabelLength
<1>6. SubSeq(LabelOf(q) \o Samples(q)[n].own, 1, Len(LabelOf(q))) = LabelOf(q)
  BY <1>4, <1>5, Front
<1>7. SubSeq(LabelOf(r) \o Samples(r)[k].own, 1, Len(LabelOf(r))) = LabelOf(r)
  BY <1>4, <1>5, Front
<1>8. LabelOf(q) = LabelOf(r)
  BY <1>0, <1>5, <1>6, <1>7
<1>9. Samples(q)[n].own = Samples(r)[k].own
  BY <1>0, <1>4, <1>5, <1>8, Concat2
<1> QED BY <1>0, <1>1, <1>2, <1>3, <1>8, <1>9 DEF Tabled, Distinct

\* What coll, conf and dst settle.
LEMMA Frame ==
  ASSUME UNCHANGED <<coll, conf, dst>>
  PROVE  /\ Exported' = Exported /\ Desc' = Desc /\ Kept' = Kept
         /\ \A i : LabelOf(dst[i])' = LabelOf(dst[i])
         /\ \A i : Samples(dst[i])' = Samples(dst[i])
         /\ \A i : Skips(dst[i])' <=> Skips(dst[i])
         /\ \A i, n : RowMetric(i, n)' = RowMetric(i, n)
         /\ \A i, n : Known(i, n)' <=> Known(i, n)
         /\ \A n : ExportMetric(n)' = ExportMetric(n)
         /\ Results(coll)' = Results(coll)
<1>1. Exported' = Exported
  BY DEF Exported
<1>2. Desc' = Desc
  BY <1>1 DEF Desc
<1>3. \A i : Skips(dst[i])' <=> Skips(dst[i])
  BY DEF Skips
<1>4. \A i : LabelOf(dst[i])' = LabelOf(dst[i])
  BY DEF LabelOf
<1>5. \A i : Samples(dst[i])' = Samples(dst[i])
  BY DEF Samples
<1>6. Kept' = Kept
  BY DEF Kept, Skips
<1>7. \A i, n : RowMetric(i, n)' = RowMetric(i, n)
  BY DEF RowMetric, Samples, LabelOf
<1>8. \A i, n : Known(i, n)' <=> Known(i, n)
  BY <1>2 DEF Known, Samples
<1>9. \A n : ExportMetric(n)' = ExportMetric(n)
  BY DEF ExportMetric, ExportSample, Sample, Metric
<1>10. Results(coll)' = Results(coll)
  OBVIOUS
<1> QED BY <1>1, <1>2, <1>3, <1>4, <1>5, <1>6, <1>7, <1>8, <1>9, <1>10

-----------------------------------------------------------------------------
(* The steps.                                                              *)

\* The initial states satisfy the invariant.
LEMMA Start == Init => IInv
<1> SUFFICES ASSUME Init PROVE IInv
  OBVIOUS
<1>1. /\ pc = "query" /\ dst = <<>> /\ row = 1 /\ next = 1 /\ seen = {} /\ refused = FALSE
      /\ result = "none" /\ coll \in Factories
      /\ coll \in Template => conf \in Exports
      /\ coll \notin Template => conf = Unconfigured
  BY DEF Init
<1>2. Len(dst) = 0 /\ DOMAIN dst = {}
  BY <1>1
<1>3. TypeOK
  <2>1. row \in 1..Len(dst) + 1 /\ next \in Nat \ {0}
    BY <1>1, <1>2
  <2>2. refused \in BOOLEAN /\ result \in {"none", "success", "error"}
    BY <1>1
  <2>3. pc \in {"query", "rows", "exports", "returned", "dead"}
    BY <1>1
  <2> QED BY <1>1, <2>1, <2>2, <2>3 DEF TypeOK
<1>4. Configured /\ Placed /\ DiesOnlyKnown
  BY <1>1 DEF Configured, Placed, DiesOnlyKnown
<1>5. Kept = {}
  BY <1>2 DEF Kept
<1>6. Collided /\ SeenFrom
  BY <1>1, <1>5 DEF Collided, SeenFrom
<1>7. Len(conf.names) \in Nat /\ DOMAIN conf.names = 1..Len(conf.names)
  BY <1>4, ConfNames
<1>8. SeenAll
  BY <1>1, <1>5, <1>7 DEF SeenAll
<1> QED BY <1>3, <1>4, <1>6, <1>8 DEF IInv

\* A step that leaves the samples alone.
LEMMA Quiet ==
  ASSUME IInv, UNCHANGED <<coll, conf, dst, row, next, seen, refused>>
  PROVE  /\ Configured' /\ SeenFrom' /\ SeenAll' /\ Collided'
         /\ /\ pc' \in {"query", "rows", "exports", "returned", "dead"}
            /\ result' \in {"none", "success", "error"}
            => TypeOK'
<1>1. Configured'
  BY DEF IInv, Configured
<1>2. \A i, n : Passed(i, n)' <=> Passed(i, n)
  BY DEF Passed
<1>3. \A i : Begun(i)' <=> Begun(i)
  BY DEF Begun
<1>4. SeenFrom'
  BY Frame, <1>2 DEF IInv, SeenFrom
<1>5. SeenAll'
  BY Frame, <1>2 DEF IInv, SeenAll
<1>6. Collided'
  BY Frame, <1>3 DEF IInv, Collided
<1>7. ASSUME pc' \in {"query", "rows", "exports", "returned", "dead"},
             result' \in {"none", "success", "error"}
      PROVE  TypeOK'
  BY <1>7, Frame DEF IInv, TypeOK
<1> QED BY <1>1, <1>4, <1>5, <1>6, <1>7

\* A return, well or with an error, preserves the invariant.
LEMMA AfterFinish ==
  ASSUME IInv, NEW outcome \in {"success", "error"}, Finish(outcome),
         outcome = "success" => row > Len(dst) /\ next > Len(conf.names),
         outcome = "error" => dst = <<>>
  PROVE  IInv'
<1>1. /\ pc' = "returned" /\ result' = outcome
      /\ UNCHANGED <<coll, conf, dst, row, next, seen, refused>>
  BY DEF Finish
<1>2. Placed' /\ DiesOnlyKnown'
  BY <1>1 DEF Placed, DiesOnlyKnown
<1> QED BY <1>1, <1>2, Quiet DEF IInv

\* So does a panic for one of the three reasons known.
LEMMA AfterDie ==
  ASSUME IInv, Die, pc \in {"query", "rows", "exports"},
         \/ coll \in Single /\ dst = <<>>
         \/ coll \in Template /\ dst = <<>> /\ conf.names # <<>>
         \/ coll \in Template /\ \E f \in Exported : f \in DOMAIN DescOf(coll)
  PROVE  IInv'
<1>1. pc' = "dead" /\ UNCHANGED <<coll, conf, dst, row, next, seen, refused, result>>
  BY DEF Die
<1>2. DiesOnlyKnown'
  BY <1>1, Frame DEF DiesOnlyKnown
<1>3. Placed'
  BY <1>1 DEF Placed, IInv
<1>4. result' \in {"none", "success", "error"}
  BY <1>1 DEF IInv, TypeOK
<1> QED BY <1>1, <1>2, <1>3, <1>4, Quiet DEF IInv

\* A query that fails: a return for most, a panic for templates with exports.
LEMMA StepQueryFails == ASSUME IInv, QueryFails PROVE IInv'
<1>1. pc = "query" /\ dst = <<>> /\ row = 1 /\ next = 1
  BY DEF QueryFails, IInv, Placed
<1>2. CASE coll \notin Template /\ Finish("error")
  BY <1>1, <1>2, AfterFinish
<1>3. CASE conf.names = <<>> /\ Finish("success")
  <2>1. Len(dst) = 0 /\ Len(conf.names) = 0
    BY <1>1, <1>3
  <2> QED BY <1>1, <1>3, <2>1, AfterFinish
<1>4. CASE coll \in Template /\ conf.names # <<>> /\ Die
  BY <1>1, <1>4, AfterDie
<1> QED BY <1>2, <1>3, <1>4 DEF QueryFails

\* The rows of a query, none of them begun.
LEMMA StepQueryReturns == ASSUME IInv, QueryReturns PROVE IInv'
<1>1. /\ pc = "query" /\ row = 1 /\ next = 1 /\ seen = {} /\ ~refused /\ result = "none"
      /\ coll \in Factories
  BY DEF QueryReturns, IInv, Placed, TypeOK
<1>2. /\ pc' = "rows" /\ dst' \in Results(coll')
      /\ UNCHANGED <<coll, conf, row, next, seen, refused, result>>
  BY DEF QueryReturns
<1>3. Configured' /\ DiesOnlyKnown'
  BY <1>2 DEF IInv, Configured, DiesOnlyKnown
<1>4. Len(dst') \in Nat
  BY <1>2, RowsOfQuery
<1>5. TypeOK'
  <2>1. row' \in 1..Len(dst') + 1 /\ next' \in Nat \ {0}
    BY <1>1, <1>2, <1>4
  <2>2. refused' \in BOOLEAN
    BY <1>2 DEF IInv, TypeOK
  <2>6. result' \in {"none", "success", "error"}
    BY <1>1, <1>2
  <2>3. pc' \in {"query", "rows", "exports", "returned", "dead"}
    BY <1>2
  <2>4. coll' \in Factories /\ (coll' \in Template => conf' \in Exports)
    BY <1>1, <1>2, <1>3 DEF Configured
  <2>5. seen' = {}
    BY <1>1, <1>2
  <2> QED BY <1>2, <2>1, <2>2, <2>3, <2>4, <2>5, <2>6 DEF TypeOK
<1>6. Placed'
  BY <1>1, <1>2 DEF Placed
<1>7. Kept' \subseteq 1..Len(dst')
  <2>1. DOMAIN (dst') = 1..Len(dst')
    BY <1>2, RowsOfQuery
  <2> QED BY <2>1 DEF Kept
<1>8. SeenFrom'
  BY <1>1, <1>2 DEF SeenFrom
<1>9. Len((conf.names)') \in Nat /\ DOMAIN (conf.names)' = 1..Len((conf.names)')
  BY <1>2, ConfNames DEF IInv
<1>10. SeenAll'
  <2>1. ASSUME NEW i \in Kept', NEW n \in (1..Len(Samples(dst[i])))'
        PROVE  ~Passed(i, n)'
    <3>1. i \in Nat \ {0} /\ i >= 1 /\ n >= 1
      BY <1>4, <1>7
    <3> QED BY <1>1, <1>2, <3>1 DEF Passed
  <2>2. ASSUME NEW n \in (DOMAIN conf.names)'
        PROVE  ~(n < next')
    BY <1>1, <1>2, <1>9
  <2> QED BY <2>1, <2>2 DEF SeenAll
<1>11. Collided'
  <2>1. ASSUME NEW i \in Kept' PROVE ~Begun(i)'
    <3>1. i \in Nat /\ i >= 1
      BY <1>4, <1>7
    <3> QED BY <1>1, <1>2, <3>1 DEF Begun
  <2> QED BY <2>1 DEF Collided
<1> QED BY <1>3, <1>5, <1>6, <1>8, <1>10, <1>11 DEF IInv

\* dst[0] of no rows.
LEMMA StepNoFirstRow == ASSUME IInv, NoFirstRow PROVE IInv'
BY AfterDie DEF NoFirstRow

\* After the rows: a return, or the exports.
LEMMA StepRowsEnd == ASSUME IInv, RowsEnd PROVE IInv'
<1>1. pc = "rows" /\ row > Len(dst) /\ next = 1
  BY DEF RowsEnd, IInv, Placed
<1>2. CASE coll \notin Template /\ Finish("success")
  <2>1. Len(conf.names) = 0
    BY <1>2 DEF IInv, Configured, Unconfigured
  <2> QED BY <1>1, <1>2, <2>1, AfterFinish
<1>3. CASE /\ coll \in Template /\ pc' = "exports"
           /\ UNCHANGED <<coll, conf, dst, row, next, seen, refused, result>>
  <2>1. Placed' /\ DiesOnlyKnown'
    BY <1>1, <1>3 DEF Placed, DiesOnlyKnown, IInv
  <2>2. result' \in {"none", "success", "error"}
    BY <1>3 DEF IInv, TypeOK
  <2> QED BY <1>3, <2>1, <2>2, Quiet DEF IInv
<1> QED BY <1>2, <1>3 DEF RowsEnd

\* After the exports: a return.
LEMMA StepExportsEnd == ASSUME IInv, ExportsEnd PROVE IInv'
<1>1. row > Len(dst) /\ next > Len(conf.names) /\ Finish("success")
  BY DEF ExportsEnd, IInv, Placed
<1> QED BY <1>1, AfterFinish

\* Stuttering.
LEMMA StepRest == ASSUME IInv, UNCHANGED vars PROVE IInv'
<1>1. UNCHANGED <<coll, conf, pc, dst, row, next, seen, refused, result>>
  BY DEF vars
<1>2. Placed' /\ DiesOnlyKnown'
  BY <1>1, Frame DEF IInv, Placed, DiesOnlyKnown
<1>3. /\ pc' \in {"query", "rows", "exports", "returned", "dead"}
      /\ result' \in {"none", "success", "error"}
  BY <1>1 DEF IInv, TypeOK
<1> QED BY <1>1, <1>2, <1>3, Quiet DEF IInv

\* What a collector's run knows of itself.
LEMMA Facts ==
  ASSUME IInv
  PROVE  /\ TypeOK /\ Configured /\ coll \in Factories
         /\ row \in Nat \ {0} /\ next \in Nat \ {0} /\ row <= Len(dst) + 1
         /\ Len(conf.names) \in Nat /\ DOMAIN conf.names = 1..Len(conf.names)
<1>1. TypeOK /\ Configured
  BY DEF IInv
<1>2. coll \in Factories /\ row \in 1..Len(dst) + 1 /\ next \in Nat \ {0}
  BY <1>1 DEF TypeOK
<1>3. Len(dst) \in Nat
  BY <1>1, KeptRange
<1> QED BY <1>1, <1>2, <1>3, ConfNames

\* A row that the filter drops.
LEMMA StepSkip == ASSUME IInv, Skip PROVE IInv'
<1>1. /\ pc = "rows" /\ row <= Len(dst) /\ Skips(dst[row]) /\ row' = row + 1
      /\ UNCHANGED <<coll, conf, pc, dst, next, seen, refused, result>>
  BY DEF Skip
<1>2. next = 1 /\ row \notin Kept
  BY <1>1 DEF IInv, Placed, Kept
<1>3. /\ Len(dst) \in Nat /\ row \in Nat \ {0} /\ Kept \subseteq 1..Len(dst)
      /\ DOMAIN conf.names = 1..Len(conf.names)
  BY Facts, KeptRange
<1>4. TypeOK'
  <2>1. row' \in 1..Len(dst') + 1
    BY <1>1, <1>3
  <2> QED BY <1>1, <2>1, Frame DEF IInv, TypeOK
<1>5. Configured' /\ DiesOnlyKnown'
  BY <1>1 DEF IInv, Configured, DiesOnlyKnown
<1>6. Placed'
  BY <1>1, <1>2, <1>3 DEF IInv, Placed
<1>7. ASSUME NEW i \in Kept, NEW n \in Nat \ {0}
      PROVE  Passed(i, n)' <=> Passed(i, n)
  <2>1. i \in Nat /\ i # row
    BY <1>2, <1>3
  <2> QED BY <1>1, <1>2, <1>3, <2>1 DEF Passed
<1>8. ASSUME NEW n \in DOMAIN conf.names PROVE ~(n < next)
  BY <1>2, <1>3
<1>9. \A i \in Kept : \A n \in 1..Len(Samples(dst[i])) : Passed(i, n)' <=> Passed(i, n)
  BY <1>7
<1>10. SeenFrom'
  BY <1>1, <1>8, <1>9, Frame DEF IInv, SeenFrom
<1>11. SeenAll'
  BY <1>1, <1>8, <1>9, Frame DEF IInv, SeenAll
<1>12. Collided'
  <2>1. ASSUME NEW i \in Kept PROVE Begun(i)' => Begun(i)
    <3>1. i \in Nat /\ i # row
      BY <1>2, <1>3
    <3> QED BY <1>1, <1>2, <1>3, <3>1 DEF Begun
  <2> QED BY <1>1, <2>1, Frame DEF IInv, Collided
<1> QED BY <1>4, <1>5, <1>6, <1>10, <1>11, <1>12 DEF IInv

\* The last sample of a row is sent, and the next row begins.
LEMMA StepNextRow == ASSUME IInv, NextRow PROVE IInv'
<1>1. /\ pc = "rows" /\ row <= Len(dst) /\ ~Skips(dst[row]) /\ row' = row + 1 /\ next' = 1
      /\ next > Len(Samples(dst[row]))
      /\ UNCHANGED <<coll, conf, pc, dst, seen, refused, result>>
  BY DEF NextRow
<1>2. Len(Samples(dst[row])) \in Nat \ {0}
  BY Facts, AlikeRows
<1>3. /\ Len(dst) \in Nat /\ row \in Nat \ {0} /\ Kept \subseteq 1..Len(dst)
      /\ next \in Nat \ {0} /\ DOMAIN conf.names = 1..Len(conf.names)
  BY Facts, KeptRange
<1>4. TypeOK'
  <2>1. row' \in 1..Len(dst') + 1 /\ next' \in Nat \ {0}
    BY <1>1, <1>3
  <2> QED BY <1>1, <2>1, Frame DEF IInv, TypeOK
<1>5. Configured' /\ DiesOnlyKnown'
  BY <1>1 DEF IInv, Configured, DiesOnlyKnown
<1>6. Placed'
  BY <1>1, <1>2, <1>3 DEF IInv, Placed
<1>7. ASSUME NEW i \in Kept, NEW n \in 1..Len(Samples(dst[i]))
      PROVE  Passed(i, n)' <=> Passed(i, n)
  <2>1. i \in Nat /\ n \in Nat \ {0}
    BY <1>3
  <2>2. CASE i = row
    BY <1>1, <1>2, <1>3, <2>1, <2>2 DEF Passed
  <2>3. CASE i # row
    BY <1>1, <1>3, <2>1, <2>3 DEF Passed
  <2> QED BY <2>2, <2>3
<1>8. ASSUME NEW n \in DOMAIN conf.names PROVE ~(n < next') /\ ~(row > Len(dst))
  BY <1>1, <1>3
<1>10. SeenFrom'
  BY <1>1, <1>7, <1>8, Frame DEF IInv, SeenFrom
<1>11. SeenAll'
  BY <1>1, <1>7, <1>8, Frame DEF IInv, SeenAll
<1>12. Collided'
  <2>1. ASSUME NEW i \in Kept PROVE Begun(i)' => Begun(i)
    <3>1. i \in Nat
      BY <1>3
    <3> QED BY <1>1, <1>2, <1>3, <3>1 DEF Begun
  <2> QED BY <1>1, <2>1, Frame DEF IInv, Collided
<1> QED BY <1>4, <1>5, <1>6, <1>10, <1>11, <1>12 DEF IInv

-----------------------------------------------------------------------------
(* A step past one sample of a row.                                        *)

\* What is known of the sample that comes next.
AtSample ==
  /\ pc = "rows" /\ row <= Len(dst) /\ ~Skips(dst[row])
  /\ next <= Len(Samples(dst[row]))

\* A step past one sample of a row.
Past ==
  /\ next' = next + 1 /\ UNCHANGED <<coll, conf, pc, dst, row, result>>
  /\ refused' \in BOOLEAN /\ (refused => refused')
  /\ \/ seen' = seen
     \/ /\ seen' = seen \cup {RowMetric(row, next)} /\ Known(row, next)
        /\ Len(RowMetric(row, next).labels) = Len(Desc[RowMetric(row, next).family])
  /\ Known(row, next) =>
       \E m \in seen' : m.family = RowMetric(row, next).family
           /\ m.labels = RowMetric(row, next).labels
  /\ \A i \in Kept : i < row /\ next = 1 /\ LabelOf(dst[i]) = LabelOf(dst[row]) =>
       refused'

\* A step past a sample preserves the invariant.
LEMMA AfterPast == ASSUME IInv, AtSample, Past PROVE IInv'
<1>1. /\ pc = "rows" /\ row <= Len(dst) /\ ~Skips(dst[row])
      /\ next <= Len(Samples(dst[row]))
  BY DEF AtSample
<1>2. next' = next + 1 /\ UNCHANGED <<coll, conf, pc, dst, row, result>>
  BY DEF Past
<1>3. /\ Len(dst) \in Nat /\ row \in Nat \ {0} /\ Kept \subseteq 1..Len(dst)
      /\ next \in Nat \ {0} /\ DOMAIN conf.names = 1..Len(conf.names)
      /\ DOMAIN dst = 1..Len(dst)
  BY Facts, KeptRange
<1>4. row \in Kept
  BY <1>1, <1>3 DEF Kept
<1>5. Len(Samples(dst[row])) \in Nat \ {0} /\ next \in 1..Len(Samples(dst[row]))
  <2>1. Len(Samples(dst[row])) \in Nat \ {0}
    BY Facts, AlikeRows
  <2> QED BY <1>1, <1>3, <2>1
<1>6. TypeOK'
  <2>1. next' \in Nat \ {0}
    BY <1>2, <1>3
  <2>2. refused' \in BOOLEAN
    BY DEF Past
  <2>3. ASSUME NEW m \in seen'
        PROVE  m.family \in DOMAIN Desc /\ Len(m.labels) = Len(Desc[m.family])
    <3>1. CASE m \in seen
      BY <3>1 DEF IInv, TypeOK
    <3>2. CASE m = RowMetric(row, next) /\ m \notin seen
      BY <3>2, LabelsOfMetric DEF Past, Known
    <3> QED BY <3>1, <3>2 DEF Past
  <2>4. /\ coll \in Factories /\ (coll \in Template => conf \in Exports)
        /\ dst = <<>> \/ dst \in Results(coll)
        /\ row \in 1..Len(dst) + 1 /\ result \in {"none", "success", "error"}
        /\ pc \in {"query", "rows", "exports", "returned", "dead"}
    BY DEF IInv, TypeOK
  <2> QED BY <1>2, <2>1, <2>2, <2>3, <2>4, Frame DEF TypeOK
<1>7. Configured' /\ DiesOnlyKnown'
  BY <1>1, <1>2 DEF IInv, Configured, DiesOnlyKnown
<1>8. Placed'
  BY <1>1, <1>2, <1>3, Frame DEF IInv, Placed
<1>10. ASSUME NEW i \in Kept, NEW n \in 1..Len(Samples(dst[i]))
       PROVE  /\ Passed(i, n) => Passed(i, n)'
              /\ Passed(i, n)' => Passed(i, n) \/ (i = row /\ n = next)
  <2>1. n \in Nat
    BY <1>3
  <2> QED BY <1>2, <1>3, <2>1 DEF Passed
<1>11. SeenFrom'
  <2> SUFFICES ASSUME NEW m \in seen'
               PROVE  \E i \in Kept : \E n \in 1..Len(Samples(dst[i])) :
                        Passed(i, n)' /\ Known(i, n) /\ m = RowMetric(i, n)
    BY <1>2, Frame DEF SeenFrom
  <2>1. CASE m \in seen
    <3>1. PICK i \in Kept : \E n \in 1..Len(Samples(dst[i])) :
            Passed(i, n) /\ Known(i, n) /\ m = RowMetric(i, n)
      BY <1>1, <1>3, <2>1 DEF IInv, SeenFrom
    <3> QED BY <1>10, <3>1
  <2>2. CASE m \notin seen
    <3>1. m = RowMetric(row, next) /\ Known(row, next)
      BY <2>2 DEF Past
    <3>2. \A i, n : i = row /\ n = next => Passed(i, n)'
      BY <1>2, <1>3 DEF Passed
    <3> QED BY <1>4, <1>5, <3>1, <3>2
  <2> QED BY <2>1, <2>2
<1>12. SeenAll'
  <2>0. seen \subseteq seen'
    BY DEF Past
  <2>1. ASSUME NEW i \in Kept, NEW n \in 1..Len(Samples(dst[i])), Passed(i, n)',
               Known(i, n)
        PROVE  \E m \in seen' : m.family = RowMetric(i, n).family
               /\ m.labels = RowMetric(i, n).labels
    <3>1. CASE Passed(i, n)
      BY <2>0, <2>1, <3>1 DEF IInv, SeenAll
    <3>2. CASE i = row /\ n = next
      BY <2>1, <3>2 DEF Past
    <3> QED BY <1>10, <2>1, <3>1, <3>2
  <2>2. ~(row' > Len(dst'))
    BY <1>1, <1>2, <1>3
  <2> QED BY <1>2, <2>1, <2>2, Frame DEF SeenAll
<1>13. Collided'
  <2> SUFFICES ASSUME NEW i \in Kept, NEW j \in Kept, i < j, Begun(j)',
                      LabelOf(dst[i]) = LabelOf(dst[j])
               PROVE  refused'
    BY <1>2, Frame DEF Collided
  <2>1. CASE Begun(j)
    BY <2>1 DEF IInv, Collided, Past
  <2>2. CASE ~Begun(j)
    <3>1. j = row /\ next = 1
      BY <1>2, <1>3, <2>2 DEF Begun
    <3> QED BY <3>1 DEF Past
  <2> QED BY <2>1, <2>2
<1> QED BY <1>6, <1>7, <1>8, <1>11, <1>12, <1>13 DEF IInv

\* No row before a template's current row has its label.
LEMMA TemplatesNeverCollide ==
  ASSUME IInv, coll \in Template, row \in Kept
  PROVE  \A i \in Kept : i < row => LabelOf(dst[i]) # LabelOf(dst[row])
<1> SUFFICES ASSUME NEW i \in Kept, i < row, LabelOf(dst[i]) = LabelOf(dst[row])
             PROVE FALSE
  OBVIOUS
<1>1. i = row
  BY Facts, TemplateRowsApart
<1> QED BY <1>1, Facts, KeptRange

\* Only a template has a family without a descriptor.
LEMMA KnownOf ==
  ASSUME IInv, NEW i, NEW n \in 1..Len(Samples(dst[i])), coll \notin Template
  PROVE  Known(i, n)
<1>1. Desc = DescOf(coll)
  BY DescIs, Facts
<1> QED BY <1>1, SampleOf, Facts DEF Known

\* A sample without a descriptor is passed over, and nothing is refused.
LEMMA PassedOver ==
  ASSUME IInv, PassOver
  PROVE  AtSample /\ Past /\ refused' = refused
<1>1. /\ pc = "rows" /\ row <= Len(dst) /\ ~Skips(dst[row])
      /\ next <= Len(Samples(dst[row]))
      /\ ~Known(row, next)
      /\ next' = next + 1
      /\ UNCHANGED <<coll, conf, pc, dst, row, seen, refused, result>>
  BY DEF PassOver, Known
<1>2. row \in Kept /\ next \in 1..Len(Samples(dst[row]))
  <2>1. /\ Len(dst) \in Nat /\ row \in Nat \ {0} /\ DOMAIN dst = 1..Len(dst)
        /\ next \in Nat \ {0} /\ Len(Samples(dst[row])) \in Nat
    BY Facts, KeptRange, AlikeRows
  <2> QED BY <1>1, <2>1 DEF Kept
<1>3. coll \in Template
  BY <1>1, <1>2, KnownOf
<1>4. Past
  BY <1>1, <1>2, <1>3, TemplatesNeverCollide DEF Past, IInv, TypeOK
<1>5. AtSample
  BY <1>1 DEF AtSample
<1> QED BY <1>1, <1>4, <1>5

\* Hence the step preserves the invariant.
LEMMA StepPassOver == ASSUME IInv, PassOver PROVE IInv'
BY PassedOver, AfterPast

\* A sample is sent and taken, or refused for the label values of one before; a
\* panic needs an export of the sample's family.
LEMMA SampleSent ==
  ASSUME IInv, SendSample
  PROVE  \/ /\ Die /\ pc = "rows" /\ row <= Len(dst) /\ coll \in Template
            /\ \E f \in Exported : f \in DOMAIN DescOf(coll)
         \/ /\ AtSample /\ Past
            /\ refused' => \/ refused
                           \/ \E old \in seen :
                                /\ old.family = RowMetric(row, next).family
                                /\ old.labels = RowMetric(row, next).labels
<1> DEFINE x == Samples(dst[row])[next]
           m == RowMetric(row, next)
<1>1. /\ pc = "rows" /\ row <= Len(dst) /\ ~Skips(dst[row])
      /\ next <= Len(Samples(dst[row]))
      /\ Known(row, next) /\ x.family \in DOMAIN Desc
      /\ Send(x, LabelOf(dst[row]) \o x.own)
  BY DEF SendSample, Known
<1>2. row \in Kept /\ next \in 1..Len(Samples(dst[row])) /\ Len(dst) \in Nat
  <2>1. /\ Len(dst) \in Nat /\ row \in Nat \ {0} /\ DOMAIN dst = 1..Len(dst)
        /\ next \in Nat \ {0} /\ Len(Samples(dst[row])) \in Nat
    BY Facts, KeptRange, AlikeRows
  <2> QED BY <1>1, <2>1 DEF Kept
<1>3. m = Metric(x, LabelOf(dst[row]) \o x.own)
  BY Zenon DEF RowMetric
<1>4. /\ m.family = x.family /\ m.labels = LabelOf(dst[row]) \o x.own
      /\ m.type = x.type
  BY LabelsOfMetric
<1> HIDE DEF m
<1>5. CASE Len(LabelOf(dst[row]) \o x.own) # Len(Desc[x.family]) /\ Die
  <2>1. /\ x.family \in DOMAIN DescOf(coll)
        /\ Len(LabelOf(dst[row]) \o x.own) = Len(DescOf(coll)[x.family])
    BY <1>2, Facts, SampleOf
  <2>2. x.family \in Exported /\ coll \in Template
    <3>1. x.family \notin Exported => Desc[x.family] = DescOf(coll)[x.family]
      BY <1>1, DescIs, Facts
    <3>2. x.family \in Exported
      BY <1>5, <2>1, <3>1
    <3> QED BY <3>2, DescIs, Facts
  <2> HIDE DEF x
  <2> QED BY <1>1, <1>5, <2>1, <2>2
<1>6. CASE /\ Len(LabelOf(dst[row]) \o x.own) = Len(Desc[x.family])
           /\ refused' = (refused \/ Refuses(m))
           /\ seen' = IF Refuses(m) THEN seen ELSE seen \cup {m}
           /\ next' = next + 1
           /\ UNCHANGED <<coll, conf, pc, dst, row, result>>
  <2> HIDE DEF x
  <2>1. refused' \in BOOLEAN /\ (refused => refused')
    <3>1. refused \in BOOLEAN
      BY DEF IInv, TypeOK
    <3> QED BY <1>6, <3>1 DEF Refuses
  <2>2. ASSUME NEW old \in seen, old.family = m.family
        PROVE  old.type = m.type
    <3>1. PICK i \in Kept : \E n \in 1..Len(Samples(dst[i])) : old = RowMetric(i, n)
      BY <1>1, <1>2, KeptRange, Facts DEF IInv, SeenFrom
    <3>2. PICK n \in 1..Len(Samples(dst[i])) : old = RowMetric(i, n)
      BY <3>1
    <3>3. old.family = Samples(dst[i])[n].family /\ old.type = Samples(dst[i])[n].type
      BY <3>2, LabelsOfMetric
    <3>4. Samples(dst[i])[n].family = Samples(dst[row])[next].family
      BY <1>4, <2>2, <3>3 DEF x
    <3>5. Samples(dst[i])[n].type = Samples(dst[row])[next].type
      BY <1>2, <3>4, Facts, OneTypeEach
    <3> QED BY <1>4, <3>3, <3>5 DEF x
  <2>3. Refuses(m) <=> \E old \in seen : old.family = m.family /\ old.labels = m.labels
    BY <2>2 DEF Refuses
  <2>4. \/ seen' = seen
        \/ /\ seen' = seen \cup {m} /\ Known(row, next)
           /\ Len(m.labels) = Len(Desc[m.family])
    BY <1>1, <1>4, <1>6
  <2>5. \E y \in seen' : y.family = m.family /\ y.labels = m.labels
    BY <1>6, <2>3
  <2>6. ASSUME NEW i \in Kept, i < row, next = 1, LabelOf(dst[i]) = LabelOf(dst[row])
        PROVE  refused'
    <3>1. coll \notin Template
      BY <1>2, <2>6, TemplatesNeverCollide
    <3>2. 1 \in 1..Len(Samples(dst[i])) /\ Known(i, 1)
      <4>1. Len(Samples(dst[i])) \in Nat \ {0}
        BY Facts, AlikeRows
      <4>2. 1 \in 1..Len(Samples(dst[i]))
        BY <4>1
      <4> QED BY <3>1, <4>2, KnownOf
    <3>3. Passed(i, 1)
      BY <2>6 DEF Passed
    <3>4. PICK y \in seen :
            y.family = RowMetric(i, 1).family /\ y.labels = RowMetric(i, 1).labels
      BY <3>2, <3>3 DEF IInv, SeenAll
    <3>5. y.family = Samples(dst[i])[1].family
            /\ y.labels = LabelOf(dst[i]) \o Samples(dst[i])[1].own
      <4>1. \A n : /\ RowMetric(i, n).family = Samples(dst[i])[n].family
                   /\ RowMetric(i, n).labels = LabelOf(dst[i]) \o Samples(dst[i])[n].own
        BY LabelsOfMetric
      <4> QED BY <3>4, <4>1, Zenon
    <3>6. Samples(dst[i])[1].family = x.family /\ Samples(dst[i])[1].own = x.own
      BY <2>6, <3>2, Facts, AlikeRows DEF x
    <3>7. y.family = m.family /\ y.labels = m.labels
      BY <1>4, <2>6, <3>5, <3>6
    <3> QED BY <1>6, <2>3, <3>7
  <2>7. Past
    BY <1>1, <1>6, <2>1, <2>4, <2>5, <2>6 DEF Past, m
  <2>8. AtSample
    BY <1>1 DEF AtSample
  <2>9. refused' => refused \/ \E old \in seen : old.family = m.family
          /\ old.labels = m.labels
    BY <1>6, <2>3
  <2> QED BY <2>7, <2>8, <2>9 DEF m
<1>7. \/ Len(LabelOf(dst[row]) \o x.own) # Len(Desc[x.family]) /\ Die
      \/ /\ Len(LabelOf(dst[row]) \o x.own) = Len(Desc[x.family])
         /\ refused' = (refused \/ Refuses(m))
         /\ seen' = IF Refuses(m) THEN seen ELSE seen \cup {m}
         /\ next' = next + 1
         /\ UNCHANGED <<coll, conf, pc, dst, row, result>>
  <2> HIDE DEF x
  <2> QED BY <1>1, <1>3, Zenon DEF Send
<1> QED BY <1>5, <1>6, <1>7

\* Either way the invariant is preserved.
LEMMA StepSendSample == ASSUME IInv, SendSample PROVE IInv'
BY SampleSent, AfterDie, AfterPast

\* An export's sample has no label values.
LEMMA ExportFields ==
  ASSUME NEW n
  PROVE  /\ ExportMetric(n).family = conf.names[n] /\ ExportMetric(n).labels = <<>>
         /\ ExportMetric(n).shows = "computed" /\ ExportSample(n).family = conf.names[n]
BY DEF ExportMetric, ExportSample, Metric, Sample

\* A sample of a row is never in a family that an export describes.
LEMMA SeenExport ==
  ASSUME IInv, coll \in Template, NEW old \in seen, old.family \in Exported
  PROVE  \E n \in DOMAIN conf.names : row > Len(dst) /\ n < next /\ old = ExportMetric(n)
<1> SUFFICES ASSUME NEW i \in Kept, NEW n \in 1..Len(Samples(dst[i])),
                    old = RowMetric(i, n)
             PROVE  FALSE
  BY DEF IInv, SeenFrom
<1>1. Len(old.labels) = 0
  <2>1. Len(old.labels) = Len(Desc[old.family])
    BY DEF IInv, TypeOK
  <2>2. Desc[old.family] = <<>>
    BY DescIs, Facts
  <2> QED BY <2>1, <2>2, NoElement
<1>2. old.labels = LabelOf(dst[i]) \o Samples(dst[i])[n].own
  BY LabelsOfMetric
<1>3. IsList(LabelOf(dst[i])) /\ Len(LabelOf(dst[i])) = 1
  <2>1. Prefix(coll) = 1
    BY DEF Prefix, Single, Template
  <2> QED BY <2>1, LabelLength
<1>4. IsList(Samples(dst[i])[n].own) /\ Len(Samples(dst[i])[n].own) \in Nat
  BY SampleOf, Facts DEF IsList
<1>5. Len(old.labels) = Len(LabelOf(dst[i])) + Len(Samples(dst[i])[n].own)
  <2> DEFINE s == LabelOf(dst[i])
             t == Samples(dst[i])[n].own
  <2>1. IsList(s) /\ IsList(t) /\ old.labels = s \o t
    BY <1>2, <1>3, <1>4
  <2> HIDE DEF s, t
  <2>2. Len(old.labels) = Len(s) + Len(t)
    BY <2>1, Concat
  <2> QED BY <2>2 DEF s, t
<1> QED BY <1>1, <1>3, <1>4, <1>5

\* An export's sample is sent, and never without its label values.
LEMMA ExportSent ==
  ASSUME IInv, SendExport
  PROVE  LET m == ExportMetric(next)
         IN  /\ pc = "exports" /\ next <= Len(conf.names) /\ row > Len(dst)
             /\ coll \in Template
             /\ refused' = (refused \/ Refuses(m))
             /\ seen' = IF Refuses(m) THEN seen ELSE seen \cup {m}
             /\ next' = next + 1
             /\ UNCHANGED <<coll, conf, pc, dst, row, result>>
             /\ conf.names[next] \in DOMAIN Desc /\ Desc[conf.names[next]] = <<>>
<1> DEFINE f == conf.names[next]
           m == ExportMetric(next)
<1>1. /\ pc = "exports" /\ next <= Len(conf.names) /\ row > Len(dst) /\ coll \in Template
      /\ Send(ExportSample(next), <<>>)
  BY DEF SendExport, IInv, Placed
<1>2. /\ Len(dst) \in Nat /\ row \in Nat \ {0} /\ next \in Nat \ {0}
      /\ Kept \subseteq 1..Len(dst)
      /\ Len(conf.names) \in Nat /\ DOMAIN conf.names = 1..Len(conf.names)
  BY Facts, KeptRange
<1>3. f \in Exported
  BY <1>1, <1>2 DEF Exported
<1>4. f \in DOMAIN Desc /\ Desc[f] = <<>>
  BY <1>3, DescIs, Facts
<1>5. ExportSample(next).family = f
  BY ExportFields
<1>6. m = Metric(ExportSample(next), <<>>)
  BY DEF ExportMetric
<1>7. m.family = f /\ m.labels = <<>>
  BY ExportFields
<1> HIDE DEF m, f
<1>8. /\ refused' = (refused \/ Refuses(m))
      /\ seen' = IF Refuses(m) THEN seen ELSE seen \cup {m}
      /\ next' = next + 1
      /\ UNCHANGED <<coll, conf, pc, dst, row, result>>
  <2> DEFINE g == ExportSample(next)
  <2>1. Len(<<>>) = Len(Desc[g.family])
    BY <1>4, <1>5
  <2>2. Send(g, <<>>) /\ m = Metric(g, <<>>)
    BY <1>1, <1>6 DEF f
  <2> HIDE DEF g
  <2> QED BY <2>1, <2>2, Zenon DEF Send
<1> QED BY <1>1, <1>4, <1>8 DEF m, f

\* The invariant is preserved: the samples of the rows are untouched.
LEMMA StepSendExport == ASSUME IInv, SendExport PROVE IInv'
<1> DEFINE f == conf.names[next]
           m == ExportMetric(next)
<1>1. pc = "exports" /\ next <= Len(conf.names) /\ row > Len(dst) /\ coll \in Template
  BY ExportSent
<1>2. /\ Len(dst) \in Nat /\ row \in Nat \ {0} /\ next \in Nat \ {0}
      /\ Kept \subseteq 1..Len(dst)
      /\ Len(conf.names) \in Nat /\ DOMAIN conf.names = 1..Len(conf.names)
  BY Facts, KeptRange
<1>4. f \in DOMAIN Desc /\ Desc[f] = <<>>
  BY ExportSent
<1>7. m.family = f /\ m.labels = <<>>
  BY ExportFields
<1>8. /\ refused' = (refused \/ Refuses(m))
      /\ seen' = IF Refuses(m) THEN seen ELSE seen \cup {m}
      /\ next' = next + 1
      /\ UNCHANGED <<coll, conf, pc, dst, row, result>>
  BY ExportSent
<1> HIDE DEF m, f
<1>9. TypeOK'
  <2>1. next' \in Nat \ {0}
    BY <1>2, <1>8
  <2>2. refused' \in BOOLEAN
    <3>1. refused \in BOOLEAN
      BY DEF IInv, TypeOK
    <3> QED BY <1>8, <3>1 DEF Refuses
  <2>3. ASSUME NEW y \in seen'
        PROVE  y.family \in DOMAIN Desc /\ Len(y.labels) = Len(Desc[y.family])
    BY <1>4, <1>7, <1>8 DEF IInv, TypeOK
  <2>4. /\ coll \in Factories /\ (coll \in Template => conf \in Exports)
        /\ dst = <<>> \/ dst \in Results(coll)
        /\ row \in 1..Len(dst) + 1 /\ result \in {"none", "success", "error"}
        /\ pc \in {"query", "rows", "exports", "returned", "dead"}
    BY DEF IInv, TypeOK
  <2> QED BY <1>8, <2>1, <2>2, <2>3, <2>4, Frame DEF TypeOK
<1>10. Configured' /\ DiesOnlyKnown'
  BY <1>1, <1>8 DEF IInv, Configured, DiesOnlyKnown
<1>11. Placed'
  BY <1>1, <1>2, <1>8, Frame DEF IInv, Placed
<1>12. ASSUME NEW i \in Kept, NEW n PROVE Passed(i, n) /\ Passed(i, n)'
  BY <1>1, <1>2, <1>8 DEF Passed
<1>13. SeenFrom'
  <2> SUFFICES ASSUME NEW y \in seen'
               PROVE  \/ \E i \in Kept : \E n \in 1..Len(Samples(dst[i])) :
                           Passed(i, n)' /\ Known(i, n) /\ y = RowMetric(i, n)
                      \/ \E n \in DOMAIN conf.names : n < next' /\ y = ExportMetric(n)
    BY <1>1, <1>8, Frame DEF SeenFrom
  <2>1. CASE y \in seen
    <3>1. CASE \E n \in DOMAIN conf.names : n < next /\ y = ExportMetric(n)
      BY <1>2, <1>8, <3>1
    <3>2. CASE \E i \in Kept : \E n \in 1..Len(Samples(dst[i])) :
                 Passed(i, n) /\ Known(i, n) /\ y = RowMetric(i, n)
      BY <1>12, <3>2
    <3> QED BY <2>1, <3>1, <3>2 DEF IInv, SeenFrom
  <2>2. CASE y = m
    BY <1>1, <1>2, <1>8, <2>2 DEF m
  <2> QED BY <1>8, <2>1, <2>2
<1>14. SeenAll'
  <2>1. ASSUME NEW i \in Kept, NEW n \in 1..Len(Samples(dst[i])), Known(i, n)
        PROVE  \E y \in seen' : y.family = RowMetric(i, n).family
               /\ y.labels = RowMetric(i, n).labels
    <3>1. \E y \in seen : y.family = RowMetric(i, n).family
            /\ y.labels = RowMetric(i, n).labels
      BY <1>12, <2>1 DEF IInv, SeenAll
    <3> QED BY <1>8, <3>1
  <2>2. ASSUME NEW n \in DOMAIN conf.names, n < next'
        PROVE  \E y \in seen' : y.family = conf.names[n]
    <3>1. CASE n < next
      BY <1>1, <1>8, <3>1 DEF IInv, SeenAll
    <3>2. CASE n = next
      BY <1>7, <1>8, <3>2 DEF Refuses, f
    <3> QED BY <1>2, <1>8, <2>2, <3>1, <3>2
  <2> QED BY <1>8, <2>1, <2>2, Frame DEF SeenAll
<1>15. Collided'
  <2>1. ASSUME NEW i \in Kept PROVE Begun(i)
    BY <1>1, <1>2 DEF Begun
  <2> QED BY <1>8, <2>1, Frame DEF IInv, Collided
<1> QED BY <1>9, <1>10, <1>11, <1>13, <1>14, <1>15 DEF IInv

-----------------------------------------------------------------------------
(* The invariant, and what follows from it.                                *)

\* Every step preserves the invariant.
LEMMA Inductive == IInv /\ [Next]_vars => IInv'
<1> SUFFICES ASSUME IInv, [Next]_vars PROVE IInv'
  OBVIOUS
<1>1. CASE QueryFails
  BY <1>1, StepQueryFails
<1>2. CASE QueryReturns
  BY <1>2, StepQueryReturns
<1>3. CASE NoFirstRow
  BY <1>3, StepNoFirstRow
<1>4. CASE Skip
  BY <1>4, StepSkip
<1>5. CASE PassOver
  BY <1>5, StepPassOver
<1>6. CASE SendSample
  BY <1>6, StepSendSample
<1>7. CASE NextRow
  BY <1>7, StepNextRow
<1>8. CASE RowsEnd
  BY <1>8, StepRowsEnd
<1>9. CASE SendExport
  BY <1>9, StepSendExport
<1>10. CASE ExportsEnd
  BY <1>10, StepExportsEnd
<1>11. CASE UNCHANGED vars
  BY <1>11, StepRest
<1> QED
  BY <1>1, <1>2, <1>3, <1>4, <1>5, <1>6, <1>7, <1>8, <1>9, <1>10, <1>11 DEF Next, Rest

\* The inductive invariant holds in every state of every run of a collector.
THEOREM Invariance == Spec => []IInv
BY Start, Inductive, PTL DEF Spec

\* The variables keep their types; above all, every sample that Gather has taken
\* is of a family described, with as many label values as that has label names
\* (MustNewConstMetric panics otherwise: prometheus/value.go).
THEOREM TypeCorrect == Spec => []TypeOK
<1>1. IInv => TypeOK
  BY DEF IInv
<1> QED BY <1>1, Invariance, PTL

\* A collector's goroutine panics for the three reasons of DiesOnlyKnown only: no row
\* for dst[0] (os.go:131), a template whose query failed, an ExportName of its own
\* family (templatedcollector.go:31).  No other sample of the eleven collectors has a
\* label value too many or too few.
THEOREM NeverDiesOtherwise == Spec => []DiesOnlyKnown
<1>1. IInv => DiesOnlyKnown
  BY DEF IInv
<1> QED BY <1>1, Invariance, PTL

\* The label of a sample begins with its row's, and with no other row's.
LEMMA IsOfRow ==
  ASSUME coll \in Factories, NEW i, NEW j, NEW n \in 1..Len(Samples(dst[j]))
  PROVE  IsOf(RowMetric(j, n), i) <=> LabelOf(dst[j]) = LabelOf(dst[i])
<1>1. RowMetric(j, n).labels = LabelOf(dst[j]) \o Samples(dst[j])[n].own
  BY LabelsOfMetric
<1>2. IsList(LabelOf(dst[j])) /\ IsList(Samples(dst[j])[n].own)
  BY SampleOf, LabelLength
<1>3. Len(LabelOf(dst[i])) = Len(LabelOf(dst[j]))
  BY LabelLength
<1>4. SubSeq(RowMetric(j, n).labels, 1, Len(LabelOf(dst[j]))) = LabelOf(dst[j])
  BY <1>1, <1>2, Front
<1> QED BY <1>3, <1>4 DEF IsOf

\* At the end of the rows every sample with a descriptor has been passed, and
\* every descriptor is that of a sample or of an export.
LEMMA EveryFamily == IInv => EveryFamilyShown
<1> SUFFICES ASSUME IInv, pc = "returned", result = "success", NEW f \in DOMAIN Desc
             PROVE  IF f \in Exported THEN \E m \in seen : m.family = f
                    ELSE \A i \in Kept : \E m \in seen : m.family = f /\ IsOf(m, i)
  BY DEF EveryFamilyShown
<1>1. row > Len(dst) /\ next > Len(conf.names)
  BY DEF IInv, Placed
<1>2. /\ Len(dst) \in Nat /\ Kept \subseteq 1..Len(dst) /\ row \in Nat /\ next \in Nat
      /\ DOMAIN conf.names = 1..Len(conf.names) /\ Len(conf.names) \in Nat
  BY Facts, KeptRange
<1>3. CASE f \in Exported
  <2>1. PICK n \in DOMAIN conf.names : f = conf.names[n]
    BY <1>3 DEF Exported
  <2>2. n < next
    BY <1>1, <1>2
  <2> QED BY <1>1, <1>3, <2>1, <2>2 DEF IInv, SeenAll
<1>4. ASSUME f \notin Exported, NEW i \in Kept
      PROVE  \E m \in seen : m.family = f /\ IsOf(m, i)
  <2>1. f \in DOMAIN DescOf(coll)
    BY <1>4, DescIs, Facts
  <2>2. f \in FamiliesOf(Samples(dst[i]))
    BY <2>1, TableOf, Facts DEF Tabled, Samples
  <2>3. PICK n \in 1..Len(Samples(dst[i])) : Samples(dst[i])[n].family = f
    BY <2>2 DEF FamiliesOf
  <2>4. Known(i, n)
    BY <2>3 DEF Known
  <2>5. Passed(i, n)
    BY <1>1, <1>2 DEF Passed
  <2>6. PICK m \in seen : m.family = RowMetric(i, n).family
          /\ m.labels = RowMetric(i, n).labels
    BY <2>4, <2>5 DEF IInv, SeenAll
  <2>7. m.family = f
    BY <2>3, <2>6, LabelsOfMetric
  <2>8. IsOf(RowMetric(i, n), i)
    BY IsOfRow, Facts
  <2>9. IsOf(m, i)
    BY <2>6, <2>8 DEF IsOf
  <2> QED BY <2>7, <2>9
<1> QED BY <1>3, <1>4

\* A run that ends well, unrefused, has shown every family that the collector
\* describes, for every row its filter keeps (iis.go lines 55-193 and 248-503, dns.go
\* lines 44-181 and 235-492, and so on).
THEOREM NoFamilyForgotten == Spec => []EveryFamilyShown
BY Invariance, EveryFamily, PTL

\* Two samples seen of one row are two samples of one table, whose fields are apart.
LEMMA Fields == IInv => FieldsApart
<1> SUFFICES ASSUME IInv, coll # "service", NEW m \in seen, NEW n \in seen,
                    m.family = n.family, m.shows = n.shows, m.labels # n.labels,
                    NEW i \in Kept, IsOf(m, i), IsOf(n, i)
             PROVE  coll = "dns" /\ m.shows = "IXFRTCPSuccessReceived"
  BY DEF FieldsApart
<1>1. CASE m.family \in Exported
  <2>2. coll \in Template
    BY <1>1, DescIs, Facts
  <2>3. m.labels = <<>> /\ n.labels = <<>>
    BY <1>1, <2>2, SeenExport, ExportFields
  <2> QED BY <2>3
<1>2. CASE m.family \notin Exported
  <2>1. ASSUME NEW x \in seen, x.family = m.family
        PROVE  \E j \in Kept : \E k \in 1..Len(Samples(dst[j])) : x = RowMetric(j, k)
    BY <1>2, <2>1, ExportFields DEF IInv, SeenFrom, Exported
  <2>2. PICK j \in Kept : \E k \in 1..Len(Samples(dst[j])) : m = RowMetric(j, k)
    BY <2>1
  <2>3. PICK k \in 1..Len(Samples(dst[j])) : m = RowMetric(j, k)
    BY <2>2
  <2>4. PICK q \in Kept : \E l \in 1..Len(Samples(dst[q])) : n = RowMetric(q, l)
    BY <2>1
  <2>5. PICK l \in 1..Len(Samples(dst[q])) : n = RowMetric(q, l)
    BY <2>4
  <2>6. LabelOf(dst[j]) = LabelOf(dst[i]) /\ LabelOf(dst[q]) = LabelOf(dst[i])
    BY <2>3, <2>5, IsOfRow, Facts
  <2>7. Samples(dst[j]) = Samples(dst[q])
    BY Facts, AlikeRows
  <2> DEFINE s == Samples(dst[j])
           t == Samples(dst[q])
  <2>8. /\ m.family = s[k].family /\ m.shows = s[k].shows
        /\ m.labels = LabelOf(dst[i]) \o s[k].own
    <3>1. /\ m.family = Samples(dst[j])[k].family /\ m.shows = Samples(dst[j])[k].shows
          /\ m.labels = LabelOf(dst[j]) \o Samples(dst[j])[k].own
      BY <2>3, LabelsOfMetric, Zenon
    <3> QED BY <2>6, <3>1, Zenon
  <2>11. /\ n.family = t[l].family /\ n.shows = t[l].shows
         /\ n.labels = LabelOf(dst[i]) \o t[l].own
    <3>1. /\ n.family = Samples(dst[q])[l].family /\ n.shows = Samples(dst[q])[l].shows
          /\ n.labels = LabelOf(dst[q]) \o Samples(dst[q])[l].own
      BY <2>5, LabelsOfMetric, Zenon
    <3> QED BY <2>6, <3>1, Zenon
  <2>12. s = t /\ k \in 1..Len(s) /\ l \in 1..Len(s)
    BY <2>7
  <2>9. Apart(s, But(coll))
    BY Facts, TableOf DEF Samples
  <2> HIDE DEF s, t
  <2>13. s[k].own # s[l].own
    BY <2>8, <2>11, <2>12
  <2>10. s[k].shows \in But(coll)
    BY <2>8, <2>9, <2>11, <2>12, <2>13 DEF Apart
  <2> QED BY <2>8, <2>10 DEF But, Doubled
<1> QED BY <1>1, <1>2

\* No field of a row is shown twice in one family, but the one of dns.go:304.
THEOREM NoFieldTwice == Spec => []FieldsApart
BY Invariance, Fields, PTL

-----------------------------------------------------------------------------
(* The states and start modes of services.                                 *)

\* A service's samples from the one after begin on are those of family, one a word.
Part(family, begin, words) ==
  /\ begin \in Nat /\ Len(words) \in Nat /\ begin + Len(words) <= 13
  /\ \A r : \A n \in 1..13 :
       /\ ServiceSamples(r)[n].family = family <=> n - begin \in 1..Len(words)
       /\ n - begin \in 1..Len(words) => ServiceSamples(r)[n].own = <<words[n - begin]>>

\* Of these the one of the p-th word is 1.
Only(r, begin, words, p) ==
  /\ p \in 1..Len(words)
  /\ \A n \in 1..Len(words) : ServiceSamples(r)[begin + n].shows <=> words[n] = words[p]

\* The states come first.
LEMMA ServiceStates == Part("State", 0, allStates)
<1>1. Len(allStates) = 8
  BY DEF allStates
<1> SUFFICES ASSUME NEW r, NEW n \in 1..13
             PROVE  /\ ServiceSamples(r)[n].family = "State" <=> n - 0 \in 1..8
                    /\ n - 0 \in 1..8 => ServiceSamples(r)[n].own = <<allStates[n - 0]>>
  BY <1>1 DEF Part
<1>2. n - 0 = n
  OBVIOUS
<1>3. CASE n \in 1..8
  <2> DEFINE x == Lower(allStates[n]) = ToLower(r.state)
  <2>1. ServiceSamples(r)[n] = Gauge("State", <<allStates[n]>>, x)
    BY <1>3, ServiceList, Zenon
  <2> HIDE DEF x
  <2>2. ServiceSamples(r)[n].family = "State"
          /\ ServiceSamples(r)[n].own = <<allStates[n]>>
    BY <2>1, GaugeFields
  <2> QED BY <1>2, <1>3, <2>2
<1>4. CASE n \notin 1..8
  <2> DEFINE m == n - 8
             x == Lower(allStartModes[m]) = ToLower(r.mode)
  <2>0. m \in 1..5 /\ 8 + m = n
    BY <1>4
  <2>1. ServiceSamples(r)[8 + m] = Gauge("StartMode", <<allStartModes[m]>>, x)
    BY <2>0, ServiceList, Zenon
  <2> HIDE DEF x, m
  <2>2. ServiceSamples(r)[n].family = "StartMode"
    BY <2>0, <2>1, GaugeFields
  <2> QED BY <1>2, <1>4, <2>2
<1> QED BY <1>3, <1>4

\* The start modes come after them.
LEMMA ServiceModes == Part("StartMode", 8, allStartModes)
<1>1. Len(allStartModes) = 5
  BY DEF allStartModes
<1> SUFFICES ASSUME NEW r, NEW n \in 1..13
             PROVE  /\ ServiceSamples(r)[n].family = "StartMode" <=> n - 8 \in 1..5
                    /\ n - 8 \in 1..5 => ServiceSamples(r)[n].own =
                         <<allStartModes[n - 8]>>
  BY <1>1 DEF Part
<1>3. CASE n \in 1..8
  <2> DEFINE x == Lower(allStates[n]) = ToLower(r.state)
  <2>1. ServiceSamples(r)[n] = Gauge("State", <<allStates[n]>>, x)
    BY <1>3, ServiceList, Zenon
  <2> HIDE DEF x
  <2>2. ServiceSamples(r)[n].family = "State"
    BY <2>1, GaugeFields
  <2>3. n - 8 \notin 1..5
    BY <1>3
  <2> QED BY <2>2, <2>3
<1>4. CASE n \notin 1..8
  <2> DEFINE m == n - 8
             x == Lower(allStartModes[m]) = ToLower(r.mode)
  <2>0. m \in 1..5 /\ 8 + m = n
    BY <1>4
  <2>1. ServiceSamples(r)[8 + m] = Gauge("StartMode", <<allStartModes[m]>>, x)
    BY <2>0, ServiceList, Zenon
  <2> HIDE DEF x, m
  <2>2. ServiceSamples(r)[n].family = "StartMode"
          /\ ServiceSamples(r)[n].own = <<allStartModes[m]>>
    BY <2>0, <2>1, GaugeFields
  <2> QED BY <2>0, <2>2 DEF m
<1> QED BY <1>3, <1>4

\* Words are compared in lower case.
LEMMA LowerOf ==
  ASSUME NEW v, NEW w PROVE Lower(v) = ToLower(Capital(w)) <=> v = w
<1>1. ToLower(Capital(w)) = Lower(w)
  <2>1. \A a, b : [[word |-> w, capital |-> a] EXCEPT !.capital = b]
                    = [word |-> w, capital |-> b]
    OBVIOUS
  <2> QED BY <2>1, Zenon DEF Lower, ToLower, Capital
<1>2. Lower(v).word = v /\ Lower(w).word = w
  BY DEF Lower
<1> QED BY <1>1, <1>2

\* 1 is shown for the state that WMI gave.
LEMMA ShownState ==
  ASSUME NEW r, NEW p \in 1..8, r.state = Capital(allStates[p])
  PROVE  Only(r, 0, allStates, p)
<1>1. Len(allStates) = 8
  BY DEF allStates
<1> SUFFICES ASSUME NEW n \in 1..8
             PROVE  ServiceSamples(r)[0 + n].shows <=> allStates[n] = allStates[p]
  BY <1>1, Zenon DEF Only
<1> DEFINE x == Lower(allStates[n]) = ToLower(r.state)
<1>2. ServiceSamples(r)[n] = Gauge("State", <<allStates[n]>>, x)
  BY ServiceList, Zenon
<1>3. x <=> allStates[n] = allStates[p]
  BY LowerOf, Zenon
<1> HIDE DEF x
<1>4. ServiceSamples(r)[n].shows = x
  BY <1>2, GaugeFields
<1>5. 0 + n = n
  OBVIOUS
<1> QED BY <1>3, <1>4, <1>5, Zenon

\* And for the start mode that it gave.
LEMMA ShownMode ==
  ASSUME NEW r, NEW p \in 1..5, r.mode = Capital(allStartModes[p])
  PROVE  Only(r, 8, allStartModes, p)
<1>1. Len(allStartModes) = 5
  BY DEF allStartModes
<1> SUFFICES ASSUME NEW n \in 1..5
             PROVE  ServiceSamples(r)[8 + n].shows <=> allStartModes[n] = allStartModes[p]
  BY <1>1, Zenon DEF Only
<1> DEFINE x == Lower(allStartModes[n]) = ToLower(r.mode)
<1>2. ServiceSamples(r)[8 + n] = Gauge("StartMode", <<allStartModes[n]>>, x)
  BY ServiceList, Zenon
<1>3. x <=> allStartModes[n] = allStartModes[p]
  BY LowerOf, Zenon
<1> HIDE DEF x
<1>4. ServiceSamples(r)[8 + n].shows = x
  BY <1>2, GaugeFields
<1> QED BY <1>3, <1>4, Zenon

\* Every sample of every service has been seen, and nothing else.
LEMMA ServiceSeen ==
  ASSUME IInv, coll = "service", pc = "returned", dst # <<>>
  PROVE  /\ \A i \in DOMAIN dst, n \in 1..13 : RowMetric(i, n) \in seen
         /\ \A m \in seen : \E i \in DOMAIN dst, n \in 1..13 : m = RowMetric(i, n)
<1>1. row > Len(dst)
  BY DEF IInv, Placed
<1>2. /\ Len(dst) \in Nat /\ Kept \subseteq 1..Len(dst) /\ row \in Nat
      /\ DOMAIN dst = 1..Len(dst)
  BY Facts, KeptRange
<1>3. Kept = DOMAIN dst
  <2>1. "service" \notin DOMAIN Listed
    BY NamesAssumption
  <2> QED BY <2>1 DEF Kept, Skips
<1>4. coll \notin Template
  BY DEF Template
<1>5. DOMAIN conf.names = {}
  <2>1. conf.names = <<>>
    BY <1>4 DEF IInv, Configured, Unconfigured
  <2> QED BY <2>1
<1>6. \A i : Len(Samples(dst[i])) = 13
  BY ServiceList DEF Samples, SamplesOf
<1>7. ASSUME NEW m \in seen
      PROVE  \E i \in DOMAIN dst, n \in 1..13 : m = RowMetric(i, n)
  <2>1. PICK i \in Kept : \E n \in 1..Len(Samples(dst[i])) : m = RowMetric(i, n)
    BY <1>5 DEF IInv, SeenFrom
  <2>2. PICK n \in 1..Len(Samples(dst[i])) : m = RowMetric(i, n)
    BY <2>1
  <2>3. n \in 1..13
    BY <1>6
  <2> QED BY <1>3, <2>2, <2>3
<1>8. ASSUME NEW i \in DOMAIN dst, NEW n \in 1..13 PROVE RowMetric(i, n) \in seen
  <2>1. Passed(i, n)
    BY <1>1, <1>2 DEF Passed
  <2>2. n \in 1..Len(Samples(dst[i]))
    BY <1>6
  <2>3. Known(i, n)
    BY <1>4, <2>2, KnownOf
  <2>4. PICK m \in seen : m.family = RowMetric(i, n).family
          /\ m.labels = RowMetric(i, n).labels
    BY <1>3, <2>1, <2>2, <2>3 DEF IInv, SeenAll
  <2>5. PICK j \in DOMAIN dst : \E k \in 1..13 : m = RowMetric(j, k)
    BY <1>7
  <2>6. PICK k \in 1..13 : m = RowMetric(j, k)
    BY <2>5
  <2>7. k \in 1..Len(Samples(dst[j]))
    BY <1>6
  <2>8. Samples(dst[j])[k].family = Samples(dst[i])[n].family
    BY <2>4, <2>6, LabelsOfMetric
  <2>9. LabelOf(dst[j]) \o Samples(dst[j])[k].own =
          LabelOf(dst[i]) \o Samples(dst[i])[n].own
    <3>1. RowMetric(j, k).labels = LabelOf(dst[j]) \o Samples(dst[j])[k].own
      BY LabelsOfMetric, Zenon
    <3>2. RowMetric(i, n).labels = LabelOf(dst[i]) \o Samples(dst[i])[n].own
      BY LabelsOfMetric, Zenon
    <3> QED BY <2>4, <2>6, <3>1, <3>2, Zenon
  <2>10. LabelOf(dst[j]) = LabelOf(dst[i]) /\ k = n
    <3>1. coll \in Factories
      BY Facts
    <3>2. SameSample(dst[j], k, dst[i], n)
      BY <2>8, <2>9 DEF SameSample
    <3> QED BY <2>2, <2>7, <3>1, <3>2, SameLabels
  <2>11. j = i
    BY <1>3, <2>10, Facts, TemplateRowsApart
  <2> QED BY <2>6, <2>10, <2>11
<1> QED BY <1>7, <1>8

\* Of a service's samples in one family one is shown as 1, that of the word current.
LEMMA OneOn ==
  ASSUME IInv, coll = "service", pc = "returned", NEW i \in DOMAIN dst,
         NEW family, NEW begin, NEW words, NEW p,
         Part(family, begin, words), Only(dst[i], begin, words, p)
  PROVE  On(family, dst[i].name) = {words[p]}
<1>1. dst # <<>>
  OBVIOUS
<1>0. /\ begin \in Nat /\ Len(words) \in Nat /\ begin + Len(words) <= 13
      /\ p \in 1..Len(words)
  BY DEF Part, Only
<1>2. coll \notin Single /\ coll # "net"
  BY DEF Single
<1>3. ASSUME NEW j \in DOMAIN dst, NEW n \in 1..13, n - begin \in 1..Len(words)
      PROVE  /\ RowMetric(j, n).labels[1] = dst[j].name
             /\ RowMetric(j, n).labels[2] = words[n - begin]
  <2>1. ServiceSamples(dst[j])[n].own = <<words[n - begin]>>
    BY <1>3 DEF Part
  <2>2. Samples(dst[j]) = ServiceSamples(dst[j])
    BY DEF Samples, SamplesOf
  <2>3. LabelOf(dst[j]) = <<dst[j].name>>
    BY <1>2 DEF LabelOf
  <2>4. RowMetric(j, n).labels = <<dst[j].name>> \o <<words[n - begin]>>
    <3>1. RowMetric(j, n).labels = LabelOf(dst[j]) \o Samples(dst[j])[n].own
      BY LabelsOfMetric, Zenon
    <3> QED BY <2>1, <2>2, <2>3, <3>1, Zenon
  <2> DEFINE a == dst[j].name
             b == words[n - begin]
  <2> HIDE DEF a, b
  <2>5. (<<a>> \o <<b>>)[1] = a /\ (<<a>> \o <<b>>)[2] = b
    OBVIOUS
  <2> QED BY <2>4, <2>5 DEF a, b
<1>4. ASSUME NEW j, NEW n \in 1..13
      PROVE  RowMetric(j, n).family = family <=> n - begin \in 1..Len(words)
  <2>1. Samples(dst[j]) = ServiceSamples(dst[j])
    BY DEF Samples, SamplesOf
  <2>2. RowMetric(j, n).family = Samples(dst[j])[n].family
    BY LabelsOfMetric, Zenon
  <2> QED BY <2>1, <2>2 DEF Part
<1>5. ASSUME NEW n \in 1..13
      PROVE  RowMetric(i, n).shows = ServiceSamples(dst[i])[n].shows
  <2>1. Samples(dst[i]) = ServiceSamples(dst[i])
    BY DEF Samples, SamplesOf
  <2>2. RowMetric(i, n).shows = Samples(dst[i])[n].shows
    BY LabelsOfMetric, Zenon
  <2> QED BY <2>1, <2>2, Zenon
<1>6. \A v : v \in On(family, dst[i].name) <=>
        \E m \in seen : /\ m.family = family /\ m.labels[1] = dst[i].name /\ m.shows
                        /\ v = m.labels[2]
  BY Zenon DEF On
<1>7. words[p] \in On(family, dst[i].name)
  <2>1. begin + p \in 1..13 /\ (begin + p) - begin = p
    BY <1>0
  <2>10. p \in 1..Len(words)
    BY <1>0
  <2> DEFINE n == begin + p
             m == RowMetric(i, n)
  <2>2. n \in 1..13 /\ n - begin \in 1..Len(words) /\ words[n - begin] = words[p]
    BY <2>1, <2>10
  <2>3. m \in seen
    BY <1>1, <2>2, ServiceSeen
  <2>4. m.family = family /\ m.labels[1] = dst[i].name /\ m.labels[2] = words[p]
    BY <1>3, <1>4, <2>2
  <2>5. ServiceSamples(dst[i])[begin + p].shows
    BY <2>10, Zenon DEF Only
  <2>6. m.shows = ServiceSamples(dst[i])[begin + p].shows
    BY <1>5, <2>1, Zenon
  <2>7. m.shows
    BY <2>5, <2>6, Zenon
  <2> HIDE DEF m
  <2> QED BY <1>6, <2>3, <2>4, <2>7, Zenon
<1>8. ASSUME NEW v \in On(family, dst[i].name) PROVE v = words[p]
  <2>1. PICK m \in seen : /\ m.family = family /\ m.labels[1] = dst[i].name /\ m.shows
                          /\ v = m.labels[2]
    BY <1>6, Zenon
  <2>2. PICK j \in DOMAIN dst, n \in 1..13 : m = RowMetric(j, n)
    BY <1>1, ServiceSeen
  <2>3. n - begin \in 1..Len(words)
    BY <1>4, <2>1, <2>2
  <2>4. m.labels[1] = dst[j].name /\ v = words[n - begin]
    BY <1>3, <2>1, <2>2, <2>3
  <2>5. j = i
    BY <2>1, <2>4, Facts, KeptRange
  <2> DEFINE k == n - begin
  <2>6. begin + k = n /\ k \in 1..Len(words)
    BY <1>0, <2>3
  <2>7. ServiceSamples(dst[i])[begin + k].shows
    <3>1. RowMetric(i, n).shows
      BY <2>1, <2>2, <2>5, Zenon
    <3>2. ServiceSamples(dst[i])[n].shows
      BY <1>5, <3>1, Zenon
    <3> QED BY <2>6, <3>2, Zenon
  <2>8. words[k] = words[p]
    BY <2>6, <2>7, Zenon DEF Only
  <2> QED BY <2>4, <2>8
<1> QED BY <1>7, <1>8

\* One state is shown as 1,
LEMMA StateOn ==
  ASSUME IInv, coll = "service", pc = "returned", NEW i \in DOMAIN dst,
         NEW p \in 1..8, dst[i].state = Capital(allStates[p])
  PROVE  On("State", dst[i].name) = {allStates[p]}
<1>1. Only(dst[i], 0, allStates, p)
  BY ShownState
<1> QED BY <1>1, ServiceStates, OneOn

\* and one start mode.
LEMMA ModeOn ==
  ASSUME IInv, coll = "service", pc = "returned", NEW i \in DOMAIN dst,
         NEW q \in 1..5, dst[i].mode = Capital(allStartModes[q])
  PROVE  On("StartMode", dst[i].name) = {allStartModes[q]}
<1>1. Only(dst[i], 8, allStartModes, q)
  BY ShownMode
<1> QED BY <1>1, ServiceModes, OneOn

\* Every service has the state and the start mode of some word of the lists.
LEMMA OneState == IInv => OneStateOn
<1> SUFFICES ASSUME IInv, coll = "service", pc = "returned", NEW i \in DOMAIN dst
             PROVE  /\ On("State", dst[i].name) = {dst[i].state.word}
                    /\ On("StartMode", dst[i].name) = {dst[i].mode.word}
  BY DEF OneStateOn
<1>1. dst[i] \in [name : Names["service"], state : TextsOf(allStates),
                   mode : TextsOf(allStartModes)]
  <2>1. dst[i] \in RowsOf("service")
    BY Facts, KeptRange
  <2> QED BY <2>1 DEF RowsOf, Single
<1>2. dst[i].state \in TextsOf(allStates) /\ dst[i].mode \in TextsOf(allStartModes)
  BY <1>1
<1>3. DOMAIN allStates = 1..8 /\ DOMAIN allStartModes = 1..5
  BY DEF allStates, allStartModes
<1>4. PICK p \in 1..8 : dst[i].state = Capital(allStates[p])
  BY <1>2, <1>3 DEF TextsOf
<1>5. PICK q \in 1..5 : dst[i].mode = Capital(allStartModes[q])
  BY <1>2, <1>3 DEF TextsOf
<1>6. dst[i].state.word = allStates[p] /\ dst[i].mode.word = allStartModes[q]
  BY <1>4, <1>5 DEF Capital
<1>7. On("State", dst[i].name) = {allStates[p]}
  BY <1>4, StateOn
<1>8. On("StartMode", dst[i].name) = {allStartModes[q]}
  BY <1>5, ModeOn
<1> QED BY <1>6, <1>7, <1>8

\* Of every service exactly the state and the start mode that WMI gave are shown as
\* 1 (service.go lines 58-76 and 85-113), however many services there are.
THEOREM AlwaysOneStateOn == Spec => []OneStateOn
BY Invariance, OneState, PTL

-----------------------------------------------------------------------------
(* The refinement: items, and what is shown of them.                       *)

\* The fields of items.
LEMMA ItemFields ==
  ASSUME NEW i
  PROVE  /\ RowItem(i).nr = i /\ RowItem(i).label = <<"row", LabelOf(dst[i])>>
         /\ ExportItem(i).nr = i /\ ExportItem(i).label = <<"export", conf.names[i]>>
BY DEF RowItem, ExportItem

\* Rows and exports differ, and so do their labels if the rows' labels do.
LEMMA ItemLabels ==
  ASSUME NEW i, NEW j
  PROVE  /\ RowItem(i).label = RowItem(j).label <=> LabelOf(dst[i]) = LabelOf(dst[j])
         /\ ExportItem(i).label = ExportItem(j).label <=> conf.names[i] = conf.names[j]
         /\ RowItem(i).label # ExportItem(j).label
         /\ RowItem(i) = RowItem(j) <=> i = j
         /\ ExportItem(i) = ExportItem(j) <=> i = j
         /\ RowItem(i) # ExportItem(j)
<1>1. \A a, b : <<"row", a>> = <<"row", b>> <=> a = b
  OBVIOUS
<1>2. \A a, b : <<"export", a>> = <<"export", b>> <=> a = b
  OBVIOUS
<1>3. \A a, b : <<"row", a>> # <<"export", b>>
  OBVIOUS
<1>4. RowItem(i).label # ExportItem(j).label
  BY <1>3, ItemFields
<1>5. RowItem(i).label = RowItem(j).label <=> LabelOf(dst[i]) = LabelOf(dst[j])
  BY <1>1, ItemFields
<1>6. ExportItem(i).label = ExportItem(j).label <=> conf.names[i] = conf.names[j]
  BY <1>2, ItemFields
<1>7. RowItem(i) = RowItem(j) <=> i = j
  BY ItemFields
<1>8. ExportItem(i) = ExportItem(j) <=> i = j
  BY ItemFields
<1> QED BY <1>4, <1>5, <1>6, <1>7, <1>8

\* Items stay what they are while the rows do.
LEMMA ItemFrame ==
  ASSUME UNCHANGED <<coll, conf, dst>>
  PROVE  /\ \A i : RowItem(i)' = RowItem(i)
         /\ \A i : ExportItem(i)' = ExportItem(i)
         /\ \A r, e : Items(r, e)' = Items(r, e)
<1>1. \A i : RowItem(i)' = RowItem(i)
  BY Frame DEF RowItem
<1>2. \A i : ExportItem(i)' = ExportItem(i)
  BY DEF ExportItem
<1>3. \A r, e : Items(r, e)' = Items(r, e)
  BY <1>1, <1>2 DEF Items
<1> QED BY <1>1, <1>2, <1>3

\* The items of the run and the labels shown, when the sets of indices are known.
Remaining(b, s) == Items(Kept \ b, DOMAIN conf.names \ s)
Labels(b, s) == {x.label : x \in Items(b, s)}

\* What is left and what is shown after a step, from the rows begun and the
\* exports sent after it.
LEMMA BarFrame ==
  ASSUME UNCHANGED <<coll, conf, dst>>, NEW b, NEW s, BegunRows' = b, SentExports' = s
  PROVE  /\ Shown' = Labels(b, s)
         /\ Todo' = IF pc' \in {"query", "dead"} /\ dst = <<>>
              THEN {} ELSE Remaining(b, s)
<1>1. Shown' = Labels(b, s)
  <2>1. Items(BegunRows, SentExports)' = Items(b, s)
    BY ItemFrame DEF Items
  <2> QED BY <2>1 DEF Shown, Labels
<1>2. Kept' = Kept /\ (DOMAIN conf.names)' = DOMAIN conf.names /\ dst' = dst
  BY Frame
<1>3. Items(Kept \ BegunRows, DOMAIN conf.names \ SentExports)' = Remaining(b, s)
  BY <1>2, ItemFrame DEF Items, Remaining
<1>4. Todo' = IF pc' \in {"query", "dead"} /\ dst = <<>> THEN {} ELSE Remaining(b, s)
  BY <1>2, <1>3 DEF Todo
<1> QED BY <1>1, <1>4

\* The same before the step.
LEMMA BarsNow ==
  /\ Shown = Labels(BegunRows, SentExports)
  /\ Todo = IF pc \in {"query", "dead"} /\ dst = <<>> THEN {}
            ELSE Remaining(BegunRows, SentExports)
BY DEF Shown, Todo, Labels, Remaining

\* One row more has been begun.
LEMMA RowShown ==
  ASSUME NEW b, NEW s, NEW i \in Kept \ b
  PROVE  /\ RowItem(i) \in Remaining(b, s)
         /\ Remaining(b \cup {i}, s) = Remaining(b, s) \ {RowItem(i)}
         /\ Labels(b \cup {i}, s) = Labels(b, s) \cup {RowItem(i).label}
         /\ RowItem(i).label \in Labels(b, s) <=>
              \E j \in b : LabelOf(dst[j]) = LabelOf(dst[i])
<1>1. RowItem(i) \in Remaining(b, s)
  BY DEF Remaining, Items
<1>2. Remaining(b \cup {i}, s) = Remaining(b, s) \ {RowItem(i)}
  BY ItemLabels DEF Remaining, Items
<1>3. Labels(b \cup {i}, s) = Labels(b, s) \cup {RowItem(i).label}
  BY DEF Labels, Items
<1>4. RowItem(i).label \in Labels(b, s) <=> \E j \in b : LabelOf(dst[j]) = LabelOf(dst[i])
  BY ItemLabels DEF Labels, Items
<1> QED BY <1>1, <1>2, <1>3, <1>4

\* One export more has been sent.
Shows(b, s, i) ==
  /\ ExportItem(i) \in Remaining(b, s)
  /\ Remaining(b, s \cup {i}) = Remaining(b, s) \ {ExportItem(i)}
  /\ Labels(b, s \cup {i}) = Labels(b, s) \cup {ExportItem(i).label}
  /\ ExportItem(i).label \in Labels(b, s) <=>
       \E j \in s : conf.names[j] = conf.names[i]
LEMMA ExportShown ==
  ASSUME NEW b, NEW s, NEW i \in DOMAIN conf.names \ s
  PROVE  Shows(b, s, i)
<1>1. ExportItem(i) \in Remaining(b, s)
  BY DEF Remaining, Items
<1>2. Remaining(b, s \cup {i}) = Remaining(b, s) \ {ExportItem(i)}
  BY ItemLabels DEF Remaining, Items
<1>3. Labels(b, s \cup {i}) = Labels(b, s) \cup {ExportItem(i).label}
  BY DEF Labels, Items
<1>4. ExportItem(i).label \in Labels(b, s) <=> \E j \in s : conf.names[j] = conf.names[i]
  BY ItemLabels DEF Labels, Items
<1> QED BY <1>1, <1>2, <1>3, <1>4 DEF Shows

\* What has been begun and sent, in each phase.
LEMMA BegunNow ==
  ASSUME IInv
  PROVE  /\ row > Len(dst) => BegunRows = Kept
         /\ row <= Len(dst) \/ next = 1 => SentExports = {}
         /\ next > Len(conf.names) /\ row > Len(dst) => SentExports = DOMAIN conf.names
         /\ row = 1 /\ next = 1 => BegunRows = {}
<1>1. /\ Len(dst) \in Nat /\ row \in Nat \ {0} /\ next \in Nat \ {0}
      /\ Kept \subseteq 1..Len(dst)
      /\ Len(conf.names) \in Nat /\ DOMAIN conf.names = 1..Len(conf.names)
  BY Facts, KeptRange
<1>2. row > Len(dst) => BegunRows = Kept
  BY <1>1 DEF BegunRows, Begun
<1>3. row <= Len(dst) \/ next = 1 => SentExports = {}
  BY <1>1 DEF SentExports
<1>4. next > Len(conf.names) /\ row > Len(dst) => SentExports = DOMAIN conf.names
  BY <1>1 DEF SentExports
<1>5. row = 1 /\ next = 1 => BegunRows = {}
  BY <1>1 DEF BegunRows, Begun
<1> QED BY <1>2, <1>3, <1>4, <1>5

\* No row, and no export.
LEMMA Nothing ==
  /\ Items({}, {}) = {} /\ Labels({}, {}) = {}
  /\ \A b, s : Kept \subseteq b /\ DOMAIN conf.names \subseteq s => Remaining(b, s) = {}
<1>1. Items({}, {}) = {}
  BY DEF Items
<1>2. Labels({}, {}) = {}
  BY <1>1 DEF Labels
<1>3. ASSUME NEW b, NEW s, Kept \subseteq b, DOMAIN conf.names \subseteq s
      PROVE  Remaining(b, s) = {}
  <2>1. Kept \ b = {} /\ DOMAIN conf.names \ s = {}
    BY <1>3
  <2> QED BY <1>1, <2>1 DEF Remaining
<1> QED BY <1>1, <1>2, <1>3

-----------------------------------------------------------------------------
(* The refinement: steps.                                                  *)

Follows == [Seen!Next]_(Seen!vars)

\* A step that the abstract run does not see.
LEMMA Stutters ==
  ASSUME Phase' = Phase, Todo' = Todo, Shown' = Shown, refused' = refused
  PROVE  Follows
BY DEF Follows, Seen!vars

\* A step of which the bars only see phase.
LEMMA OnlyPhase ==
  ASSUME IInv, UNCHANGED <<coll, conf, dst, row, next, refused>>
  PROVE  /\ BegunRows' = BegunRows /\ SentExports' = SentExports /\ Shown' = Shown
         /\ Todo' = IF pc' \in {"query", "dead"} /\ dst = <<>> THEN {}
                    ELSE Remaining(BegunRows, SentExports)
<1>1. BegunRows' = BegunRows
  BY Frame DEF BegunRows, Begun
<1>2. SentExports' = SentExports
  BY DEF SentExports
<1>3. /\ Shown' = Labels(BegunRows, SentExports)
      /\ Todo' = IF pc' \in {"query", "dead"} /\ dst = <<>> THEN {}
                 ELSE Remaining(BegunRows, SentExports)
  BY <1>1, <1>2, BarFrame
<1> QED BY <1>1, <1>2, <1>3, BarsNow

\* Without rows and exports nothing is left.
LEMMA NoRowsNoNames ==
  ASSUME IInv, dst = <<>>, conf.names = <<>>
  PROVE  Remaining(BegunRows, SentExports) = {}
<1>1. Kept = {}
  BY DEF Kept
<1> QED BY <1>1, Nothing

\* A panic is the abstract run's end without a result.
LEMMA DieFollows ==
  ASSUME IInv, Die, dst = <<>> => Todo = {}
  PROVE  Follows
<1>1. pc' = "dead" /\ UNCHANGED <<coll, conf, dst, row, next, refused>>
  BY DEF Die
<1>2. Shown' = Shown /\ Todo' = Todo
  BY <1>1, OnlyPhase, BarsNow
<1>3. Phase' = "dead"
  BY <1>1 DEF Phase
<1> QED BY <1>1, <1>2, <1>3 DEF Follows, Seen!Next, Seen!Panic

\* A failed query: an error, no items, or a panic.
LEMMA QueryFailsFollows == ASSUME IInv, QueryFails PROVE Follows
<1>1. pc = "query" /\ dst = <<>> /\ Todo = {} /\ Phase = "query"
  BY BarsNow DEF QueryFails, IInv, Placed, Phase
<1>2. ASSUME NEW outcome, Finish(outcome), conf.names = <<>> PROVE Follows
  <2>1. pc' = "returned" /\ UNCHANGED <<coll, conf, dst, row, next, refused>>
    BY <1>2 DEF Finish
  <2>2. Todo' = {} /\ Shown' = Shown
    BY <1>1, <1>2, <2>1, OnlyPhase, NoRowsNoNames
  <2>3. Phase' = "returned"
    BY <2>1 DEF Phase
  <2> QED BY <1>1, <2>1, <2>2, <2>3 DEF Follows, Seen!Next, Seen!QueryFails
<1>3. CASE coll \notin Template /\ Finish("error")
  BY <1>2, <1>3 DEF IInv, Configured, Unconfigured
<1>4. CASE conf.names = <<>> /\ Finish("success")
  BY <1>2, <1>4
<1>5. CASE Die
  BY <1>1, <1>5, DieFollows
<1> QED BY <1>3, <1>4, <1>5 DEF QueryFails

\* The rows of the query, and the exports, are the items to show.
LEMMA QueryReturnsFollows == ASSUME IInv, QueryReturns PROVE Follows
<1>1. /\ pc = "query" /\ row = 1 /\ next = 1 /\ pc' = "rows" /\ row' = 1 /\ next' = 1
      /\ refused' = refused
  BY DEF QueryReturns, IInv, Placed
<1>2. BegunRows = {} /\ SentExports = {}
  BY <1>1, BegunNow
<1>3. BegunRows' = {} /\ SentExports' = {}
  <2>1. dst' \in Results(coll) /\ conf' = conf
    BY DEF QueryReturns
  <2>2. Len(dst') \in Nat /\ DOMAIN (dst') = 1..Len(dst')
    BY <2>1, RowsOfQuery
  <2>3. \A i \in Kept' : ~Begun(i)'
    BY <1>1, <2>2 DEF Kept, Begun
  <2>4. \A i \in DOMAIN conf.names : ~(i < next')
    BY <1>1, Facts
  <2> QED BY <2>1, <2>3, <2>4 DEF BegunRows, SentExports
<1>4. Shown = {} /\ Shown' = {}
  <2>1. Items({}, {}) = {} /\ Items({}, {})' = {}
    BY DEF Items
  <2> QED BY <1>2, <1>3, <2>1 DEF Shown, Items
<1>5. Phase = "query" /\ Phase' = "sending"
  BY <1>1 DEF Phase
<1> QED BY <1>1, <1>4, <1>5 DEF Follows, Seen!Next, Seen!QueryReturns

\* No rows under a collector of one: a panic.
LEMMA NoFirstRowFollows == ASSUME IInv, NoFirstRow PROVE Follows
<1>1. pc = "rows" /\ coll \in Single /\ dst = <<>> /\ Die
  BY DEF NoFirstRow
<1>2. conf.names = <<>>
  BY <1>1 DEF IInv, Configured, Single, Template, Unconfigured
<1>3. Todo = {}
  BY <1>1, <1>2, NoRowsNoNames, BarsNow
<1> QED BY <1>1, <1>3, DieFollows

\* After the rows: the end, or a stuttering step on to the exports.
LEMMA RowsEndFollows == ASSUME IInv, RowsEnd PROVE Follows
<1>1. pc = "rows" /\ row > Len(dst)
  BY DEF RowsEnd
<1>2. Phase = "sending" /\ Todo = Remaining(BegunRows, SentExports)
  BY <1>1, BarsNow DEF Phase
<1>3. CASE coll \notin Template /\ Finish("success")
  <2>1. pc' = "returned" /\ UNCHANGED <<coll, conf, dst, row, next, refused>>
    BY <1>3 DEF Finish
  <2>2. BegunRows = Kept /\ DOMAIN conf.names = {}
    <3>1. conf.names = <<>>
      BY <1>3 DEF IInv, Configured, Unconfigured
    <3> QED BY <1>1, <3>1, BegunNow
  <2>3. Todo = {} /\ Todo' = {} /\ Shown' = Shown
    BY <1>2, <2>1, <2>2, Nothing, OnlyPhase
  <2>4. Phase' = "returned"
    BY <2>1 DEF Phase
  <2> QED BY <1>2, <2>1, <2>3, <2>4 DEF Follows, Seen!Next, Seen!Return
<1>4. CASE pc' = "exports"
        /\ UNCHANGED <<coll, conf, dst, row, next, seen, refused, result>>
  <2>1. Todo' = Todo /\ Shown' = Shown
    BY <1>2, <1>4, OnlyPhase
  <2>2. Phase' = Phase
    BY <1>2, <1>4 DEF Phase
  <2> QED BY <1>4, <2>1, <2>2, Stutters
<1> QED BY <1>3, <1>4 DEF RowsEnd

\* After the exports: the end.
LEMMA ExportsEndFollows == ASSUME IInv, ExportsEnd PROVE Follows
<1>1. /\ pc = "exports" /\ next > Len(conf.names) /\ row > Len(dst) /\ pc' = "returned"
      /\ UNCHANGED <<coll, conf, dst, row, next, refused>>
  BY DEF ExportsEnd, Finish, IInv, Placed
<1>2. BegunRows = Kept /\ SentExports = DOMAIN conf.names
  BY <1>1, BegunNow
<1>3. Todo = {} /\ Todo' = {} /\ Shown' = Shown
  BY <1>1, <1>2, Nothing, OnlyPhase, BarsNow
<1>4. Phase = "sending" /\ Phase' = "returned"
  BY <1>1 DEF Phase
<1> QED BY <1>1, <1>3, <1>4 DEF Follows, Seen!Next, Seen!Return

\* Stuttering.
LEMMA RestFollows == ASSUME IInv, UNCHANGED vars PROVE Follows
<1>1. UNCHANGED <<coll, conf, pc, dst, row, next, refused>>
  BY DEF vars
<1>2. Todo' = Todo /\ Shown' = Shown
  BY <1>1, OnlyPhase, BarsNow
<1>3. Phase' = Phase
  BY <1>1 DEF Phase
<1> QED BY <1>1, <1>2, <1>3, Stutters

\* On to the next row, and over a row that the filter drops.
LEMMA RowFollows ==
  ASSUME IInv, pc = "rows", row <= Len(dst), row' = row + 1, next' = 1, pc' = pc,
         UNCHANGED <<coll, conf, dst, refused>>,
         row \in Kept => next > 1, row \notin Kept => next = 1
  PROVE  Follows
<1>1. /\ Len(dst) \in Nat /\ row \in Nat \ {0} /\ next \in Nat \ {0}
      /\ Kept \subseteq 1..Len(dst)
      /\ DOMAIN conf.names = 1..Len(conf.names)
  BY Facts, KeptRange
<1>2. BegunRows' = BegunRows
  <2>1. \A i \in Kept : Begun(i)' <=> Begun(i)
    BY <1>1 DEF Begun
  <2> QED BY <2>1, Frame DEF BegunRows
<1>3. SentExports = {} /\ SentExports' = {}
  <2>1. SentExports = {}
    BY BegunNow
  <2>2. \A i \in DOMAIN conf.names : ~(i < next')
    BY <1>1
  <2> QED BY <2>1, <2>2 DEF SentExports
<1>4. Todo' = Todo /\ Shown' = Shown
  BY <1>2, <1>3, BarFrame, BarsNow
<1>5. Phase' = Phase
  BY DEF Phase
<1> QED BY <1>4, <1>5, Stutters

\* A row that the filter drops is no item.
LEMMA SkipFollows == ASSUME IInv, Skip PROVE Follows
<1>1. /\ pc = "rows" /\ row <= Len(dst) /\ Skips(dst[row]) /\ row' = row + 1
      /\ UNCHANGED <<coll, conf, pc, dst, next, refused>>
  BY DEF Skip
<1>2. next = 1 /\ row \notin Kept
  BY <1>1 DEF IInv, Placed, Kept
<1> QED BY <1>1, <1>2, RowFollows

\* The row before has been shown by its first sample.
LEMMA NextRowFollows == ASSUME IInv, NextRow PROVE Follows
<1>1. /\ pc = "rows" /\ row <= Len(dst) /\ ~Skips(dst[row]) /\ row' = row + 1 /\ next' = 1
      /\ next > Len(Samples(dst[row])) /\ UNCHANGED <<coll, conf, pc, dst, refused>>
  BY DEF NextRow
<1>2. Len(Samples(dst[row])) \in Nat \ {0} /\ next \in Nat
  BY Facts, AlikeRows
<1>3. next > 1
  BY <1>1, <1>2
<1>4. row \in Kept
  <2>1. Len(dst) \in Nat /\ DOMAIN dst = 1..Len(dst) /\ row \in Nat \ {0}
    BY Facts, KeptRange
  <2> QED BY <1>1, <2>1 DEF Kept
<1> QED BY <1>1, <1>3, <1>4, RowFollows

\* An item is shown when the first of its samples is sent or passed over.
ShownOf(x) ==
  /\ Phase = "sending" /\ Phase' = "sending"
  /\ x \in Todo /\ Todo' = Todo \ {x}
  /\ (refused' <=> refused \/ x.label \in Shown) /\ Shown' = Shown \cup {x.label}

\* Then the step is the abstract one.
LEMMA ShowFollows ==
  ASSUME NEW x, ShownOf(x), refused \in BOOLEAN, refused' \in BOOLEAN PROVE Follows
<1>1. refused' = (refused \/ x.label \in Shown)
  BY DEF ShownOf
<1>2. Seen!Show(x)
  BY <1>1 DEF ShownOf, Seen!Show
<1>3. x \in Todo
  BY DEF ShownOf
<1> QED BY <1>2, <1>3 DEF Follows, Seen!Next

\* The first sample of a row shows it; another one is a stuttering step.
LEMMA PastFollows ==
  ASSUME IInv, AtSample, Past,
         next = 1 =>
           (refused' => \/ refused
                        \/ \E j \in Kept : j < row /\ LabelOf(dst[j]) = LabelOf(dst[row])),
         next # 1 => (refused' => refused)
  PROVE  Follows
<1>1. /\ pc = "rows" /\ row <= Len(dst) /\ next' = next + 1
      /\ UNCHANGED <<coll, conf, pc, dst, row>>
  BY DEF AtSample, Past
<1>2. /\ Len(dst) \in Nat /\ row \in Nat \ {0} /\ next \in Nat \ {0}
      /\ Kept \subseteq 1..Len(dst)
      /\ DOMAIN dst = 1..Len(dst)
  BY Facts, KeptRange
<1>3. row \in Kept
  BY <1>1, <1>2 DEF Kept, AtSample
<1>4. SentExports = {} /\ SentExports' = {}
  <2>1. SentExports = {}
    BY <1>1, BegunNow
  <2>2. ~(row' > Len(dst'))
    BY <1>1, <1>2
  <2> QED BY <2>1, <2>2 DEF SentExports
<1>5. Phase = "sending" /\ Phase' = "sending"
  BY <1>1 DEF Phase
<1>6. dst # <<>>
  BY <1>1, <1>2
<1>7. refused \in BOOLEAN /\ refused' \in BOOLEAN /\ (refused => refused')
  BY DEF IInv, TypeOK, Past
<1>8. CASE next = 1
  <2>1. row \notin BegunRows /\ \A i \in Kept : i \in BegunRows <=> i < row
    BY <1>2, <1>8 DEF BegunRows, Begun
  <2>2. BegunRows' = BegunRows \cup {row}
    <3>1. \A i \in Kept : Begun(i)' <=> Begun(i) \/ i = row
      BY <1>1, <1>2, <1>8 DEF Begun
    <3> QED BY <1>3, <3>1, Frame, <1>1 DEF BegunRows
  <2> DEFINE b == BegunRows
  <2>3. /\ Shown' = Labels(b \cup {row}, {})
        /\ Todo' = IF pc' \in {"query", "dead"} /\ dst = <<>>
             THEN {} ELSE Remaining(b \cup {row}, {})
    BY <1>1, <1>4, <2>2, BarFrame
  <2>4. Shown = Labels(b, {}) /\ Todo = Remaining(b, {})
    BY <1>1, <1>4, BarsNow
  <2>5. row \in Kept \ b
    BY <1>3, <2>1
  <2>6. /\ RowItem(row) \in Remaining(b, {})
        /\ Remaining(b \cup {row}, {}) = Remaining(b, {}) \ {RowItem(row)}
        /\ Labels(b \cup {row}, {}) = Labels(b, {}) \cup {RowItem(row).label}
        /\ RowItem(row).label \in Labels(b, {}) <=>
             \E j \in b : LabelOf(dst[j]) = LabelOf(dst[row])
    BY <2>5, RowShown
  <2>7. refused' <=> refused \/ \E j \in b : LabelOf(dst[j]) = LabelOf(dst[row])
    <3>1. \A j \in b : j \in Kept
      BY DEF BegunRows
    <3>2. (\E j \in b : LabelOf(dst[j]) = LabelOf(dst[row])) => refused'
      BY <1>8, <2>1, <3>1 DEF Past
    <3>3. refused' => refused \/ \E j \in b : LabelOf(dst[j]) = LabelOf(dst[row])
      BY <1>8, <2>1
    <3> QED BY <1>7, <3>2, <3>3
  <2> DEFINE x == RowItem(row)
  <2> HIDE DEF b, x
  <2>8. Todo' = Todo \ {x} /\ x \in Todo
    BY <1>1, <1>6, <2>3, <2>4, <2>6 DEF x
  <2>9. Shown' = Shown \cup {x.label}
    BY <2>3, <2>4, <2>6 DEF x
  <2>10. refused' <=> refused \/ x.label \in Shown
    BY <2>4, <2>6, <2>7 DEF x
  <2>11. ShownOf(x)
    BY <1>5, <2>8, <2>9, <2>10 DEF ShownOf
  <2> QED BY <1>7, <2>11, ShowFollows
<1>9. CASE next # 1
  <2>1. BegunRows' = BegunRows
    <3>1. \A i \in Kept : Begun(i)' <=> Begun(i)
      BY <1>1, <1>2, <1>9 DEF Begun
    <3> QED BY <3>1, Frame, <1>1 DEF BegunRows
  <2>2. Todo' = Todo /\ Shown' = Shown
    BY <1>1, <1>4, <2>1, BarFrame, BarsNow
  <2>3. refused' = refused
    BY <1>7, <1>9
  <2> QED BY <1>5, <2>2, <2>3, Stutters
<1> QED BY <1>8, <1>9

\* A sample passed over counts as its row's, and refuses nothing.
LEMMA PassOverFollows == ASSUME IInv, PassOver PROVE Follows
<1>1. AtSample /\ Past /\ refused' = refused
  BY PassedOver
<1> QED BY <1>1, PastFollows

\* A sample sent: refused, as the first of its row, if a row shown has its label.
LEMMA SendSampleFollows == ASSUME IInv, SendSample PROVE Follows
<1>1. CASE Die /\ pc = "rows" /\ row <= Len(dst)
  <2>1. dst # <<>>
    BY <1>1, Facts
  <2> QED BY <1>1, <2>1, DieFollows
<1>2. ASSUME AtSample, Past,
             refused' => \/ refused
                         \/ \E old \in seen : /\ old.family = RowMetric(row, next).family
                                              /\ old.labels = RowMetric(row, next).labels
      PROVE  Follows
  <2>1. /\ pc = "rows" /\ row <= Len(dst) /\ ~Skips(dst[row])
        /\ next <= Len(Samples(dst[row]))
    BY <1>2 DEF AtSample
  <2>2. row \in Kept /\ next \in 1..Len(Samples(dst[row])) /\ Len(dst) \in Nat
          /\ row \in Nat
    <3>1. /\ Len(dst) \in Nat /\ row \in Nat \ {0} /\ DOMAIN dst = 1..Len(dst)
          /\ next \in Nat \ {0} /\ Len(Samples(dst[row])) \in Nat
      BY Facts, KeptRange, AlikeRows
    <3> QED BY <2>1, <3>1 DEF Kept
  <2>3. ASSUME NEW old \in seen, old.family = RowMetric(row, next).family,
               old.labels = RowMetric(row, next).labels
        PROVE  \E j \in Kept : j < row /\ LabelOf(dst[j]) = LabelOf(dst[row])
    <3>1. PICK j \in Kept : \E n \in 1..Len(Samples(dst[j])) :
            Passed(j, n) /\ old = RowMetric(j, n)
      BY <2>1, <2>2, KeptRange, Facts DEF IInv, SeenFrom
    <3>2. PICK n \in 1..Len(Samples(dst[j])) : Passed(j, n) /\ old = RowMetric(j, n)
      BY <3>1
    <3>3. Samples(dst[j])[n].family = Samples(dst[row])[next].family
      BY <2>3, <3>2, LabelsOfMetric
    <3>4. LabelOf(dst[j]) \o Samples(dst[j])[n].own
            = LabelOf(dst[row]) \o Samples(dst[row])[next].own
      <4>1. RowMetric(j, n).labels = LabelOf(dst[j]) \o Samples(dst[j])[n].own
        BY LabelsOfMetric, Zenon
      <4>2. RowMetric(row, next).labels = LabelOf(dst[row]) \o Samples(dst[row])[next].own
        BY LabelsOfMetric, Zenon
      <4> QED BY <2>3, <3>2, <4>1, <4>2, Zenon
    <3>5. LabelOf(dst[j]) = LabelOf(dst[row]) /\ n = next
      <4>1. coll \in Factories /\ next \in 1..Len(Samples(dst[row]))
        BY <2>2, Facts
      <4>2. SameSample(dst[j], n, dst[row], next)
        BY <3>3, <3>4 DEF SameSample
      <4> QED BY <4>1, <4>2, SameLabels
    <3>6. j < row
      BY <3>2, <3>5, Facts DEF Passed
    <3> QED BY <3>5, <3>6
  <2>4. refused' => \/ refused
                    \/ \E j \in Kept : j < row /\ LabelOf(dst[j]) = LabelOf(dst[row])
    BY <1>2, <2>3
  <2>5. ASSUME next # 1, refused' PROVE refused
    <3>1. next > 1
      BY <2>5, Facts
    <3>2. Begun(row)
      BY <3>1 DEF Begun
    <3> QED BY <2>2, <2>4, <2>5, <3>2 DEF IInv, Collided
  <2> QED BY <1>2, <2>4, <2>5, PastFollows
<1> QED BY <1>1, <1>2, SampleSent

\* An export is refused if one before it has its name, and for no other reason.
LEMMA SendExportFollows == ASSUME IInv, SendExport PROVE Follows
<1> DEFINE x == ExportItem(next)
           m == ExportMetric(next)
           s == SentExports
<1>1. /\ pc = "exports" /\ next <= Len(conf.names) /\ row > Len(dst) /\ coll \in Template
      /\ refused' = (refused \/ Refuses(m)) /\ next' = next + 1
      /\ UNCHANGED <<coll, conf, pc, dst, row>>
  BY ExportSent
<1>2. /\ Len(dst) \in Nat /\ row \in Nat \ {0} /\ next \in Nat \ {0}
      /\ Kept \subseteq 1..Len(dst)
      /\ Len(conf.names) \in Nat /\ DOMAIN conf.names = 1..Len(conf.names)
  BY Facts, KeptRange
<1>3. \A i \in DOMAIN conf.names : i \in s <=> i < next
  BY <1>1 DEF SentExports
<1>4. next \in DOMAIN conf.names \ s
  BY <1>1, <1>2, <1>3
<1>5. SentExports' = s \cup {next}
  <2>1. \A i \in DOMAIN conf.names : i < next' <=> i < next \/ i = next
    BY <1>1, <1>2
  <2> QED BY <1>1, <1>4, <2>1 DEF SentExports
<1>6. BegunRows' = BegunRows
  <2>1. \A i \in Kept : Begun(i) /\ Begun(i)'
    BY <1>1, <1>2 DEF Begun
  <2> QED BY <1>1, <2>1, Frame DEF BegunRows
<1> DEFINE b == BegunRows
<1>7. /\ Shown' = Labels(b, s \cup {next})
      /\ Todo' = IF pc' \in {"query", "dead"} /\ dst = <<>>
           THEN {} ELSE Remaining(b, s \cup {next})
  BY <1>1, <1>5, <1>6, BarFrame
<1>8. Shown = Labels(b, s) /\ Todo = Remaining(b, s)
  BY <1>1, BarsNow
<1>9. /\ x \in Remaining(b, s)
      /\ Remaining(b, s \cup {next}) = Remaining(b, s) \ {x}
      /\ Labels(b, s \cup {next}) = Labels(b, s) \cup {x.label}
      /\ x.label \in Labels(b, s) <=> \E j \in s : conf.names[j] = conf.names[next]
  <2>1. Shows(b, s, next)
    BY <1>4, ExportShown
  <2> QED BY <2>1 DEF Shows
<1>10. Refuses(m) <=> \E j \in s : conf.names[j] = conf.names[next]
  <2>0. m.family = conf.names[next] /\ m.labels = <<>>
    BY ExportFields
  <2>1. ASSUME Refuses(m) PROVE \E j \in s : conf.names[j] = conf.names[next]
    <3>1. PICK old \in seen : old.family = m.family
      BY <2>1 DEF Refuses
    <3>2. old.family \in Exported
      BY <1>4, <2>0, <3>1 DEF Exported
    <3>3. PICK n \in DOMAIN conf.names : row > Len(dst) /\ n < next
            /\ old = ExportMetric(n)
      BY <1>1, <3>2, SeenExport
    <3>4. old.family = conf.names[n]
      BY <3>3, ExportFields
    <3> QED BY <1>3, <2>0, <3>1, <3>3, <3>4
  <2>2. ASSUME NEW j \in s, conf.names[j] = conf.names[next] PROVE Refuses(m)
    <3>1. j \in DOMAIN conf.names /\ j < next
      BY <1>3 DEF SentExports
    <3>2. PICK old \in seen : old.family = conf.names[j]
      BY <1>1, <3>1 DEF IInv, SeenAll
    <3>3. old.family \in Exported
      BY <3>1, <3>2 DEF Exported
    <3>4. PICK n \in DOMAIN conf.names : old = ExportMetric(n)
      BY <1>1, <3>3, SeenExport
    <3>5. old.labels = <<>>
      BY <3>4, ExportFields
    <3> QED BY <2>0, <2>2, <3>2, <3>5 DEF Refuses
  <2> QED BY <2>1, <2>2
<1>11. refused \in BOOLEAN /\ refused' \in BOOLEAN
  <2>1. refused \in BOOLEAN
    BY DEF IInv, TypeOK
  <2> QED BY <1>1, <2>1 DEF Refuses
<1>12. Phase = "sending" /\ Phase' = "sending"
  BY <1>1 DEF Phase
<1> HIDE DEF x, s, b, m
<1>13. Todo' = Todo \ {x} /\ x \in Todo /\ Shown' = Shown \cup {x.label}
  BY <1>1, <1>7, <1>8, <1>9
<1>14. refused' <=> refused \/ x.label \in Shown
  BY <1>1, <1>8, <1>9, <1>10
<1>15. ShownOf(x)
  BY <1>12, <1>13, <1>14 DEF ShownOf
<1> QED BY <1>11, <1>15, ShowFollows

\* Every step is a step of the abstract run or a stuttering one.
LEMMA StepFollows == ASSUME IInv, [Next]_vars PROVE Follows
<1>1. CASE QueryFails
  BY <1>1, QueryFailsFollows
<1>2. CASE QueryReturns
  BY <1>2, QueryReturnsFollows
<1>3. CASE NoFirstRow
  BY <1>3, NoFirstRowFollows
<1>4. CASE Skip
  BY <1>4, SkipFollows
<1>5. CASE PassOver
  BY <1>5, PassOverFollows
<1>6. CASE SendSample
  BY <1>6, SendSampleFollows
<1>7. CASE NextRow
  BY <1>7, NextRowFollows
<1>8. CASE RowsEnd
  BY <1>8, RowsEndFollows
<1>9. CASE SendExport
  BY <1>9, SendExportFollows
<1>10. CASE ExportsEnd
  BY <1>10, ExportsEndFollows
<1>11. CASE UNCHANGED vars
  BY <1>11, RestFollows
<1> QED
  BY <1>1, <1>2, <1>3, <1>4, <1>5, <1>6, <1>7, <1>8, <1>9, <1>10, <1>11 DEF Next, Rest

\* The initial states are its initial states.
LEMMA StartFollows == ASSUME Init PROVE Seen!Init
<1>1. IInv
  BY Start
<1>2. /\ pc = "query" /\ dst = <<>> /\ row = 1 /\ next = 1 /\ refused = FALSE
  BY DEF Init
<1>3. BegunRows = {} /\ SentExports = {}
  BY <1>1, <1>2, BegunNow
<1>4. Shown = {} /\ Todo = {}
  BY <1>2, <1>3, BarsNow, Nothing
<1>5. Phase = "query"
  BY <1>2 DEF Phase
<1> QED BY <1>2, <1>4, <1>5 DEF Seen!Init

\* A collector's run is a run of module Collection, by which module Scrape takes it:
\* every row kept and every export is shown once, and Gather refuses one if and only
\* if one of the same label was shown before.  The fields, the descriptors and the
\* samples of a row add nothing to that.
THEOREM Refines == Spec => ImplementsCollection
<1>1. Init => Seen!Init
  BY StartFollows
<1>2. IInv /\ [Next]_vars => [Seen!Next]_(Seen!vars)
  BY StepFollows DEF Follows
<1> QED BY <1>1, <1>2, Invariance, PTL DEF Spec, ImplementsCollection, Seen!Spec
=============================================================================
