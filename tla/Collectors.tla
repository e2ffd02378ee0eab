----------------------------- MODULE Collectors -----------------------------
(***************************************************************************)
(* One run of one collector's collect (collector/): the query's rows, the  *)
(* filter of the collector, the samples it sends for each row, one by one, *)
(* and Gather, which refuses a sample whose family has another type or     *)
(* already has its label values.                                           *)
(*                                                                         *)
(* A sample is its metric family, its label values and the field of the    *)
(* WMI row that it shows; the arithmetic on the field's value (ticks to    *)
(* seconds, KiB to bytes, Windows time to Unix time) is left out.  A family *)
(* is known by the name of its descriptor.  Families of two collectors     *)
(* have different names, so that collectors do not meet in Gather: what    *)
(* they do to each other is in module Scrape.  The AWS tag labels, the     *)
(* same in every sample of cpu and the templates, are in module TagLabels. *)
(***************************************************************************)
EXTENDS Naturals, Sequences, FiniteSets

CONSTANTS
  Names,      \* Names[c]: instances the class of collector c may have
  Listed,     \* Listed[c]: those that match the whitelist, not the blacklist
  Mangled,    \* Mangled[n]: NIC n with _ for what is no letter or digit
  Exports,    \* a template's configurations: [drop, names, counters], names its
              \* ExportNames, counters the places of those with MetricType "Counter"
  MaxRows     \* bound: the rows of a query

Rowed    == {"cpu", "iis", "logical_disk", "net", "service", "tcpu"}
Single   == {"cs", "dns", "os", "system"}
Template == {"tcpu", "test"}
Factories == Rowed \cup Single \cup Template

ASSUME NamesAssumption ==
  /\ DOMAIN Names = Rowed /\ DOMAIN Listed = {"iis", "logical_disk", "net"}
  /\ Names["net"] \subseteq DOMAIN Mangled /\ MaxRows \in Nat
ASSUME ExportsAssumption ==
  \A e \in Exports : e.drop \in BOOLEAN /\ e.names \in Seq(STRING)

\* The families of test are called otherwise than the descriptors are kept: Test1
\* is test1.  An ExportName that is one of these names, for which Gather refuses the
\* export because of its help (registry.go:469), is left out.
ASSUME ExportNamesAssumption ==
  \A e \in Exports : \A i \in DOMAIN e.names :
    e.names[i] \notin {"test1", "test2", "test3", "test4", "test5", "test6", "test7"}

-----------------------------------------------------------------------------
(* The descriptors: the label names of each family.                        *)

Described(families, names) == [f \in families |-> names]

\* A table and, for other families, the next one.
f ++ g == [x \in DOMAIN f \cup DOMAIN g |-> IF x \in DOMAIN f THEN f[x] ELSE g[x]]

CPUDesc ==
  Described({"cstate_seconds_total"}, <<"core", "state">>) ++
  Described({"time_total"}, <<"core", "mode">>) ++
  Described({"interrupts_total", "dpcs_total"}, <<"core">>)

TCPUDesc == CPUDesc ++ Described({"raw_metrics"}, <<"core", "wminame">>)

CSDesc == Described({"LogicalProcessors", "PhysicalMemoryBytes"}, <<>>)

DNSTransferDesc ==
  Described({"ZoneTransferRequestsReceived", "ZoneTransferRequestsSent",
    "ZoneTransferResponsesReceived", "ZoneTransferSuccessSent"}, <<"qtype">>) ++
  Described({"ZoneTransferSuccessReceived"}, <<"qtype", "protocol">>) ++
  Described({"ZoneTransferFailures"}, <<>>)

DNSUpdateDesc ==
  Described({"MemoryUsedBytes"}, <<"area">>) ++
  Described({"DynamicUpdatesReceived"}, <<"operation">>) ++
  Described({"DynamicUpdatesFailures"}, <<"reason">>) ++
  Described({"DynamicUpdatesQueued"}, <<>>)

DNSQueryDesc ==
  Described({"Queries", "Responses"}, <<"protocol">>) ++
  Described({"WinsQueries", "WinsResponses"}, <<"direction">>) ++
  Described({"NotifyReceived", "NotifySent", "SecureUpdateFailures",
    "SecureUpdateReceived", "RecursiveQueries", "RecursiveQueryFailures",
    "RecursiveQuerySendTimeouts", "UnmatchedResponsesReceived"}, <<>>)

DNSDesc == DNSTransferDesc ++ DNSUpdateDesc ++ DNSQueryDesc

IISDesc ==
  Described({"CurrentAnonymousUsers", "CurrentBlockedAsyncIORequests",
    "CurrentCGIRequests", "CurrentConnections", "CurrentISAPIExtensionRequests",
    "CurrentNonAnonymousUsers"}, <<"site">>) ++
  Described({"TotalBytesReceived", "TotalBytesSent", "TotalAnonymousUsers",
    "TotalBlockedAsyncIORequests", "TotalCGIRequests",
    "TotalConnectionAttemptsAllInstances", "TotalFilesReceived", "TotalFilesSent",
    "TotalISAPIExtensionRequests", "TotalLockedErrors", "TotalLogonAttempts",
    "TotalNonAnonymousUsers", "TotalNotFoundErrors", "TotalRejectedAsyncIORequests"},
    <<"site">>) ++
  Described({"TotalRequests"}, <<"site", "method">>)

DiskDesc ==
  Described({"RequestsQueued", "ReadBytesTotal", "ReadsTotal", "WriteBytesTotal",
    "WritesTotal", "ReadTime", "WriteTime", "TotalSpace", "FreeSpace", "IdleTime",
    "SplitIOs"}, <<"volume">>)

NetDesc ==
  Described({"BytesReceivedTotal", "BytesSentTotal", "BytesTotal",
    "PacketsOutboundDiscarded", "PacketsOutboundErrors", "PacketsTotal",
    "PacketsReceivedDiscarded", "PacketsReceivedErrors", "PacketsReceivedTotal",
    "PacketsReceivedUnknown", "PacketsSentTotal"}, <<"nic">>)

OSDesc ==
  Described({"PagingLimitBytes", "PagingFreeBytes", "PhysicalMemoryFreeBytes",
    "Processes", "ProcessesLimit", "ProcessMemoryLimitBytes", "Users",
    "VirtualMemoryBytes", "VisibleMemoryBytes", "VirtualMemoryFreeBytes"}, <<>>)

ServiceDesc ==
  Described({"State"}, <<"name", "state">>) ++
  Described({"StartMode"}, <<"name", "start_mode">>)

SystemDesc ==
  Described({"ContextSwitchesTotal", "ExceptionDispatchesTotal",
    "ProcessorQueueLength", "SystemCallsTotal", "SystemUpTime", "Threads"}, <<>>)

\* Mutant: the second label is forgotten.
TestDescOneLabel ==
  Described({"Test1", "Test2", "Test3", "Test4", "Test5", "Test6", "Test7"}, <<"core">>)

TestDesc ==
  Described({"Test1", "Test2", "Test3", "Test4", "Test5", "Test6", "Test7"},
            <<"core", "state">>)

-----------------------------------------------------------------------------
(* The samples of a row: family, the label values after the row's own, type *)
(* and the field shown.                                                     *)

Sample(family, own, type, field) ==
  [family |-> family, own |-> own, type |-> type, shows |-> field]
Gauge(family, own, field)   == Sample(family, own, "gauge", field)
Counter(family, own, field) == Sample(family, own, "counter", field)

\* Families without further labels, and those called like the field they show.
Plain(type, shown) ==
  [i \in DOMAIN shown |-> Sample(shown[i][1], <<>>, type, shown[i][2])]
SameName(type, fields) ==
  [i \in DOMAIN fields |-> Sample(fields[i], <<>>, type, fields[i])]

\* Mutant: the label of the first idle state is pasted for the second.
CStatesSameLabel == <<
  Gauge("cstate_seconds_total", <<"c1">>, "PercentC1Time"),
  Gauge("cstate_seconds_total", <<"c1">>, "PercentC2Time"),
  Gauge("cstate_seconds_total", <<"c3">>, "PercentC3Time") >>

\* Mutant: the field of the first idle state is pasted for the second.
CStatesSameField == <<
  Gauge("cstate_seconds_total", <<"c1">>, "PercentC1Time"),
  Gauge("cstate_seconds_total", <<"c2">>, "PercentC1Time"),
  Gauge("cstate_seconds_total", <<"c3">>, "PercentC3Time") >>

CStates == <<
  Gauge("cstate_seconds_total", <<"c1">>, "PercentC1Time"),
  Gauge("cstate_seconds_total", <<"c2">>, "PercentC2Time"),
  Gauge("cstate_seconds_total", <<"c3">>, "PercentC3Time") >>

CPUTimes == <<
  Gauge("time_total", <<"idle">>, "PercentIdleTime"),
  Gauge("time_total", <<"interrupt">>, "PercentInterruptTime"),
  Gauge("time_total", <<"dpc">>, "PercentDPCTime"),
  Gauge("time_total", <<"privileged">>, "PercentPrivilegedTime"),
  Gauge("time_total", <<"user">>, "PercentUserTime") >>

CPUCounts ==
  Plain("counter", << <<"interrupts_total", "InterruptsPersec">>,
    <<"dpcs_total", "DPCsQueuedPersec">> >>)

CPUSamples == CStates \o CPUTimes \o CPUCounts

RawFields ==
  <<"PercentUserTime", "PercentIdleTime", "PercentDPCTime", "PercentC3Time",
    "PercentC2Time", "PercentC1Time", "PercentInterruptTime",
    "PercentPrivilegedTime", "PercentProcessorTime">>

RawSamples ==
  [i \in DOMAIN RawFields |-> Gauge("raw_metrics", <<RawFields[i]>>, RawFields[i])]

\* The sections of cpu, and the fields as they are.
TCPUSamples == CPUSamples \o RawSamples

\* Mutant: a descriptor is never sent.
CSSamplesForgets ==
  Plain("gauge", << <<"LogicalProcessors", "NumberOfLogicalProcessors">> >>)

CSSamples ==
  Plain("gauge", << <<"LogicalProcessors", "NumberOfLogicalProcessors">>,
    <<"PhysicalMemoryBytes", "TotalPhysicalMemory">> >>)

DNSTransfers == <<
  Counter("ZoneTransferRequestsReceived", <<"full">>, "AXFRRequestReceived"),
  Counter("ZoneTransferRequestsReceived", <<"incremental">>, "IXFRRequestReceived"),
  Counter("ZoneTransferRequestsSent", <<"full">>, "AXFRRequestSent"),
  Counter("ZoneTransferRequestsSent", <<"incremental">>, "IXFRRequestSent"),
  Counter("ZoneTransferRequestsSent", <<"soa">>, "ZoneTransferSOARequestSent"),
  Counter("ZoneTransferResponsesReceived", <<"full">>, "AXFRResponseReceived"),
  Counter("ZoneTransferResponsesReceived", <<"incremental">>, "IXFRResponseReceived"),
  Counter("ZoneTransferSuccessReceived", <<"full", "tcp">>, "AXFRSuccessReceived"),
  Counter("ZoneTransferSuccessReceived", <<"incremental", "tcp">>,
          "IXFRTCPSuccessReceived"),
  Counter("ZoneTransferSuccessReceived", <<"incremental", "udp">>,
          "IXFRTCPSuccessReceived"),
  Counter("ZoneTransferSuccessSent", <<"full">>, "AXFRSuccessSent"),
  Counter("ZoneTransferSuccessSent", <<"incremental">>, "IXFRSuccessSent"),
  Counter("ZoneTransferFailures", <<>>, "ZoneTransferFailure") >>

DNSMemoryAndUpdates == <<
  Gauge("MemoryUsedBytes", <<"caching">>, "CachingMemory"),
  Gauge("MemoryUsedBytes", <<"database_node">>, "DatabaseNodeMemory"),
  Gauge("MemoryUsedBytes", <<"nbstat">>, "NbstatMemory"),
  Gauge("MemoryUsedBytes", <<"record_flow">>, "RecordFlowMemory"),
  Gauge("MemoryUsedBytes", <<"tcp_message">>, "TCPMessageMemory"),
  Gauge("MemoryUsedBytes", <<"udp_message">>, "UDPMessageMemory"),
  Counter("DynamicUpdatesReceived", <<"noop">>, "DynamicUpdateNoOperation"),
  Counter("DynamicUpdatesReceived", <<"written">>, "DynamicUpdateWrittentoDatabase"),
  Gauge("DynamicUpdatesQueued", <<>>, "DynamicUpdateQueued"),
  Counter("DynamicUpdatesFailures", <<"rejected">>, "DynamicUpdateRejected"),
  Counter("DynamicUpdatesFailures", <<"timeout">>, "DynamicUpdateTimeOuts") >>

DNSQueries == <<
  Counter("NotifyReceived", <<>>, "NotifyReceived"),
  Counter("NotifySent", <<>>, "NotifySent"),
  Counter("RecursiveQueries", <<>>, "RecursiveQueries"),
  Counter("RecursiveQueryFailures", <<>>, "RecursiveQueryFailure"),
  Counter("RecursiveQuerySendTimeouts", <<>>, "RecursiveSendTimeOuts"),
  Counter("Queries", <<"tcp">>, "TCPQueryReceived"),
  Counter("Queries", <<"udp">>, "UDPQueryReceived"),
  Counter("Responses", <<"tcp">>, "TCPResponseSent"),
  Counter("Responses", <<"udp">>, "UDPResponseSent"),
  Counter("UnmatchedResponsesReceived", <<>>, "UnmatchedResponsesReceived"),
  Counter("WinsQueries", <<"forward">>, "WINSLookupReceived"),
  Counter("WinsQueries", <<"reverse">>, "WINSReverseLookupReceived"),
  Counter("WinsResponses", <<"forward">>, "WINSResponseSent"),
  Counter("WinsResponses", <<"reverse">>, "WINSReverseResponseSent"),
  Counter("SecureUpdateFailures", <<>>, "SecureUpdateFailure"),
  Counter("SecureUpdateReceived", <<>>, "SecureUpdateReceived") >>

DNSSamples == DNSTransfers \o DNSMemoryAndUpdates \o DNSQueries

IISGauges ==
  SameName("gauge", <<"CurrentAnonymousUsers", "CurrentBlockedAsyncIORequests",
    "CurrentCGIRequests", "CurrentConnections", "CurrentISAPIExtensionRequests",
    "CurrentNonAnonymousUsers">>)

IISCounters ==
  SameName("counter", <<"TotalBytesReceived", "TotalBytesSent",
    "TotalAnonymousUsers", "TotalBlockedAsyncIORequests",
    "TotalRejectedAsyncIORequests", "TotalCGIRequests",
    "TotalConnectionAttemptsAllInstances", "TotalFilesReceived", "TotalFilesSent",
    "TotalLockedErrors", "TotalLogonAttempts", "TotalNonAnonymousUsers",
    "TotalNotFoundErrors", "TotalISAPIExtensionRequests">>)

Methods == <<
  <<"other", "TotalOtherRequestMethods">>, <<"COPY", "TotalCopyRequests">>,
  <<"DELETE", "TotalDeleteRequests">>, <<"GET", "TotalGetRequests">>,
  <<"HEAD", "TotalHeadRequests">>, <<"LOCK", "TotalLockRequests">>,
  <<"MKCOL", "TotalMkcolRequests">>, <<"MOVE", "TotalMoveRequests">>,
  <<"OPTIONS", "TotalOptionsRequests">>, <<"POST", "TotalPostRequests">>,
  <<"PROPFIND", "TotalPropfindRequests">>, <<"PROPPATCH", "TotalProppatchRequests">>,
  <<"PUT", "TotalPutRequests">>, <<"SEARCH", "TotalSearchRequests">>,
  <<"TRACE", "TotalTraceRequests">>, <<"UNLOCK", "TotalUnlockRequests">> >>
IISRequests ==
  [i \in DOMAIN Methods |-> Counter("TotalRequests", <<Methods[i][1]>>, Methods[i][2])]

IISSamples == IISGauges \o IISCounters \o IISRequests

DiskSamples == <<
  Gauge("RequestsQueued", <<>>, "CurrentDiskQueueLength"),
  Counter("ReadBytesTotal", <<>>, "DiskReadBytesPerSec"),
  Counter("ReadsTotal", <<>>, "DiskReadsPerSec"),
  Counter("WriteBytesTotal", <<>>, "DiskWriteBytesPerSec"),
  Counter("WritesTotal", <<>>, "DiskWritesPerSec"),
  Counter("ReadTime", <<>>, "PercentDiskReadTime"),
  Counter("WriteTime", <<>>, "PercentDiskWriteTime"),
  Gauge("FreeSpace", <<>>, "PercentFreeSpace"),
  Gauge("TotalSpace", <<>>, "PercentFreeSpace_Base"),
  Counter("IdleTime", <<>>, "PercentIdleTime"),
  Counter("SplitIOs", <<>>, "SplitIOPerSec") >>

NetSamples ==
  Plain("counter", << <<"BytesReceivedTotal", "BytesReceivedPerSec">>,
    <<"BytesSentTotal", "BytesSentPerSec">>, <<"BytesTotal", "BytesTotalPerSec">>,
    <<"PacketsOutboundDiscarded", "PacketsOutboundDiscarded">>,
    <<"PacketsOutboundErrors", "PacketsOutboundErrors">>,
    <<"PacketsTotal", "PacketsPerSec">>,
    <<"PacketsReceivedDiscarded", "PacketsReceivedDiscarded">>,
    <<"PacketsReceivedErrors", "PacketsReceivedErrors">>,
    <<"PacketsReceivedTotal", "PacketsReceivedPerSec">>,
    <<"PacketsReceivedUnknown", "PacketsReceivedUnknown">>,
    <<"PacketsSentTotal", "PacketsSentPerSec">> >>)

OSSamples ==
  Plain("gauge", << <<"PhysicalMemoryFreeBytes", "FreePhysicalMemory">>,
    <<"PagingFreeBytes", "FreeSpaceInPagingFiles">>,
    <<"VirtualMemoryFreeBytes", "FreeVirtualMemory">>,
    <<"ProcessesLimit", "MaxNumberOfProcesses">>,
    <<"ProcessMemoryLimitBytes", "MaxProcessMemorySize">>,
    <<"Processes", "NumberOfProcesses">>, <<"Users", "NumberOfUsers">>,
    <<"PagingLimitBytes", "SizeStoredInPagingFiles">>,
    <<"VirtualMemoryBytes", "TotalVirtualMemorySize">>,
    <<"VisibleMemoryBytes", "TotalVisibleMemorySize">> >>)

SystemSamples ==
  Plain("gauge", << <<"ContextSwitchesTotal", "ContextSwitchesPersec">>,
    <<"ExceptionDispatchesTotal", "ExceptionDispatchesPersec">>,
    <<"ProcessorQueueLength", "ProcessorQueueLength">>,
    <<"SystemCallsTotal", "SystemCallsPersec">>, <<"SystemUpTime", "SystemUpTime">>,
    <<"Threads", "Threads">> >>)

TestSamples ==
  LET states == <<"c1", "c2", "c3", "idle", "interrupt", "dpc", "privileged">>
      names  == <<"Test1", "Test2", "Test3", "Test4", "Test5", "Test6", "Test7">>
      fields == <<"test1", "test2", "test3", "test4", "test5", "test6", "test7">>
  IN  [i \in 1..7 |-> Gauge(names[i], <<states[i]>>, fields[i])]

\* What WMI writes with a capital, and the same in lower case.
Lower(word)   == [word |-> word, capital |-> FALSE]
Capital(word) == [word |-> word, capital |-> TRUE]
ToLower(text) == [text EXCEPT !.capital = FALSE]

allStates == <<"stopped", "start pending", "stop pending", "running",
  "continue pending", "pause pending", "paused", "unknown">>
allStartModes == <<"boot", "system", "auto", "manual", "disabled">>
TextsOf(words) == {Capital(words[i]) : i \in DOMAIN words}

\* Mutant: the case of the letters is left as it is.
OneOfAsWritten(family, words, current) ==
  [i \in DOMAIN words |->
     Gauge(family, <<words[i]>>, Lower(words[i]) = current)]

\* 1 for the current word and 0 for the others.
OneOf(family, words, current) ==
  [i \in DOMAIN words |->
     Gauge(family, <<words[i]>>, Lower(words[i]) = ToLower(current))]

ServiceSamples(service) ==
  OneOf("State", allStates, service.state) \o
  OneOf("StartMode", allStartModes, service.mode)

-----------------------------------------------------------------------------
VARIABLES
  coll,     \* the collector
  conf,     \* its configuration, if it is a template
  pc,       \* "query", "rows", "exports", "returned" or "dead"
  dst,      \* the rows of the query
  row,      \* the index in dst, and
  next,     \* the next sample of that row, or the next of the exports
  seen,     \* what Gather has accepted
  refused,  \* Gather has refused a sample
  result    \* execute's result

vars == <<coll, conf, pc, dst, row, next, seen, refused, result>>

DescOf(c) ==
  CASE c = "cpu" -> CPUDesc [] c = "cs" -> CSDesc [] c = "dns" -> DNSDesc
    [] c = "iis" -> IISDesc [] c = "logical_disk" -> DiskDesc [] c = "net" -> NetDesc
    [] c = "os" -> OSDesc [] c = "service" -> ServiceDesc [] c = "system" -> SystemDesc
    [] c = "tcpu" -> TCPUDesc [] c = "test" -> TestDesc

\* A template's own descriptors, unless they are dropped, under those of its
\* ExportedMetrics, which have no labels of their own.
Exported == {conf.names[i] : i \in DOMAIN conf.names}
Desc ==
  IF coll \notin Template THEN DescOf(coll)
  ELSE Described(Exported, <<>>) ++ (IF conf.drop THEN <<>> ELSE DescOf(coll))

SamplesOf(c, r) ==
  CASE c = "cpu" -> CPUSamples [] c = "cs" -> CSSamples
    [] c = "dns" -> DNSSamples
    [] c = "iis" -> IISSamples
    [] c = "logical_disk" -> DiskSamples [] c = "net" -> NetSamples
    [] c = "os" -> OSSamples [] c = "service" -> ServiceSamples(r)
    [] c = "system" -> SystemSamples
    [] c = "tcpu" -> TCPUSamples [] c = "test" -> TestSamples

Samples(r) == SamplesOf(coll, r)

\* cpu looks for _Total anywhere in the name, which for its class is the same.
Skips(r) ==
  \/ coll \in {"cpu", "iis", "logical_disk"} /\ r.name = "_Total"
  \/ coll \in DOMAIN Listed /\ r.name \notin Listed[coll]
  \/ coll = "net" /\ Mangled[r.name] = ""

LabelOf(r) == IF coll \in Single THEN <<>>
              ELSE IF coll = "net" THEN <<Mangled[r.name]>> ELSE <<r.name>>

RowsOf(c) ==
  CASE c = "service" -> [name : Names[c], state : TextsOf(allStates),
                         mode : TextsOf(allStartModes)]
    [] c = "test"    -> [name : {"encore"}]
    [] c \in Single  -> [name : {c}]
    [] OTHER         -> [name : Names[c]]

Unconfigured == [drop |-> FALSE, names |-> <<>>, counters |-> {}]

\* What a query may return: every instance once at most, in any order.
Results(c) ==
  {q \in UNION {[1..n -> RowsOf(c)] : n \in 0..MaxRows} :
     /\ \A i, j \in DOMAIN q : q[i].name = q[j].name => i = j
     /\ c = "test" => q # <<>>}

Init ==
  /\ coll \in Factories
  /\ conf \in IF coll \in Template THEN Exports ELSE {Unconfigured}
  /\ pc = "query" /\ dst = <<>> /\ row = 1 /\ next = 1
  /\ seen = {} /\ refused = FALSE /\ result = "none"

\* A panic in the collector's goroutine ends the process.
Die ==
  /\ pc' = "dead"
  /\ UNCHANGED <<coll, conf, dst, row, next, seen, refused, result>>

Finish(outcome) ==
  /\ pc' = "returned" /\ result' = outcome
  /\ UNCHANGED <<coll, conf, dst, row, next, seen, refused>>

\* A template drops the error and goes on with a nil template.
QueryFails ==
  /\ pc = "query" /\ coll # "test"
  /\ \/ coll \notin Template /\ Finish("error")
     \/ coll \in Template /\ conf.names = <<>> /\ Finish("success")
     \/ coll \in Template /\ conf.names # <<>> /\ Die

\* Mutant: the rows are counted from 0.
QueryReturnsFromZero ==
  /\ pc = "query" /\ pc' = "rows"
  /\ dst' \in Results(coll) /\ row' = 0
  /\ UNCHANGED <<coll, conf, next, seen, refused, result>>

QueryReturns ==
  /\ pc = "query" /\ pc' = "rows"
  /\ dst' \in Results(coll)
  /\ UNCHANGED <<coll, conf, row, next, seen, refused, result>>

\* dst[0] of no rows.
NoFirstRow ==
  /\ pc = "rows" /\ coll \in Single /\ dst = <<>>
  /\ Die

Skip ==
  /\ pc = "rows" /\ row <= Len(dst) /\ Skips(dst[row])
  /\ row' = row + 1
  /\ UNCHANGED <<coll, conf, pc, dst, next, seen, refused, result>>

Metric(sample, labels) ==
  [family |-> sample.family, labels |-> labels, type |-> sample.type,
   shows |-> sample.shows]

\* Gather and checkMetricConsistency: one type per family, each label values once.
\* The same help and the same label names are asked for too (registry.go:469, 753),
\* which the samples of one descriptor always have; two descriptors of one family
\* name there are none, by ExportNamesAssumption.
Refuses(m) ==
  \E old \in seen : old.family = m.family /\ (old.type # m.type \/ old.labels = m.labels)

\* ch <- prometheus.MustNewConstMetric(...), received by Gather.
Send(sample, labels) ==
  \/ Len(labels) # Len(Desc[sample.family]) /\ Die
  \/ /\ Len(labels) = Len(Desc[sample.family])
     /\ LET m == Metric(sample, labels)
        IN  /\ refused' = (refused \/ Refuses(m))
            /\ seen' = IF Refuses(m) THEN seen ELSE seen \cup {m}
     /\ next' = next + 1
     /\ UNCHANGED <<coll, conf, pc, dst, row, result>>

\* Only a template asks of a family whether it has a descriptor.
PassOver ==
  /\ pc = "rows" /\ row <= Len(dst) /\ ~Skips(dst[row])
  /\ next <= Len(Samples(dst[row]))
  /\ Samples(dst[row])[next].family \notin DOMAIN Desc
  /\ next' = next + 1
  /\ UNCHANGED <<coll, conf, pc, dst, row, seen, refused, result>>

SendSample ==
  /\ pc = "rows" /\ row <= Len(dst) /\ ~Skips(dst[row])
  /\ next <= Len(Samples(dst[row]))
  /\ LET x == Samples(dst[row])[next]
     IN  x.family \in DOMAIN Desc /\ Send(x, LabelOf(dst[row]) \o x.own)

NextRow ==
  /\ pc = "rows" /\ row <= Len(dst) /\ ~Skips(dst[row])
  /\ next > Len(Samples(dst[row]))
  /\ row' = row + 1 /\ next' = 1
  /\ UNCHANGED <<coll, conf, pc, dst, seen, refused, result>>

RowsEnd ==
  /\ pc = "rows" /\ row > Len(dst) /\ (coll \in Single => dst # <<>>)
  /\ \/ coll \notin Template /\ Finish("success")
     \/ /\ coll \in Template /\ pc' = "exports"
        /\ UNCHANGED <<coll, conf, dst, row, next, seen, refused, result>>

\* getType: any other MetricType than "Counter" makes a gauge.
ExportSample(i) ==
  Sample(conf.names[i], <<>>, IF i \in conf.counters THEN "counter" ELSE "gauge",
         "computed")

\* The ExportedMetrics, in order; what they compute is in TemplateCollector.
SendExport ==
  /\ pc = "exports" /\ next <= Len(conf.names)
  /\ Send(ExportSample(next), <<>>)

ExportsEnd ==
  /\ pc = "exports" /\ next > Len(conf.names)
  /\ Finish("success")

Rest == pc \in {"returned", "dead"} /\ UNCHANGED vars

Next == \/ QueryFails \/ QueryReturns \/ NoFirstRow \/ Skip \/ PassOver \/ SendSample
        \/ NextRow \/ RowsEnd \/ SendExport \/ ExportsEnd \/ Rest

Spec == Init /\ [][Next]_vars

-----------------------------------------------------------------------------
(* Safety.                                                                 *)

TypeOK ==
  /\ coll \in Factories
  /\ coll \in Template => conf \in Exports
  /\ pc \in {"query", "rows", "exports", "returned", "dead"}
  /\ dst = <<>> \/ dst \in Results(coll)
  /\ row \in 1..Len(dst) + 1 /\ next \in Nat \ {0}
  /\ \A m \in seen : m.family \in DOMAIN Desc /\ Len(m.labels) = Len(Desc[m.family])
  /\ refused \in BOOLEAN
  /\ result \in {"none", "success", "error"}

Kept == {i \in DOMAIN dst : ~Skips(dst[i])}
IsOf(m, i) == SubSeq(m.labels, 1, Len(LabelOf(dst[i]))) = LabelOf(dst[i])

\* A run that ends well and whose samples Gather takes has shown every family that
\* its collector describes, for every row the filter keeps: none of the
\* constructors' descriptors is forgotten in collect (iis.go lines 55-193 and
\* 248-503, dns.go lines 44-181 and 235-492, and so on).
EveryFamilyShown ==
  pc = "returned" /\ result = "success" /\ ~refused =>
    \A f \in DOMAIN Desc :
      IF f \in Exported THEN \E m \in seen : m.family = f
      ELSE \A i \in Kept : \E m \in seen : m.family = f /\ IsOf(m, i)

\* Two samples of a row in one family show two fields of that row, so that no
\* number is copied to where another belongs.  There is one exception, in dns.go:
\* line 304 shows under "udp" the field that line 298 shows under "tcp", and
\* IXFRUDPSuccessReceived, which the query asks for, is never shown.
FieldsApart ==
  pc = "returned" /\ coll # "service" =>
    \A m, n \in seen :
      /\ m.family = n.family /\ m.shows = n.shows /\ m.labels # n.labels
      /\ \E i \in Kept : IsOf(m, i) /\ IsOf(n, i)
      => coll = "dns" /\ m.shows = "IXFRTCPSuccessReceived"

\* A collector ends the process for three reasons only: a class without rows under
\* one that reads dst[0] (os.go:131), a template whose query failed, and an
\* ExportName of a template's own family, whose descriptor it replaces
\* (templatedcollector.go:31).  Every other sample has as many label values as its
\* descriptor has names.
DiesOnlyKnown ==
  pc = "dead" =>
    \/ coll \in Single /\ dst = <<>>
    \/ coll \in Template /\ dst = <<>> /\ conf.names # <<>>
    \/ coll \in Template /\ \E f \in Exported : f \in DOMAIN DescOf(coll)

On(family, name) ==
  {m.labels[2] : m \in {n \in seen : n.family = family /\ n.labels[1] = name /\ n.shows}}

\* Of every service, exactly one state and one start mode are shown as 1, those
\* WMI gave it (service.go lines 58-76 and 85-113).
OneStateOn ==
  coll = "service" /\ pc = "returned" =>
    \A i \in DOMAIN dst : /\ On("State", dst[i].name) = {dst[i].state.word}
                          /\ On("StartMode", dst[i].name) = {dst[i].mode.word}

-----------------------------------------------------------------------------
(* Module Scrape takes the samples of a row for one metric with the row's  *)
(* label.  That is what a run is, seen from afar: row by row and export by *)
(* export, refused if and only if two rows, or two exports, are called the *)
(* same.                                                                   *)

RowItem(i)    == [nr |-> i, label |-> <<"row", LabelOf(dst[i])>>]
ExportItem(i) == [nr |-> i, label |-> <<"export", conf.names[i]>>]
Items(rows, exports) ==
  {RowItem(i) : i \in rows} \cup {ExportItem(i) : i \in exports}

Begun(i)      == i < row \/ (i = row /\ next > 1)
BegunRows     == {i \in Kept : Begun(i)}
SentExports   == {i \in DOMAIN conf.names : row > Len(dst) /\ i < next}

Phase == IF pc \in {"rows", "exports"} THEN "sending" ELSE pc
Todo  == IF pc \in {"query", "dead"} /\ dst = <<>> THEN {}
         ELSE Items(Kept \ BegunRows, DOMAIN conf.names \ SentExports)
Shown == {x.label : x \in Items(BegunRows, SentExports)}

Seen == INSTANCE Collection WITH phase <- Phase, todo <- Todo, shown <- Shown

ImplementsCollection == Seen!Spec
=============================================================================
