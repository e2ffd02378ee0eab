--------------------------- MODULE ExporterProofs ---------------------------
(***************************************************************************)
(* Proofs about Exporter, for every set of configurations, any number of   *)
(* controls, and with or without faults of the service API.                *)
(***************************************************************************)
EXTENDS Exporter, TLAPS

-----------------------------------------------------------------------------
(* Types.                                                                  *)

\* A process that dies changes no variable but proc.
LEMMA DieType ==
  ASSUME NEW how \in Ended, TypeOK, Die(how)
  PROVE  TypeOK'
BY DEF Die, TypeOK, ProcessTypes, ServiceTypes, ConsulTypes, tagVars, svcVars,
       consulVars

\* Every action keeps every variable in its type.
LEMMA TypeStep ==
  ASSUME TypeOK, [Next]_vars
  PROVE  TypeOK'
<1> USE ConfigsAssumption, BoundsAssumption DEF TypeOK
<1>1. CASE Startup
  <2>1. CASE LoadConfig
    BY <2>1, DieType DEF LoadConfig, Ended, MainStep, Starting, ProcessTypes,
        ServiceTypes, ConsulTypes, tagVars, svcVars, consulVars
  <2>2. CASE FetchAWSMetadata
    BY <2>2, DieType DEF FetchAWSMetadata, Ended, MainStep, Starting,
        ProcessTypes, ServiceTypes, ConsulTypes, tagVars, svcVars, consulVars
  <2>3. CASE Schedule
    BY <2>3, DieType DEF Schedule, Ended, MainStep, Starting, ProcessTypes,
        ServiceTypes, ConsulTypes, tagVars, svcVars, consulVars
  <2>4. CASE CheckSession
    BY <2>4, DieType DEF CheckSession, Ended, MainStep, Starting,
        ProcessTypes, ServiceTypes, ConsulTypes, tagVars, svcVars, consulVars
  <2>5. CASE SpawnSigint
    BY <2>5 DEF SpawnSigint, MainStep, Starting, ProcessTypes, ServiceTypes,
        ConsulTypes, tagVars, svcVars, consulVars
  <2>6. CASE LoadCollectors
    BY <2>6, DieType DEF LoadCollectors, Ended, MainStep, Starting,
        ProcessTypes, ServiceTypes, ConsulTypes, tagVars, svcVars, consulVars
  <2>7. CASE Register
    <3>1. CASE \E how \in Ended : Die(how)
      BY <3>1, DieType
    <3>2. CASE \A how \in Ended : ~Die(how)
      <4>1. ServiceTypes' BY <2>7, <3>2 DEF Register, Ended, ServiceTypes,
          svcVars
      <4>2. ProcessTypes' BY <2>7, <3>2 DEF Register, Ended, MainStep,
          ProcessTypes, tagVars, Starting
      <4>3. ConsulTypes' BY <2>7, <3>2 DEF Register, Ended, ConsulTypes,
          consulVars, Requests
      <4> QED BY <4>1, <4>2, <4>3
    <3> QED BY <3>1, <3>2
  <2>8. CASE RegisterReturns
    BY <2>8 DEF RegisterReturns, MainStep, Starting, Results, Ended,
        ProcessTypes, ServiceTypes, ConsulTypes, tagVars, svcVars, consulVars
  <2>9. CASE SpawnServer
    BY <2>9 DEF SpawnServer, MainStep, Starting, ProcessTypes, ServiceTypes,
        ConsulTypes, tagVars, svcVars, consulVars
  <2> QED BY <1>1, <2>1, <2>2, <2>3, <2>4, <2>5, <2>6, <2>7, <2>8, <2>9 DEF Startup
<1>2. CASE Shutdown
  <2>1. CASE StopBySigint
    BY <2>1 DEF StopBySigint, MainStep, Stopping, Starting, ProcessTypes,
        ServiceTypes, ConsulTypes, tagVars, svcVars, consulVars
  <2>2. CASE StopByService
    BY <2>2 DEF StopByService, MainStep, Stopping, Starting, ProcessTypes,
        ServiceTypes, ConsulTypes, tagVars, svcVars, consulVars
  <2>3. CASE QuitHandshake
    BY <2>3 DEF QuitHandshake, MainStep, Stopping, Starting, ProcessTypes,
        ServiceTypes, ConsulTypes, tagVars, svcVars, consulVars
  <2>4. CASE DeRegister
    <3>1. CASE \E how \in Ended : Die(how)
      BY <3>1, DieType
    <3>2. CASE \A how \in Ended : ~Die(how)
      <4>1. ServiceTypes' BY <2>4, <3>2 DEF DeRegister, Ended, ServiceTypes,
          svcVars
      <4>2. ProcessTypes' BY <2>4, <3>2 DEF DeRegister, Ended, MainStep,
          ProcessTypes, tagVars, Stopping
      <4>3. ConsulTypes' BY <2>4, <3>2 DEF DeRegister, Ended, ConsulTypes,
          consulVars, Requests
      <4> QED BY <4>1, <4>2, <4>3
    <3> QED BY <3>1, <3>2
  <2>5. CASE DeRegisterReturns
    BY <2>5 DEF DeRegisterReturns, MainStep, Stopping, Starting, Results,
        Ended, ProcessTypes, ServiceTypes, ConsulTypes, tagVars, svcVars,
        consulVars
  <2> QED BY <1>2, <2>1, <2>2, <2>3, <2>4, <2>5 DEF Shutdown
<1>3. CASE Refresher
  <2>1. CASE Tick
    BY <2>1 DEF Tick, ProcessTypes, ServiceTypes, ConsulTypes, tagVars,
        svcVars, consulVars
  <2>2. CASE TakeTick
    <3>1. ProcessTypes' BY <2>2 DEF TakeTick, ProcessTypes
    <3>2. ServiceTypes' BY <2>2 DEF TakeTick, ServiceTypes, svcVars
    <3>3. ConsulTypes' BY <2>2 DEF TakeTick, ConsulTypes, consulVars
    <3> QED BY <3>1, <3>2, <3>3
  <2>3. CASE FetchReturns
    BY <2>3, DieType DEF FetchReturns, Ended, ProcessTypes, ServiceTypes,
        ConsulTypes, tagVars, svcVars, consulVars
  <2> QED BY <1>3, <2>1, <2>2, <2>3 DEF Refresher
<1>4. CASE Listeners
  <2>1. CASE Notify
    BY <2>1 DEF Notify, ProcessTypes, ServiceTypes, ConsulTypes, tagVars,
        svcVars, consulVars
  <2>2. CASE Interrupt
    BY <2>2, DieType DEF Interrupt, Ended, ProcessTypes, ServiceTypes,
        ConsulTypes, tagVars, svcVars, consulVars
  <2>3. CASE Listen
    BY <2>3 DEF Listen, ProcessTypes, ServiceTypes, ConsulTypes, tagVars,
        svcVars, consulVars
  <2>4. CASE ServerFails
    BY <2>4, DieType DEF ServerFails, Ended, ProcessTypes, ServiceTypes,
        ConsulTypes, tagVars, svcVars, consulVars
  <2>5. CASE ScrapePanics
    BY <2>5, DieType DEF ScrapePanics, Ended, ProcessTypes, ServiceTypes,
        ConsulTypes, tagVars, svcVars, consulVars
  <2> QED BY <1>4, <2>1, <2>2, <2>3, <2>4, <2>5 DEF Listeners
<1>5. CASE Service
  <2>1. CASE SvcConnect
    BY <2>1 DEF SvcConnect, otherThanSvc, States, Cmds, ProcessTypes,
        ServiceTypes, ConsulTypes, tagVars, svcVars, consulVars
  <2>2. CASE ReportStartPending
    <3>1. ServiceTypes' BY <2>2 DEF ReportStartPending, Report, BreakLoop,
        otherThanSvc, ServiceTypes, States, Cmds
    <3>2. ProcessTypes' BY <2>2 DEF ReportStartPending, Report, otherThanSvc,
        ProcessTypes, tagVars
    <3>3. ConsulTypes' BY <2>2 DEF ReportStartPending, Report, otherThanSvc,
        ConsulTypes, consulVars
    <3> QED BY <3>1, <3>2, <3>3
  <2>3. CASE ReportRunning
    <3>1. ServiceTypes' BY <2>3 DEF ReportRunning, Report, BreakLoop,
        otherThanSvc, ServiceTypes, States, Cmds
    <3>2. ProcessTypes' BY <2>3 DEF ReportRunning, Report, otherThanSvc,
        ProcessTypes, tagVars
    <3>3. ConsulTypes' BY <2>3 DEF ReportRunning, Report, otherThanSvc,
        ConsulTypes, consulVars
    <3> QED BY <3>1, <3>2, <3>3
  <2>4. CASE AnswerInterrogate
    <3>1. ServiceTypes' BY <2>4 DEF AnswerInterrogate, Report, BreakLoop,
        otherThanSvc, ServiceTypes, States, Cmds
    <3>2. ProcessTypes' BY <2>4 DEF AnswerInterrogate, Report, otherThanSvc,
        ProcessTypes, tagVars
    <3>3. ConsulTypes' BY <2>4 DEF AnswerInterrogate, Report, otherThanSvc,
        ConsulTypes, consulVars
    <3> QED BY <3>1, <3>2, <3>3
  <2>5. CASE ReportStopPending
    <3>1. ServiceTypes' BY <2>5 DEF ReportStopPending, Report, BreakLoop,
        otherThanSvc, ServiceTypes, States, Cmds
    <3>2. ProcessTypes' BY <2>5 DEF ReportStopPending, Report, otherThanSvc,
        ProcessTypes, tagVars
    <3>3. ConsulTypes' BY <2>5 DEF ReportStopPending, Report, otherThanSvc,
        ConsulTypes, consulVars
    <3> QED BY <3>1, <3>2, <3>3
  <2>6. CASE ExecuteExits
    BY <2>6 DEF ExecuteExits, otherThanSvc, States, Cmds, ProcessTypes,
        ServiceTypes, ConsulTypes, tagVars, svcVars, consulVars
  <2>7. CASE TakeControl
    <3>1. ServiceTypes' BY <2>7 DEF TakeControl, BreakLoop, otherThanSvc,
        ServiceTypes, States, Cmds
    <3>2. ProcessTypes' BY <2>7 DEF TakeControl, otherThanSvc, ProcessTypes,
        tagVars
    <3>3. ConsulTypes' BY <2>7 DEF TakeControl, otherThanSvc, ConsulTypes,
        consulVars
    <3> QED BY <3>1, <3>2, <3>3
  <2>8. CASE Deliver
    BY <2>8 DEF Deliver, otherThanSvc, States, Cmds, ProcessTypes,
        ServiceTypes, ConsulTypes, tagVars, svcVars, consulVars
  <2>9. CASE ScmNotices
    BY <2>9 DEF ScmNotices, otherThanSvc, States, Cmds, ProcessTypes,
        ServiceTypes, ConsulTypes, tagVars, svcVars, consulVars
  <2>10. ASSUME NEW cmd \in Cmds, Control(cmd) PROVE TypeOK'
    BY <2>10 DEF Control, otherThanSvc, States, Cmds, ProcessTypes,
        ServiceTypes, ConsulTypes, tagVars, svcVars, consulVars
  <2> QED BY <1>5, <2>1, <2>2, <2>3, <2>4, <2>5, <2>6, <2>7, <2>8, <2>9, <2>10 DEF Service
<1>6. ASSUME NEW m \in Requests, Apply(m) PROVE TypeOK'
  BY <1>6 DEF Apply, Requests, ProcessTypes, ServiceTypes, ConsulTypes,
      tagVars, svcVars, consulVars
<1>7. ASSUME NEW m \in Requests, Lose(m) PROVE TypeOK'
  BY <1>7 DEF Lose, Requests, ProcessTypes, ServiceTypes, ConsulTypes,
      tagVars, svcVars, consulVars
<1>8. CASE UNCHANGED vars
  BY <1>8 DEF vars, ProcessTypes, ServiceTypes, ConsulTypes, tagVars, svcVars,
      consulVars
<1>9. CASE Consul
  BY <1>6, <1>7, <1>9 DEF Consul
<1> HIDE ConfigsAssumption, BoundsAssumption DEF TypeOK
<1> QED BY <1>1, <1>2, <1>3, <1>4, <1>5, <1>8, <1>9 DEF Next, Idle

\* The initial values have their types.
LEMMA InitType ==
  ASSUME Init
  PROVE  TypeOK
<1>1. cfg \in ConfigType
  BY ConfigsAssumption DEF Init
<1>2. cfg.discovery \in BOOLEAN
  BY <1>1 DEF ConfigType
<1>3. ProcessTypes
  BY <1>1 DEF Init, ProcessTypes, Starting
<1>4. ServiceTypes
  <2>1. controls \in 0..MaxControls[cfg]
    BY <1>1, BoundsAssumption DEF Init
  <2> QED BY <2>1 DEF Init, ServiceTypes, States, Cmds
<1>5. catalog \in BOOLEAN
  BY <1>2 DEF Init
<1>6. ConsulTypes
  BY <1>5 DEF Init, ConsulTypes, Results
<1> QED BY <1>3, <1>4, <1>6 DEF TypeOK

\* Every variable stays in the set its declaration names.
THEOREM TypeCorrect == Spec => []TypeOK
BY InitType, TypeStep, PTL DEF Spec

-----------------------------------------------------------------------------
(* The inductive invariant.  StopHandedOver, RefresherQuiesced and           *)
(* StatusHonest are not inductive alone: that StopPending is reported after  *)
(* the hand-over needs to know where Execute is when service.run receives a  *)
(* report, which is StatusFollowsExecute, and the state of the catalog needs *)
(* to know which requests are still in the network, which is RequestsInOrder.*)

IInv == /\ TypeOK /\ StatusFollowsExecute /\ StopHandedOver
        /\ RefresherQuiesced /\ StatusHonest /\ RequestsInOrder

\* Only the two rendezvous on stopCh move main from its wait.
LEMMA HandOverStep ==
  ASSUME TypeOK, StopHandedOver, StatusFollowsExecute, [Next]_vars
  PROVE  StopHandedOver'
<1>1. CASE Startup
  <2>1. CASE LoadConfig
    BY <2>1 DEF LoadConfig, Die, MainStep, StopHandedOver, Starting, Stopping,
        tagVars, svcVars
  <2>2. CASE FetchAWSMetadata
    BY <2>2 DEF FetchAWSMetadata, Die, MainStep, StopHandedOver, Starting,
        Stopping, tagVars, svcVars
  <2>3. CASE Schedule
    BY <2>3 DEF Schedule, Die, MainStep, StopHandedOver, Starting, Stopping,
        tagVars, svcVars
  <2>4. CASE CheckSession
    BY <2>4 DEF CheckSession, Die, MainStep, StopHandedOver, Starting,
        Stopping, tagVars, svcVars
  <2>5. CASE SpawnSigint
    BY <2>5 DEF SpawnSigint, MainStep, StopHandedOver, Starting, Stopping,
        tagVars, svcVars
  <2>6. CASE LoadCollectors
    BY <2>6 DEF LoadCollectors, Die, MainStep, StopHandedOver, Starting,
        Stopping, tagVars, svcVars
  <2>7. CASE Register
    BY <2>7 DEF Register, Die, MainStep, StopHandedOver, Starting, Stopping,
        tagVars, svcVars
  <2>8. CASE RegisterReturns
    BY <2>8 DEF RegisterReturns, MainStep, StopHandedOver, Starting, Stopping,
        tagVars, svcVars
  <2>9. CASE SpawnServer
    BY <2>9 DEF SpawnServer, MainStep, StopHandedOver, Starting, Stopping,
        tagVars, svcVars
  <2> QED BY <1>1, <2>1, <2>2, <2>3, <2>4, <2>5, <2>6, <2>7, <2>8, <2>9 DEF Startup
<1>2. CASE Shutdown
  <2>1. CASE StopBySigint
    BY <2>1 DEF StopBySigint, MainStep, StopHandedOver, Starting, Stopping,
        tagVars, svcVars
  <2>2. CASE StopByService
    BY <2>2 DEF StopByService, MainStep, StopHandedOver, Starting, Stopping,
        tagVars, svcVars
  <2>3. CASE QuitHandshake
    BY <2>3 DEF QuitHandshake, MainStep, StopHandedOver, Starting, Stopping,
        tagVars, svcVars
  <2>4. CASE DeRegister
    BY <2>4 DEF DeRegister, Die, MainStep, StopHandedOver, Starting, Stopping,
        tagVars, svcVars
  <2>5. CASE DeRegisterReturns
    BY <2>5 DEF DeRegisterReturns, MainStep, StopHandedOver, Starting,
        Stopping, tagVars, svcVars
  <2> QED BY <1>2, <2>1, <2>2, <2>3, <2>4, <2>5 DEF Shutdown
<1>3. CASE Refresher
  <2>1. CASE Tick
    BY <2>1 DEF Tick, StopHandedOver, Starting, Stopping, tagVars, svcVars
  <2>2. CASE TakeTick
    BY <2>2 DEF TakeTick, StopHandedOver, Starting, Stopping, tagVars, svcVars
  <2>3. CASE FetchReturns
    BY <2>3 DEF FetchReturns, Die, StopHandedOver, Starting, Stopping,
        tagVars, svcVars
  <2> QED BY <1>3, <2>1, <2>2, <2>3 DEF Refresher
<1>4. CASE Listeners
  <2>1. CASE Notify
    BY <2>1 DEF Notify, StopHandedOver, Starting, Stopping, tagVars, svcVars
  <2>2. CASE Interrupt
    BY <2>2 DEF Interrupt, Die, StopHandedOver, Starting, Stopping, tagVars,
        svcVars
  <2>3. CASE Listen
    BY <2>3 DEF Listen, StopHandedOver, Starting, Stopping, tagVars, svcVars
  <2>4. CASE ServerFails
    BY <2>4 DEF ServerFails, Die, StopHandedOver, Starting, Stopping, tagVars,
        svcVars
  <2>5. CASE ScrapePanics
    BY <2>5 DEF ScrapePanics, Die, StopHandedOver, Starting, Stopping,
        tagVars, svcVars
  <2> QED BY <1>4, <2>1, <2>2, <2>3, <2>4, <2>5 DEF Listeners
<1>5. CASE Service
  <2>1. CASE SvcConnect
    BY <2>1 DEF SvcConnect, otherThanSvc, StatusFollowsExecute, StopHandedOver, Starting, Stopping,
        tagVars, svcVars
  <2>2. CASE ReportStartPending
    BY <2>2 DEF ReportStartPending, Report, BreakLoop, otherThanSvc,
        StopHandedOver, Starting, Stopping, tagVars, svcVars
  <2>3. CASE ReportRunning
    BY <2>3 DEF ReportRunning, Report, BreakLoop, otherThanSvc,
        StopHandedOver, Starting, Stopping, tagVars, svcVars
  <2>4. CASE AnswerInterrogate
    BY <2>4 DEF AnswerInterrogate, Report, BreakLoop, otherThanSvc,
        StopHandedOver, Starting, Stopping, tagVars, svcVars
  <2>5. CASE ReportStopPending
    BY <2>5 DEF ReportStopPending, Report, BreakLoop, otherThanSvc,
        StopHandedOver, Starting, Stopping, tagVars, svcVars
  <2>6. CASE ExecuteExits
    BY <2>6 DEF ExecuteExits, otherThanSvc, StopHandedOver, Starting,
        Stopping, tagVars, svcVars
  <2>7. CASE TakeControl
    BY <2>7 DEF TakeControl, BreakLoop, otherThanSvc, StopHandedOver,
        Starting, Stopping, tagVars, svcVars
  <2>8. CASE Deliver
    BY <2>8 DEF Deliver, otherThanSvc, StopHandedOver, Starting, Stopping,
        tagVars, svcVars
  <2>9. CASE ScmNotices
    BY <2>9 DEF ScmNotices, otherThanSvc, StopHandedOver, Starting, Stopping,
        tagVars, svcVars
  <2>10. ASSUME NEW cmd \in Cmds, Control(cmd) PROVE StopHandedOver'
    BY <2>10 DEF Control, otherThanSvc, StopHandedOver, Starting, Stopping,
        tagVars, svcVars
  <2> QED BY <1>5, <2>1, <2>2, <2>3, <2>4, <2>5, <2>6, <2>7, <2>8, <2>9, <2>10 DEF Service
<1>6. CASE Consul
  <2>1. ASSUME NEW m \in Requests, Apply(m) PROVE StopHandedOver'
    BY <2>1 DEF Apply, StopHandedOver, Starting, Stopping, tagVars, svcVars
  <2>2. ASSUME NEW m \in Requests, Lose(m) PROVE StopHandedOver'
    BY <2>2 DEF Lose, StopHandedOver, Starting, Stopping, tagVars, svcVars
  <2> QED BY <1>6, <2>1, <2>2 DEF Consul
<1>7. CASE UNCHANGED vars
  BY <1>7 DEF vars, StopHandedOver, Starting, Stopping, tagVars, svcVars
<1> QED BY <1>1, <1>2, <1>3, <1>4, <1>5, <1>6, <1>7 DEF Next, Idle

\* Only Schedule starts the refresher, long before quitCh <- true.
LEMMA QuiescedStep ==
  ASSUME TypeOK, RefresherQuiesced, [Next]_vars
  PROVE  RefresherQuiesced'
<1>1. CASE Startup
  <2>1. CASE LoadConfig
    BY <2>1 DEF LoadConfig, Die, MainStep, RefresherQuiesced, PastQuit,
        Starting, Stopping, tagVars, svcVars
  <2>2. CASE FetchAWSMetadata
    BY <2>2 DEF FetchAWSMetadata, Die, MainStep, RefresherQuiesced, PastQuit,
        Starting, Stopping, tagVars, svcVars
  <2>3. CASE Schedule
    BY <2>3 DEF Schedule, Die, MainStep, RefresherQuiesced, PastQuit, Starting,
        Stopping, tagVars, svcVars
  <2>4. CASE CheckSession
    BY <2>4 DEF CheckSession, Die, MainStep, RefresherQuiesced, PastQuit,
        Starting, Stopping, tagVars, svcVars
  <2>5. CASE SpawnSigint
    BY <2>5 DEF SpawnSigint, MainStep, RefresherQuiesced, PastQuit, Starting,
        Stopping, tagVars, svcVars
  <2>6. CASE LoadCollectors
    BY <2>6 DEF LoadCollectors, Die, MainStep, RefresherQuiesced, PastQuit,
        Starting, Stopping, tagVars, svcVars
  <2>7. CASE Register
    BY <2>7 DEF Register, Die, MainStep, RefresherQuiesced, PastQuit,
        Starting, Stopping, tagVars, svcVars
  <2>8. CASE RegisterReturns
    BY <2>8 DEF RegisterReturns, MainStep, RefresherQuiesced, PastQuit,
        Starting, Stopping, tagVars, svcVars
  <2>9. CASE SpawnServer
    BY <2>9 DEF SpawnServer, MainStep, RefresherQuiesced, PastQuit, Starting,
        Stopping, tagVars, svcVars
  <2> QED BY <1>1, <2>1, <2>2, <2>3, <2>4, <2>5, <2>6, <2>7, <2>8, <2>9 DEF Startup
<1>2. CASE Shutdown
  <2>1. CASE StopBySigint
    BY <2>1 DEF StopBySigint, MainStep, RefresherQuiesced, PastQuit, Starting,
        Stopping, tagVars, svcVars
  <2>2. CASE StopByService
    BY <2>2 DEF StopByService, MainStep, RefresherQuiesced, PastQuit,
        Starting, Stopping, tagVars, svcVars
  <2>3. CASE QuitHandshake
    BY <2>3 DEF QuitHandshake, MainStep, RefresherQuiesced, PastQuit,
        Starting, Stopping, tagVars, svcVars
  <2>4. CASE DeRegister
    BY <2>4 DEF DeRegister, Die, MainStep, RefresherQuiesced, PastQuit,
        Starting, Stopping, tagVars, svcVars
  <2>5. CASE DeRegisterReturns
    BY <2>5 DEF DeRegisterReturns, MainStep, RefresherQuiesced, PastQuit,
        Starting, Stopping, tagVars, svcVars
  <2> QED BY <1>2, <2>1, <2>2, <2>3, <2>4, <2>5 DEF Shutdown
<1>3. CASE Refresher
  <2>1. CASE Tick
    BY <2>1 DEF Tick, RefresherQuiesced, PastQuit, Starting, Stopping,
        tagVars, svcVars
  <2>2. CASE TakeTick
    BY <2>2 DEF TakeTick, RefresherQuiesced, PastQuit, Starting, Stopping,
        tagVars, svcVars
  <2>3. CASE FetchReturns
    BY <2>3 DEF FetchReturns, Die, RefresherQuiesced, PastQuit, Starting,
        Stopping, tagVars, svcVars
  <2> QED BY <1>3, <2>1, <2>2, <2>3 DEF Refresher
<1>4. CASE Listeners
  <2>1. CASE Notify
    BY <2>1 DEF Notify, RefresherQuiesced, PastQuit, Starting, Stopping,
        tagVars, svcVars
  <2>2. CASE Interrupt
    BY <2>2 DEF Interrupt, Die, RefresherQuiesced, PastQuit, Starting,
        Stopping, tagVars, svcVars
  <2>3. CASE Listen
    BY <2>3 DEF Listen, RefresherQuiesced, PastQuit, Starting, Stopping,
        tagVars, svcVars
  <2>4. CASE ServerFails
    BY <2>4 DEF ServerFails, Die, RefresherQuiesced, PastQuit, Starting,
        Stopping, tagVars, svcVars
  <2>5. CASE ScrapePanics
    BY <2>5 DEF ScrapePanics, Die, RefresherQuiesced, PastQuit, Starting,
        Stopping, tagVars, svcVars
  <2> QED BY <1>4, <2>1, <2>2, <2>3, <2>4, <2>5 DEF Listeners
<1>5. CASE Service
  <2>1. CASE SvcConnect
    BY <2>1 DEF SvcConnect, otherThanSvc, RefresherQuiesced, PastQuit,
        Starting, Stopping, tagVars, svcVars
  <2>2. CASE ReportStartPending
    BY <2>2 DEF ReportStartPending, Report, BreakLoop, otherThanSvc,
        RefresherQuiesced, PastQuit, Starting, Stopping, tagVars, svcVars
  <2>3. CASE ReportRunning
    BY <2>3 DEF ReportRunning, Report, BreakLoop, otherThanSvc,
        RefresherQuiesced, PastQuit, Starting, Stopping, tagVars, svcVars
  <2>4. CASE AnswerInterrogate
    BY <2>4 DEF AnswerInterrogate, Report, BreakLoop, otherThanSvc,
        RefresherQuiesced, PastQuit, Starting, Stopping, tagVars, svcVars
  <2>5. CASE ReportStopPending
    BY <2>5 DEF ReportStopPending, Report, BreakLoop, otherThanSvc,
        RefresherQuiesced, PastQuit, Starting, Stopping, tagVars, svcVars
  <2>6. CASE ExecuteExits
    BY <2>6 DEF ExecuteExits, otherThanSvc, RefresherQuiesced, PastQuit,
        Starting, Stopping, tagVars, svcVars
  <2>7. CASE TakeControl
    BY <2>7 DEF TakeControl, BreakLoop, otherThanSvc, RefresherQuiesced,
        PastQuit, Starting, Stopping, tagVars, svcVars
  <2>8. CASE Deliver
    BY <2>8 DEF Deliver, otherThanSvc, RefresherQuiesced, PastQuit, Starting,
        Stopping, tagVars, svcVars
  <2>9. CASE ScmNotices
    BY <2>9 DEF ScmNotices, otherThanSvc, RefresherQuiesced, PastQuit,
        Starting, Stopping, tagVars, svcVars
  <2>10. ASSUME NEW cmd \in Cmds, Control(cmd) PROVE RefresherQuiesced'
    BY <2>10 DEF Control, otherThanSvc, RefresherQuiesced, PastQuit, Starting,
        Stopping, tagVars, svcVars
  <2> QED BY <1>5, <2>1, <2>2, <2>3, <2>4, <2>5, <2>6, <2>7, <2>8, <2>9, <2>10 DEF Service
<1>6. CASE Consul
  <2>1. ASSUME NEW m \in Requests, Apply(m) PROVE RefresherQuiesced'
    BY <2>1 DEF Apply, RefresherQuiesced, PastQuit, Starting, Stopping,
        tagVars, svcVars
  <2>2. ASSUME NEW m \in Requests, Lose(m) PROVE RefresherQuiesced'
    BY <2>2 DEF Lose, RefresherQuiesced, PastQuit, Starting, Stopping,
        tagVars, svcVars
  <2> QED BY <1>6, <2>1, <2>2 DEF Consul
<1>7. CASE UNCHANGED vars
  BY <1>7 DEF vars, RefresherQuiesced, PastQuit, Starting, Stopping, tagVars,
      svcVars
<1> QED BY <1>1, <1>2, <1>3, <1>4, <1>5, <1>6, <1>7 DEF Next, Idle

\* Every report moves exec and scm together.
LEMMA FollowsStep ==
  ASSUME TypeOK, StatusFollowsExecute, [Next]_vars
  PROVE  StatusFollowsExecute'
<1>1. CASE Startup
  <2>1. CASE LoadConfig
    BY <2>1 DEF LoadConfig, Die, MainStep, StatusFollowsExecute, Due, svcVars,
        Running, TypeOK, ServiceTypes, ProcessTypes
  <2>2. CASE FetchAWSMetadata
    BY <2>2 DEF FetchAWSMetadata, Die, MainStep, StatusFollowsExecute, Due,
        svcVars, Running, TypeOK, ServiceTypes, ProcessTypes
  <2>3. CASE Schedule
    BY <2>3 DEF Schedule, Die, MainStep, StatusFollowsExecute, Due, svcVars,
        Running, TypeOK, ServiceTypes, ProcessTypes
  <2>4. CASE CheckSession
    BY <2>4 DEF CheckSession, Die, MainStep, StatusFollowsExecute, Due,
        svcVars, Running, TypeOK, ServiceTypes, ProcessTypes
  <2>5. CASE SpawnSigint
    BY <2>5 DEF SpawnSigint, MainStep, StatusFollowsExecute, Due, svcVars,
        Running, TypeOK, ServiceTypes, ProcessTypes
  <2>6. CASE LoadCollectors
    BY <2>6 DEF LoadCollectors, Die, MainStep, StatusFollowsExecute, Due,
        svcVars, Running, TypeOK, ServiceTypes, ProcessTypes
  <2>7. CASE Register
    BY <2>7 DEF Register, Die, MainStep, StatusFollowsExecute, Due, svcVars,
        Running, TypeOK, ServiceTypes, ProcessTypes
  <2>8. CASE RegisterReturns
    BY <2>8 DEF RegisterReturns, MainStep, StatusFollowsExecute, Due, svcVars,
        Running, TypeOK, ServiceTypes, ProcessTypes
  <2>9. CASE SpawnServer
    BY <2>9 DEF SpawnServer, MainStep, StatusFollowsExecute, Due, svcVars,
        Running, TypeOK, ServiceTypes, ProcessTypes
  <2> QED BY <1>1, <2>1, <2>2, <2>3, <2>4, <2>5, <2>6, <2>7, <2>8, <2>9 DEF Startup
<1>2. CASE Shutdown
  <2>1. CASE StopBySigint
    BY <2>1 DEF StopBySigint, MainStep, StatusFollowsExecute, Due, svcVars,
        Running, TypeOK, ServiceTypes, ProcessTypes
  <2>2. CASE StopByService
    BY <2>2 DEF StopByService, MainStep, StatusFollowsExecute, Due, svcVars,
        Running, TypeOK, ServiceTypes, ProcessTypes
  <2>3. CASE QuitHandshake
    BY <2>3 DEF QuitHandshake, MainStep, StatusFollowsExecute, Due, svcVars,
        Running, TypeOK, ServiceTypes, ProcessTypes
  <2>4. CASE DeRegister
    BY <2>4 DEF DeRegister, Die, MainStep, StatusFollowsExecute, Due, svcVars,
        Running, TypeOK, ServiceTypes, ProcessTypes
  <2>5. CASE DeRegisterReturns
    BY <2>5 DEF DeRegisterReturns, MainStep, StatusFollowsExecute, Due,
        svcVars, Running, TypeOK, ServiceTypes, ProcessTypes
  <2> QED BY <1>2, <2>1, <2>2, <2>3, <2>4, <2>5 DEF Shutdown
<1>3. CASE Refresher
  <2>1. CASE Tick
    BY <2>1 DEF Tick, StatusFollowsExecute, Due, svcVars, Running, TypeOK,
        ServiceTypes, ProcessTypes
  <2>2. CASE TakeTick
    BY <2>2 DEF TakeTick, StatusFollowsExecute, Due, svcVars, Running, TypeOK,
        ServiceTypes, ProcessTypes
  <2>3. CASE FetchReturns
    BY <2>3 DEF FetchReturns, Die, StatusFollowsExecute, Due, svcVars,
        Running, TypeOK, ServiceTypes, ProcessTypes
  <2> QED BY <1>3, <2>1, <2>2, <2>3 DEF Refresher
<1>4. CASE Listeners
  <2>1. CASE Notify
    BY <2>1 DEF Notify, StatusFollowsExecute, Due, svcVars, Running, TypeOK,
        ServiceTypes, ProcessTypes
  <2>2. CASE Interrupt
    BY <2>2 DEF Interrupt, Die, StatusFollowsExecute, Due, svcVars, Running,
        TypeOK, ServiceTypes, ProcessTypes
  <2>3. CASE Listen
    BY <2>3 DEF Listen, StatusFollowsExecute, Due, svcVars, Running, TypeOK,
        ServiceTypes, ProcessTypes
  <2>4. CASE ServerFails
    BY <2>4 DEF ServerFails, Die, StatusFollowsExecute, Due, svcVars, Running,
        TypeOK, ServiceTypes, ProcessTypes
  <2>5. CASE ScrapePanics
    BY <2>5 DEF ScrapePanics, Die, StatusFollowsExecute, Due, svcVars,
        Running, TypeOK, ServiceTypes, ProcessTypes
  <2> QED BY <1>4, <2>1, <2>2, <2>3, <2>4, <2>5 DEF Listeners
<1>5. CASE Service
  <2>1. CASE SvcConnect
    BY <2>1 DEF SvcConnect, otherThanSvc, StatusFollowsExecute, Due, svcVars,
        Running, TypeOK, ServiceTypes, ProcessTypes
  <2>2. CASE ReportStartPending
    BY <2>2 DEF ReportStartPending, Report, BreakLoop, otherThanSvc,
        StatusFollowsExecute, Due, svcVars, Running, TypeOK, ServiceTypes,
        ProcessTypes
  <2>3. CASE ReportRunning
    BY <2>3 DEF ReportRunning, Report, BreakLoop, otherThanSvc,
        StatusFollowsExecute, Due, svcVars, Running, TypeOK, ServiceTypes,
        ProcessTypes
  <2>4. CASE AnswerInterrogate
    BY <2>4 DEF AnswerInterrogate, Report, BreakLoop, otherThanSvc,
        StatusFollowsExecute, Due, svcVars, Running, TypeOK, ServiceTypes,
        ProcessTypes
  <2>5. CASE ReportStopPending
    BY <2>5 DEF ReportStopPending, Report, BreakLoop, otherThanSvc,
        StatusFollowsExecute, Due, svcVars, Running, TypeOK, ServiceTypes,
        ProcessTypes
  <2>6. CASE ExecuteExits
    BY <2>6 DEF ExecuteExits, otherThanSvc, StatusFollowsExecute, Due,
        svcVars, Running, TypeOK, ServiceTypes, ProcessTypes
  <2>7. CASE TakeControl
    BY <2>7 DEF TakeControl, BreakLoop, otherThanSvc, StatusFollowsExecute,
        Due, svcVars, Running, TypeOK, ServiceTypes, ProcessTypes
  <2>8. CASE Deliver
    BY <2>8 DEF Deliver, otherThanSvc, StatusFollowsExecute, Due, svcVars,
        Running, TypeOK, ServiceTypes, ProcessTypes
  <2>9. CASE ScmNotices
    BY <2>9 DEF ScmNotices, otherThanSvc, StatusFollowsExecute, Due, svcVars,
        Running, TypeOK, ServiceTypes, ProcessTypes
  <2>10. ASSUME NEW cmd \in Cmds, Control(cmd) PROVE StatusFollowsExecute'
    BY <2>10 DEF Control, otherThanSvc, StatusFollowsExecute, Due, svcVars,
        Running, TypeOK, ServiceTypes, ProcessTypes
  <2> QED BY <1>5, <2>1, <2>2, <2>3, <2>4, <2>5, <2>6, <2>7, <2>8, <2>9, <2>10 DEF Service
<1>6. CASE Consul
  <2>1. ASSUME NEW m \in Requests, Apply(m) PROVE StatusFollowsExecute'
    BY <2>1 DEF Apply, StatusFollowsExecute, Due, svcVars, Running, TypeOK,
        ServiceTypes, ProcessTypes
  <2>2. ASSUME NEW m \in Requests, Lose(m) PROVE StatusFollowsExecute'
    BY <2>2 DEF Lose, StatusFollowsExecute, Due, svcVars, Running, TypeOK,
        ServiceTypes, ProcessTypes
  <2> QED BY <1>6, <2>1, <2>2 DEF Consul
<1>7. CASE UNCHANGED vars
  BY <1>7 DEF vars, StatusFollowsExecute, Due, svcVars, Running, TypeOK,
      ServiceTypes, ProcessTypes
<1> QED BY <1>1, <1>2, <1>3, <1>4, <1>5, <1>6, <1>7 DEF Next, Idle

\* StopPending is reported after the hand-over only.
LEMMA HonestStep ==
  ASSUME TypeOK, StopHandedOver, StatusFollowsExecute, StatusHonest, [Next]_vars
  PROVE  StatusHonest'
<1>1. CASE Startup
  <2>1. CASE LoadConfig
    BY <2>1 DEF LoadConfig, Die, MainStep, StatusHonest, StatusFollowsExecute,
        StopHandedOver, Due, svcVars, Running, Stopping
  <2>2. CASE FetchAWSMetadata
    BY <2>2 DEF FetchAWSMetadata, Die, MainStep, StatusHonest,
        StatusFollowsExecute, StopHandedOver, Due, svcVars, Running, Stopping
  <2>3. CASE Schedule
    BY <2>3 DEF Schedule, Die, MainStep, StatusHonest, StatusFollowsExecute,
        StopHandedOver, Due, svcVars, Running, Stopping
  <2>4. CASE CheckSession
    BY <2>4 DEF CheckSession, Die, MainStep, StatusHonest,
        StatusFollowsExecute, StopHandedOver, Due, svcVars, Running, Stopping
  <2>5. CASE SpawnSigint
    BY <2>5 DEF SpawnSigint, MainStep, StatusHonest, StatusFollowsExecute,
        StopHandedOver, Due, svcVars, Running, Stopping
  <2>6. CASE LoadCollectors
    BY <2>6 DEF LoadCollectors, Die, MainStep, StatusHonest,
        StatusFollowsExecute, StopHandedOver, Due, svcVars, Running, Stopping
  <2>7. CASE Register
    BY <2>7 DEF Register, Die, MainStep, StatusHonest, StatusFollowsExecute,
        StopHandedOver, Due, svcVars, Running, Stopping
  <2>8. CASE RegisterReturns
    BY <2>8 DEF RegisterReturns, MainStep, StatusHonest, StatusFollowsExecute,
        StopHandedOver, Due, svcVars, Running, Stopping
  <2>9. CASE SpawnServer
    BY <2>9 DEF SpawnServer, MainStep, StatusHonest, StatusFollowsExecute,
        StopHandedOver, Due, svcVars, Running, Stopping
  <2> QED BY <1>1, <2>1, <2>2, <2>3, <2>4, <2>5, <2>6, <2>7, <2>8, <2>9 DEF Startup
<1>2. CASE Shutdown
  <2>1. CASE StopBySigint
    BY <2>1 DEF StopBySigint, MainStep, StatusHonest, StatusFollowsExecute,
        StopHandedOver, Due, svcVars, Running, Stopping
  <2>2. CASE StopByService
    BY <2>2 DEF StopByService, MainStep, StatusHonest, StatusFollowsExecute,
        StopHandedOver, Due, svcVars, Running, Stopping
  <2>3. CASE QuitHandshake
    BY <2>3 DEF QuitHandshake, MainStep, StatusHonest, StatusFollowsExecute,
        StopHandedOver, Due, svcVars, Running, Stopping
  <2>4. CASE DeRegister
    BY <2>4 DEF DeRegister, Die, MainStep, StatusHonest, StatusFollowsExecute,
        StopHandedOver, Due, svcVars, Running, Stopping
  <2>5. CASE DeRegisterReturns
    BY <2>5 DEF DeRegisterReturns, MainStep, StatusHonest,
        StatusFollowsExecute, StopHandedOver, Due, svcVars, Running, Stopping
  <2> QED BY <1>2, <2>1, <2>2, <2>3, <2>4, <2>5 DEF Shutdown
<1>3. CASE Refresher
  <2>1. CASE Tick
    BY <2>1 DEF Tick, StatusHonest, StatusFollowsExecute, StopHandedOver, Due,
        svcVars, Running, Stopping
  <2>2. CASE TakeTick
    BY <2>2 DEF TakeTick, StatusHonest, StatusFollowsExecute, StopHandedOver,
        Due, svcVars, Running, Stopping
  <2>3. CASE FetchReturns
    BY <2>3 DEF FetchReturns, Die, StatusHonest, StatusFollowsExecute,
        StopHandedOver, Due, svcVars, Running, Stopping
  <2> QED BY <1>3, <2>1, <2>2, <2>3 DEF Refresher
<1>4. CASE Listeners
  <2>1. CASE Notify
    BY <2>1 DEF Notify, StatusHonest, StatusFollowsExecute, StopHandedOver,
        Due, svcVars, Running, Stopping
  <2>2. CASE Interrupt
    BY <2>2 DEF Interrupt, Die, StatusHonest, StatusFollowsExecute,
        StopHandedOver, Due, svcVars, Running, Stopping
  <2>3. CASE Listen
    BY <2>3 DEF Listen, StatusHonest, StatusFollowsExecute, StopHandedOver,
        Due, svcVars, Running, Stopping
  <2>4. CASE ServerFails
    BY <2>4 DEF ServerFails, Die, StatusHonest, StatusFollowsExecute,
        StopHandedOver, Due, svcVars, Running, Stopping
  <2>5. CASE ScrapePanics
    BY <2>5 DEF ScrapePanics, Die, StatusHonest, StatusFollowsExecute,
        StopHandedOver, Due, svcVars, Running, Stopping
  <2> QED BY <1>4, <2>1, <2>2, <2>3, <2>4, <2>5 DEF Listeners
<1>5. CASE Service
  <2>1. CASE SvcConnect
    BY <2>1 DEF SvcConnect, otherThanSvc, StatusHonest, StatusFollowsExecute,
        StopHandedOver, Due, svcVars, Running, Stopping
  <2>2. CASE ReportStartPending
    BY <2>2 DEF ReportStartPending, Report, BreakLoop, otherThanSvc,
        StatusHonest, StatusFollowsExecute, StopHandedOver, Due, svcVars,
        Running, Stopping
  <2>3. CASE ReportRunning
    BY <2>3 DEF ReportRunning, Report, BreakLoop, otherThanSvc, StatusHonest,
        StatusFollowsExecute, StopHandedOver, Due, svcVars, Running, Stopping
  <2>4. CASE AnswerInterrogate
    BY <2>4 DEF AnswerInterrogate, Report, BreakLoop, otherThanSvc,
        StatusHonest, StatusFollowsExecute, StopHandedOver, Due, svcVars,
        Running, Stopping
  <2>5. CASE ReportStopPending
    BY <2>5 DEF ReportStopPending, Report, BreakLoop, otherThanSvc,
        StatusHonest, StatusFollowsExecute, StopHandedOver, Due, svcVars,
        Running, Stopping
  <2>6. CASE ExecuteExits
    BY <2>6 DEF ExecuteExits, otherThanSvc, StatusHonest,
        StatusFollowsExecute, StopHandedOver, Due, svcVars, Running, Stopping
  <2>7. CASE TakeControl
    BY <2>7 DEF TakeControl, BreakLoop, otherThanSvc, StatusHonest,
        StatusFollowsExecute, StopHandedOver, Due, svcVars, Running, Stopping
  <2>8. CASE Deliver
    BY <2>8 DEF Deliver, otherThanSvc, StatusHonest, StatusFollowsExecute,
        StopHandedOver, Due, svcVars, Running, Stopping
  <2>9. CASE ScmNotices
    BY <2>9 DEF ScmNotices, otherThanSvc, StatusHonest, StatusFollowsExecute,
        StopHandedOver, Due, svcVars, Running, Stopping
  <2>10. ASSUME NEW cmd \in Cmds, Control(cmd) PROVE StatusHonest'
    BY <2>10 DEF Control, otherThanSvc, StatusHonest, StatusFollowsExecute,
        StopHandedOver, Due, svcVars, Running, Stopping
  <2> QED BY <1>5, <2>1, <2>2, <2>3, <2>4, <2>5, <2>6, <2>7, <2>8, <2>9, <2>10 DEF Service
<1>6. CASE Consul
  <2>1. ASSUME NEW m \in Requests, Apply(m) PROVE StatusHonest'
    BY <2>1 DEF Apply, StatusHonest, StatusFollowsExecute, StopHandedOver,
        Due, svcVars, Running, Stopping
  <2>2. ASSUME NEW m \in Requests, Lose(m) PROVE StatusHonest'
    BY <2>2 DEF Lose, StatusHonest, StatusFollowsExecute, StopHandedOver, Due,
        svcVars, Running, Stopping
  <2> QED BY <1>6, <2>1, <2>2 DEF Consul
<1>7. CASE UNCHANGED vars
  BY <1>7 DEF vars, StatusHonest, StatusFollowsExecute, StopHandedOver, Due,
      svcVars, Running, Stopping
<1> QED BY <1>1, <1>2, <1>3, <1>4, <1>5, <1>6, <1>7 DEF Next, Idle

\* Register and DeRegister are where main sends.
LEMMA OrderStep ==
  ASSUME TypeOK, RequestsInOrder, [Next]_vars
  PROVE  RequestsInOrder'
<1>1. CASE Startup
  <2>1. CASE LoadConfig
    BY <2>1 DEF LoadConfig, Die, MainStep, RequestsInOrder, consulVars,
        Starting, Requests, TypeOK, ConsulTypes
  <2>2. CASE FetchAWSMetadata
    BY <2>2 DEF FetchAWSMetadata, Die, MainStep, RequestsInOrder, consulVars,
        Starting, Requests, TypeOK, ConsulTypes
  <2>3. CASE Schedule
    BY <2>3 DEF Schedule, Die, MainStep, RequestsInOrder, consulVars, Starting,
        Requests, TypeOK, ConsulTypes
  <2>4. CASE CheckSession
    BY <2>4 DEF CheckSession, Die, MainStep, RequestsInOrder, consulVars,
        Starting, Requests, TypeOK, ConsulTypes
  <2>5. CASE SpawnSigint
    BY <2>5 DEF SpawnSigint, MainStep, RequestsInOrder, consulVars, Starting,
        Requests, TypeOK, ConsulTypes
  <2>6. CASE LoadCollectors
    BY <2>6 DEF LoadCollectors, Die, MainStep, RequestsInOrder, consulVars,
        Starting, Requests, TypeOK, ConsulTypes
  <2>7. CASE Register
    BY <2>7 DEF Register, Die, MainStep, RequestsInOrder, consulVars,
        Starting, Requests, TypeOK, ConsulTypes
  <2>8. CASE RegisterReturns
    BY <2>8 DEF RegisterReturns, MainStep, RequestsInOrder, consulVars,
        Starting, Requests, TypeOK, ConsulTypes
  <2>9. CASE SpawnServer
    BY <2>9 DEF SpawnServer, MainStep, RequestsInOrder, consulVars, Starting,
        Requests, TypeOK, ConsulTypes
  <2> QED BY <1>1, <2>1, <2>2, <2>3, <2>4, <2>5, <2>6, <2>7, <2>8, <2>9 DEF Startup
<1>2. CASE Shutdown
  <2>1. CASE StopBySigint
    BY <2>1 DEF StopBySigint, MainStep, RequestsInOrder, consulVars, Starting,
        Requests, TypeOK, ConsulTypes
  <2>2. CASE StopByService
    BY <2>2 DEF StopByService, MainStep, RequestsInOrder, consulVars,
        Starting, Requests, TypeOK, ConsulTypes
  <2>3. CASE QuitHandshake
    BY <2>3 DEF QuitHandshake, MainStep, RequestsInOrder, consulVars,
        Starting, Requests, TypeOK, ConsulTypes
  <2>4. CASE DeRegister
    BY <2>4 DEF DeRegister, Die, MainStep, RequestsInOrder, consulVars,
        Starting, Requests, TypeOK, ConsulTypes
  <2>5. CASE DeRegisterReturns
    BY <2>5 DEF DeRegisterReturns, MainStep, RequestsInOrder, consulVars,
        Starting, Requests, TypeOK, ConsulTypes
  <2> QED BY <1>2, <2>1, <2>2, <2>3, <2>4, <2>5 DEF Shutdown
<1>3. CASE Refresher
  <2>1. CASE Tick
    BY <2>1 DEF Tick, RequestsInOrder, consulVars, Starting, Requests, TypeOK,
        ConsulTypes
  <2>2. CASE TakeTick
    BY <2>2 DEF TakeTick, RequestsInOrder, consulVars, Starting, Requests,
        TypeOK, ConsulTypes
  <2>3. CASE FetchReturns
    <3>1. UNCHANGED main
      BY <2>3 DEF FetchReturns, Die
    <3>2. UNCHANGED <<catalog, wire, acked, regRes, deregRes>>
      BY <2>3 DEF FetchReturns, Die, consulVars
    <3> QED BY <3>1, <3>2 DEF RequestsInOrder
  <2> QED BY <1>3, <2>1, <2>2, <2>3 DEF Refresher
<1>4. CASE Listeners
  <2>1. CASE Notify
    BY <2>1 DEF Notify, RequestsInOrder, consulVars, Starting, Requests,
        TypeOK, ConsulTypes
  <2>2. CASE Interrupt
    <3>1. UNCHANGED main
      BY <2>2 DEF Interrupt, Die
    <3>2. UNCHANGED <<catalog, wire, acked, regRes, deregRes>>
      BY <2>2 DEF Interrupt, Die, consulVars
    <3> QED BY <3>1, <3>2 DEF RequestsInOrder
  <2>3. CASE Listen
    BY <2>3 DEF Listen, RequestsInOrder, consulVars, Starting, Requests,
        TypeOK, ConsulTypes
  <2>4. CASE ServerFails
    BY <2>4 DEF ServerFails, Die, RequestsInOrder, consulVars, Starting,
        Requests, TypeOK, ConsulTypes
  <2>5. CASE ScrapePanics
    BY <2>5 DEF ScrapePanics, Die, RequestsInOrder, consulVars, Starting,
        Requests, TypeOK, ConsulTypes
  <2> QED BY <1>4, <2>1, <2>2, <2>3, <2>4, <2>5 DEF Listeners
<1>5. CASE Service
  <2>1. CASE SvcConnect
    BY <2>1 DEF SvcConnect, otherThanSvc, RequestsInOrder, consulVars,
        Starting, Requests, TypeOK, ConsulTypes
  <2>2. CASE ReportStartPending
    BY <2>2 DEF ReportStartPending, Report, BreakLoop, otherThanSvc,
        RequestsInOrder, consulVars, Starting, Requests, TypeOK, ConsulTypes
  <2>3. CASE ReportRunning
    BY <2>3 DEF ReportRunning, Report, BreakLoop, otherThanSvc,
        RequestsInOrder, consulVars, Starting, Requests, TypeOK, ConsulTypes
  <2>4. CASE AnswerInterrogate
    BY <2>4 DEF AnswerInterrogate, Report, BreakLoop, otherThanSvc,
        RequestsInOrder, consulVars, Starting, Requests, TypeOK, ConsulTypes
  <2>5. CASE ReportStopPending
    BY <2>5 DEF ReportStopPending, Report, BreakLoop, otherThanSvc,
        RequestsInOrder, consulVars, Starting, Requests, TypeOK, ConsulTypes
  <2>6. CASE ExecuteExits
    BY <2>6 DEF ExecuteExits, otherThanSvc, RequestsInOrder, consulVars,
        Starting, Requests, TypeOK, ConsulTypes
  <2>7. CASE TakeControl
    BY <2>7 DEF TakeControl, BreakLoop, otherThanSvc, RequestsInOrder,
        consulVars, Starting, Requests, TypeOK, ConsulTypes
  <2>8. CASE Deliver
    BY <2>8 DEF Deliver, otherThanSvc, RequestsInOrder, consulVars, Starting,
        Requests, TypeOK, ConsulTypes
  <2>9. CASE ScmNotices
    BY <2>9 DEF ScmNotices, otherThanSvc, RequestsInOrder, consulVars,
        Starting, Requests, TypeOK, ConsulTypes
  <2>10. ASSUME NEW cmd \in Cmds, Control(cmd) PROVE RequestsInOrder'
    BY <2>10 DEF Control, otherThanSvc, RequestsInOrder, consulVars, Starting,
        Requests, TypeOK, ConsulTypes
  <2> QED BY <1>5, <2>1, <2>2, <2>3, <2>4, <2>5, <2>6, <2>7, <2>8, <2>9, <2>10 DEF Service
<1>6. CASE Consul
  <2>1. ASSUME NEW m \in Requests, Apply(m) PROVE RequestsInOrder'
    BY <2>1 DEF Apply, RequestsInOrder, consulVars, Starting, Requests,
        TypeOK, ConsulTypes
  <2>2. ASSUME NEW m \in Requests, Lose(m) PROVE RequestsInOrder'
    BY <2>2 DEF Lose, RequestsInOrder, consulVars, Starting, Requests, TypeOK,
        ConsulTypes
  <2> QED BY <1>6, <2>1, <2>2 DEF Consul
<1>7. CASE UNCHANGED vars
  BY <1>7 DEF vars, RequestsInOrder, consulVars, Starting, Requests, TypeOK,
      ConsulTypes
<1> QED BY <1>1, <1>2, <1>3, <1>4, <1>5, <1>6, <1>7 DEF Next, Idle

\* IInv holds at the start and every step keeps it.
LEMMA Inductive == Spec => []IInv
<1>1. ASSUME Init PROVE IInv
  <2>1. TypeOK
    BY <1>1, InitType
  <2>2. StatusFollowsExecute
    BY <1>1 DEF Init, StatusFollowsExecute
  <2>3. StopHandedOver /\ RefresherQuiesced /\ StatusHonest
    BY <1>1 DEF Init, StopHandedOver, RefresherQuiesced, StatusHonest, Stopping,
                PastQuit
  <2>4. RequestsInOrder
    BY <1>1 DEF Init, RequestsInOrder
  <2> QED BY <2>1, <2>2, <2>3, <2>4 DEF IInv
<1>2. ASSUME IInv, [Next]_vars PROVE IInv'
  BY <1>2, TypeStep, HandOverStep, QuiescedStep, FollowsStep, HonestStep,
     OrderStep DEF IInv
<1> QED BY <1>1, <1>2, PTL DEF Spec

-----------------------------------------------------------------------------
(* What follows.                                                           *)

\* main stops waiting on exactly one stop (exporter.go:215-222).
THEOREM StopOnce == Spec => []StopHandedOver
BY Inductive, PTL DEF IInv

\* No tag fetch runs once main is past quitCh <- true (exporter.go:218).
THEOREM Quiesced == Spec => []RefresherQuiesced
BY Inductive, PTL DEF IInv

\* The SCM is never told that the service stops before main knows.
THEOREM Honest == Spec => []StatusHonest
BY Inductive, PTL DEF IInv

\* The SCM's state, service.run's status and the echo follow Execute's place in its
\* code (service.go:222-235, exporter.go:247-264).
THEOREM Follows == Spec => []StatusFollowsExecute
BY Inductive, PTL DEF IInv

\* Each Consul request is sent once and at its place, and an acknowledged one cannot
\* overtake a later one (exporter.go:204-206).
THEOREM InOrder == Spec => []RequestsInOrder
BY Inductive, PTL DEF IInv

\* While main serves, a confirmed registration stands.
THEOREM Advertised == Spec => []AdvertisedWhileServing
<1>1. IInv => AdvertisedWhileServing
  BY DEF IInv, RequestsInOrder, AdvertisedWhileServing
<1> QED BY <1>1, Inductive, PTL

\* A process that returned from main with both Consul calls confirmed left no
\* entry behind.
THEOREM CleanExit == Spec => []CleanExitWithdraws
<1>1. IInv => CleanExitWithdraws
  BY DEF IInv, RequestsInOrder, CleanExitWithdraws
<1> QED BY <1>1, Inductive, PTL

\* No step takes the reported state back: the state follows Execute, and
\* Execute's place in its code only moves forward.
LEMMA ForwardStep ==
  ASSUME TypeOK, StatusFollowsExecute, [Next]_vars
  PROVE  Rank(scm') >= Rank(scm)
<1>1. CASE Startup
  <2>1. CASE LoadConfig
    BY <2>1 DEF LoadConfig, Die, MainStep, StatusFollowsExecute, Due, Rank,
        svcVars, Running, TypeOK, ServiceTypes, States
  <2>2. CASE FetchAWSMetadata
    BY <2>2 DEF FetchAWSMetadata, Die, MainStep, StatusFollowsExecute, Due,
        Rank, svcVars, Running, TypeOK, ServiceTypes, States
  <2>3. CASE Schedule
    BY <2>3 DEF Schedule, Die, MainStep, StatusFollowsExecute, Due, Rank, svcVars,
        Running, TypeOK, ServiceTypes, States
  <2>4. CASE CheckSession
    BY <2>4 DEF CheckSession, Die, MainStep, StatusFollowsExecute, Due, Rank,
        svcVars, Running, TypeOK, ServiceTypes, States
  <2>5. CASE SpawnSigint
    BY <2>5 DEF SpawnSigint, MainStep, StatusFollowsExecute, Due, Rank,
        svcVars, Running, TypeOK, ServiceTypes, States
  <2>6. CASE LoadCollectors
    BY <2>6 DEF LoadCollectors, Die, MainStep, StatusFollowsExecute, Due,
        Rank, svcVars, Running, TypeOK, ServiceTypes, States
  <2>7. CASE Register
    BY <2>7 DEF Register, Die, MainStep, StatusFollowsExecute, Due, Rank,
        svcVars, Running, TypeOK, ServiceTypes, States
  <2>8. CASE RegisterReturns
    BY <2>8 DEF RegisterReturns, MainStep, StatusFollowsExecute, Due, Rank,
        svcVars, Running, TypeOK, ServiceTypes, States
  <2>9. CASE SpawnServer
    BY <2>9 DEF SpawnServer, MainStep, StatusFollowsExecute, Due, Rank,
        svcVars, Running, TypeOK, ServiceTypes, States
  <2> QED BY <1>1, <2>1, <2>2, <2>3, <2>4, <2>5, <2>6, <2>7, <2>8, <2>9 DEF Startup
<1>2. CASE Shutdown
  <2>1. CASE StopBySigint
    BY <2>1 DEF StopBySigint, MainStep, StatusFollowsExecute, Due, Rank,
        svcVars, Running, TypeOK, ServiceTypes, States
  <2>2. CASE StopByService
    BY <2>2 DEF StopByService, MainStep, StatusFollowsExecute, Due, Rank,
        svcVars, Running, TypeOK, ServiceTypes, States
  <2>3. CASE QuitHandshake
    BY <2>3 DEF QuitHandshake, MainStep, StatusFollowsExecute, Due, Rank,
        svcVars, Running, TypeOK, ServiceTypes, States
  <2>4. CASE DeRegister
    BY <2>4 DEF DeRegister, Die, MainStep, StatusFollowsExecute, Due, Rank,
        svcVars, Running, TypeOK, ServiceTypes, States
  <2>5. CASE DeRegisterReturns
    BY <2>5 DEF DeRegisterReturns, MainStep, StatusFollowsExecute, Due, Rank,
        svcVars, Running, TypeOK, ServiceTypes, States
  <2> QED BY <1>2, <2>1, <2>2, <2>3, <2>4, <2>5 DEF Shutdown
<1>3. CASE Refresher
  <2>1. CASE Tick
    BY <2>1 DEF Tick, StatusFollowsExecute, Due, Rank, svcVars, Running,
        TypeOK, ServiceTypes, States
  <2>2. CASE TakeTick
    BY <2>2 DEF TakeTick, StatusFollowsExecute, Due, Rank, svcVars, Running,
        TypeOK, ServiceTypes, States
  <2>3. CASE FetchReturns
    <3>1. scm' = scm
      BY <2>3 DEF FetchReturns, Die, svcVars
    <3> QED BY <3>1 DEF Rank, TypeOK, ServiceTypes, States
  <2> QED BY <1>3, <2>1, <2>2, <2>3 DEF Refresher
<1>4. CASE Listeners
  <2>1. CASE Notify
    BY <2>1 DEF Notify, StatusFollowsExecute, Due, Rank, svcVars, Running,
        TypeOK, ServiceTypes, States
  <2>2. CASE Interrupt
    BY <2>2 DEF Interrupt, Die, StatusFollowsExecute, Due, Rank, svcVars,
        Running, TypeOK, ServiceTypes, States
  <2>3. CASE Listen
    BY <2>3 DEF Listen, StatusFollowsExecute, Due, Rank, svcVars, Running,
        TypeOK, ServiceTypes, States
  <2>4. CASE ServerFails
    BY <2>4 DEF ServerFails, Die, StatusFollowsExecute, Due, Rank, svcVars,
        Running, TypeOK, ServiceTypes, States
  <2>5. CASE ScrapePanics
    BY <2>5 DEF ScrapePanics, Die, StatusFollowsExecute, Due, Rank, svcVars,
        Running, TypeOK, ServiceTypes, States
  <2> QED BY <1>4, <2>1, <2>2, <2>3, <2>4, <2>5 DEF Listeners
<1>5. CASE Service
  <2>1. CASE SvcConnect
    BY <2>1 DEF SvcConnect, otherThanSvc, StatusFollowsExecute, Due, Rank,
        svcVars, Running, TypeOK, ServiceTypes, States
  <2>2. CASE ReportStartPending
    BY <2>2 DEF ReportStartPending, Report, BreakLoop, otherThanSvc,
        StatusFollowsExecute, Due, Rank, svcVars, Running, TypeOK,
        ServiceTypes, States
  <2>3. CASE ReportRunning
    BY <2>3 DEF ReportRunning, Report, BreakLoop, otherThanSvc,
        StatusFollowsExecute, Due, Rank, svcVars, Running, TypeOK,
        ServiceTypes, States
  <2>4. CASE AnswerInterrogate
    BY <2>4 DEF AnswerInterrogate, Report, BreakLoop, otherThanSvc,
        StatusFollowsExecute, Due, Rank, svcVars, Running, TypeOK,
        ServiceTypes, States
  <2>5. CASE ReportStopPending
    BY <2>5 DEF ReportStopPending, Report, BreakLoop, otherThanSvc,
        StatusFollowsExecute, Due, Rank, svcVars, Running, TypeOK,
        ServiceTypes, States
  <2>6. CASE ExecuteExits
    BY <2>6 DEF ExecuteExits, otherThanSvc, StatusFollowsExecute, Due, Rank,
        svcVars, Running, TypeOK, ServiceTypes, States
  <2>7. CASE TakeControl
    BY <2>7 DEF TakeControl, BreakLoop, otherThanSvc, StatusFollowsExecute,
        Due, Rank, svcVars, Running, TypeOK, ServiceTypes, States
  <2>8. CASE Deliver
    BY <2>8 DEF Deliver, otherThanSvc, StatusFollowsExecute, Due, Rank,
        svcVars, Running, TypeOK, ServiceTypes, States
  <2>9. CASE ScmNotices
    BY <2>9 DEF ScmNotices, otherThanSvc, StatusFollowsExecute, Due, Rank,
        svcVars, Running, TypeOK, ServiceTypes, States
  <2>10. ASSUME NEW cmd \in Cmds, Control(cmd) PROVE Rank(scm') >= Rank(scm)
    BY <2>10 DEF Control, otherThanSvc, StatusFollowsExecute, Due, Rank,
        svcVars, Running, TypeOK, ServiceTypes, States
  <2> QED BY <1>5, <2>1, <2>2, <2>3, <2>4, <2>5, <2>6, <2>7, <2>8, <2>9, <2>10 DEF Service
<1>6. CASE Consul
  <2>1. ASSUME NEW m \in Requests, Apply(m) PROVE Rank(scm') >= Rank(scm)
    BY <2>1 DEF Apply, StatusFollowsExecute, Due, Rank, svcVars, Running,
        TypeOK, ServiceTypes, States
  <2>2. ASSUME NEW m \in Requests, Lose(m) PROVE Rank(scm') >= Rank(scm)
    BY <2>2 DEF Lose, StatusFollowsExecute, Due, Rank, svcVars, Running,
        TypeOK, ServiceTypes, States
  <2> QED BY <1>6, <2>1, <2>2 DEF Consul
<1>7. CASE UNCHANGED vars
  BY <1>7 DEF vars, StatusFollowsExecute, Due, Rank, svcVars, Running, TypeOK,
      ServiceTypes, States
<1> QED BY <1>1, <1>2, <1>3, <1>4, <1>5, <1>6, <1>7 DEF Next, Idle

\* The state the SCM shows only moves forward.
THEOREM Forward == Spec => StatusForward
<1>1. IInv /\ [Next]_vars => Rank(scm') >= Rank(scm)
  BY ForwardStep DEF IInv
<1>2. IInv /\ [Next]_vars => [Rank(scm') >= Rank(scm)]_vars
  BY <1>1
<1> QED BY <1>2, Inductive, PTL DEF Spec, StatusForward

-----------------------------------------------------------------------------
(* Refinement.                                                             *)

\* Every step is a step of Lifecycle, or changes neither phase nor catalog.
\* The entry is withdrawn in the right phases because a DeRegister request is
\* in the network only after main has sent it.
LEMMA RefinesStep ==
  ASSUME TypeOK, RequestsInOrder, [Next]_vars
  PROVE  [L!Next]_(L!vars)
<1>1. CASE Startup
  <2>1. CASE LoadConfig
    BY <2>1 DEF LoadConfig, Die, MainStep, phase, RequestsInOrder, Starting,
        Stopping, Ended, Running, L!Next, L!Serve, L!Stop, L!Finish, L!Crash,
        L!Advertise, L!Withdraw, L!Alive, L!vars, consulVars
  <2>2. CASE FetchAWSMetadata
    BY <2>2 DEF FetchAWSMetadata, Die, MainStep, phase, RequestsInOrder,
        Starting, Stopping, Ended, Running, L!Next, L!Serve, L!Stop, L!Finish,
        L!Crash, L!Advertise, L!Withdraw, L!Alive, L!vars, consulVars
  <2>3. CASE Schedule
    BY <2>3 DEF Schedule, Die, MainStep, phase, RequestsInOrder, Starting,
        Stopping, Ended, Running, L!Next, L!Serve, L!Stop, L!Finish, L!Crash,
        L!Advertise, L!Withdraw, L!Alive, L!vars, consulVars
  <2>4. CASE CheckSession
    BY <2>4 DEF CheckSession, Die, MainStep, phase, RequestsInOrder, Starting,
        Stopping, Ended, Running, L!Next, L!Serve, L!Stop, L!Finish, L!Crash,
        L!Advertise, L!Withdraw, L!Alive, L!vars, consulVars
  <2>5. CASE SpawnSigint
    BY <2>5 DEF SpawnSigint, MainStep, phase, RequestsInOrder, Starting,
        Stopping, Ended, Running, L!Next, L!Serve, L!Stop, L!Finish, L!Crash,
        L!Advertise, L!Withdraw, L!Alive, L!vars, consulVars
  <2>6. CASE LoadCollectors
    BY <2>6 DEF LoadCollectors, Die, MainStep, phase, RequestsInOrder,
        Starting, Stopping, Ended, Running, L!Next, L!Serve, L!Stop, L!Finish,
        L!Crash, L!Advertise, L!Withdraw, L!Alive, L!vars, consulVars
  <2>7. CASE Register
    BY <2>7 DEF Register, Die, MainStep, phase, RequestsInOrder, Starting,
        Stopping, Ended, Running, L!Next, L!Serve, L!Stop, L!Finish, L!Crash,
        L!Advertise, L!Withdraw, L!Alive, L!vars, consulVars
  <2>8. CASE RegisterReturns
    BY <2>8 DEF RegisterReturns, MainStep, phase, RequestsInOrder, Starting,
        Stopping, Ended, Running, L!Next, L!Serve, L!Stop, L!Finish, L!Crash,
        L!Advertise, L!Withdraw, L!Alive, L!vars, consulVars
  <2>9. CASE SpawnServer
    BY <2>9 DEF SpawnServer, MainStep, phase, RequestsInOrder, Starting,
        Stopping, Ended, Running, L!Next, L!Serve, L!Stop, L!Finish, L!Crash,
        L!Advertise, L!Withdraw, L!Alive, L!vars, consulVars
  <2> QED BY <1>1, <2>1, <2>2, <2>3, <2>4, <2>5, <2>6, <2>7, <2>8, <2>9 DEF Startup
<1>2. CASE Shutdown
  <2>1. CASE StopBySigint
    BY <2>1 DEF StopBySigint, MainStep, phase, RequestsInOrder, Starting,
        Stopping, Ended, Running, L!Next, L!Serve, L!Stop, L!Finish, L!Crash,
        L!Advertise, L!Withdraw, L!Alive, L!vars, consulVars
  <2>2. CASE StopByService
    BY <2>2 DEF StopByService, MainStep, phase, RequestsInOrder, Starting,
        Stopping, Ended, Running, L!Next, L!Serve, L!Stop, L!Finish, L!Crash,
        L!Advertise, L!Withdraw, L!Alive, L!vars, consulVars
  <2>3. CASE QuitHandshake
    BY <2>3 DEF QuitHandshake, MainStep, phase, RequestsInOrder, Starting,
        Stopping, Ended, Running, L!Next, L!Serve, L!Stop, L!Finish, L!Crash,
        L!Advertise, L!Withdraw, L!Alive, L!vars, consulVars
  <2>4. CASE DeRegister
    BY <2>4 DEF DeRegister, Die, MainStep, phase, RequestsInOrder, Starting,
        Stopping, Ended, Running, L!Next, L!Serve, L!Stop, L!Finish, L!Crash,
        L!Advertise, L!Withdraw, L!Alive, L!vars, consulVars
  <2>5. CASE DeRegisterReturns
    BY <2>5 DEF DeRegisterReturns, MainStep, phase, RequestsInOrder, Starting,
        Stopping, Ended, Running, L!Next, L!Serve, L!Stop, L!Finish, L!Crash,
        L!Advertise, L!Withdraw, L!Alive, L!vars, consulVars
  <2> QED BY <1>2, <2>1, <2>2, <2>3, <2>4, <2>5 DEF Shutdown
<1>3. CASE Refresher
  <2>1. CASE Tick
    BY <2>1 DEF Tick, phase, RequestsInOrder, Starting, Stopping, Ended,
        Running, L!Next, L!Serve, L!Stop, L!Finish, L!Crash, L!Advertise,
        L!Withdraw, L!Alive, L!vars, consulVars
  <2>2. CASE TakeTick
    BY <2>2 DEF TakeTick, phase, RequestsInOrder, Starting, Stopping, Ended,
        Running, L!Next, L!Serve, L!Stop, L!Finish, L!Crash, L!Advertise,
        L!Withdraw, L!Alive, L!vars, consulVars
  <2>3. CASE FetchReturns
    <3>1. catalog' = catalog
      BY <2>3 DEF FetchReturns, Die, consulVars
    <3>2. main' = main
      BY <2>3 DEF FetchReturns, Die
    <3>3. Running /\ proc' \in {proc, "panicked"}
      BY <2>3 DEF FetchReturns, Die
    <3> QED BY <3>1, <3>2, <3>3 DEF phase, Starting, Ended, Running, L!Next,
                                    L!Crash, L!Alive, L!vars
  <2> QED BY <1>3, <2>1, <2>2, <2>3 DEF Refresher
<1>4. CASE Listeners
  <2>1. CASE Notify
    BY <2>1 DEF Notify, phase, RequestsInOrder, Starting, Stopping, Ended,
        Running, L!Next, L!Serve, L!Stop, L!Finish, L!Crash, L!Advertise,
        L!Withdraw, L!Alive, L!vars, consulVars
  <2>2. CASE Interrupt
    BY <2>2 DEF Interrupt, Die, phase, RequestsInOrder, Starting, Stopping,
        Ended, Running, L!Next, L!Serve, L!Stop, L!Finish, L!Crash,
        L!Advertise, L!Withdraw, L!Alive, L!vars, consulVars
  <2>3. CASE Listen
    BY <2>3 DEF Listen, phase, RequestsInOrder, Starting, Stopping, Ended,
        Running, L!Next, L!Serve, L!Stop, L!Finish, L!Crash, L!Advertise,
        L!Withdraw, L!Alive, L!vars, consulVars
  <2>4. CASE ServerFails
    BY <2>4 DEF ServerFails, Die, phase, RequestsInOrder, Starting, Stopping,
        Ended, Running, L!Next, L!Serve, L!Stop, L!Finish, L!Crash,
        L!Advertise, L!Withdraw, L!Alive, L!vars, consulVars
  <2>5. CASE ScrapePanics
    BY <2>5 DEF ScrapePanics, Die, phase, RequestsInOrder, Starting, Stopping,
        Ended, Running, L!Next, L!Serve, L!Stop, L!Finish, L!Crash,
        L!Advertise, L!Withdraw, L!Alive, L!vars, consulVars
  <2> QED BY <1>4, <2>1, <2>2, <2>3, <2>4, <2>5 DEF Listeners
<1>5. CASE Service
  <2>1. CASE SvcConnect
    BY <2>1 DEF SvcConnect, otherThanSvc, phase, RequestsInOrder, Starting,
        Stopping, Ended, Running, L!Next, L!Serve, L!Stop, L!Finish, L!Crash,
        L!Advertise, L!Withdraw, L!Alive, L!vars, consulVars
  <2>2. CASE ReportStartPending
    BY <2>2 DEF ReportStartPending, Report, BreakLoop, otherThanSvc, phase,
        RequestsInOrder, Starting, Stopping, Ended, Running, L!Next, L!Serve,
        L!Stop, L!Finish, L!Crash, L!Advertise, L!Withdraw, L!Alive, L!vars,
        consulVars
  <2>3. CASE ReportRunning
    BY <2>3 DEF ReportRunning, Report, BreakLoop, otherThanSvc, phase,
        RequestsInOrder, Starting, Stopping, Ended, Running, L!Next, L!Serve,
        L!Stop, L!Finish, L!Crash, L!Advertise, L!Withdraw, L!Alive, L!vars,
        consulVars
  <2>4. CASE AnswerInterrogate
    BY <2>4 DEF AnswerInterrogate, Report, BreakLoop, otherThanSvc, phase,
        RequestsInOrder, Starting, Stopping, Ended, Running, L!Next, L!Serve,
        L!Stop, L!Finish, L!Crash, L!Advertise, L!Withdraw, L!Alive, L!vars,
        consulVars
  <2>5. CASE ReportStopPending
    BY <2>5 DEF ReportStopPending, Report, BreakLoop, otherThanSvc, phase,
        RequestsInOrder, Starting, Stopping, Ended, Running, L!Next, L!Serve,
        L!Stop, L!Finish, L!Crash, L!Advertise, L!Withdraw, L!Alive, L!vars,
        consulVars
  <2>6. CASE ExecuteExits
    BY <2>6 DEF ExecuteExits, otherThanSvc, phase, RequestsInOrder, Starting,
        Stopping, Ended, Running, L!Next, L!Serve, L!Stop, L!Finish, L!Crash,
        L!Advertise, L!Withdraw, L!Alive, L!vars, consulVars
  <2>7. CASE TakeControl
    BY <2>7 DEF TakeControl, BreakLoop, otherThanSvc, phase, RequestsInOrder,
        Starting, Stopping, Ended, Running, L!Next, L!Serve, L!Stop, L!Finish,
        L!Crash, L!Advertise, L!Withdraw, L!Alive, L!vars, consulVars
  <2>8. CASE Deliver
    BY <2>8 DEF Deliver, otherThanSvc, phase, RequestsInOrder, Starting,
        Stopping, Ended, Running, L!Next, L!Serve, L!Stop, L!Finish, L!Crash,
        L!Advertise, L!Withdraw, L!Alive, L!vars, consulVars
  <2>9. CASE ScmNotices
    BY <2>9 DEF ScmNotices, otherThanSvc, phase, RequestsInOrder, Starting,
        Stopping, Ended, Running, L!Next, L!Serve, L!Stop, L!Finish, L!Crash,
        L!Advertise, L!Withdraw, L!Alive, L!vars, consulVars
  <2>10. ASSUME NEW cmd \in Cmds, Control(cmd) PROVE [L!Next]_(L!vars)
    BY <2>10 DEF Control, otherThanSvc, phase, RequestsInOrder, Starting,
        Stopping, Ended, Running, L!Next, L!Serve, L!Stop, L!Finish, L!Crash,
        L!Advertise, L!Withdraw, L!Alive, L!vars, consulVars
  <2> QED BY <1>5, <2>1, <2>2, <2>3, <2>4, <2>5, <2>6, <2>7, <2>8, <2>9, <2>10 DEF Service
<1>6. CASE Consul
  <2>1. ASSUME NEW m \in Requests, Apply(m) PROVE [L!Next]_(L!vars)
    <3>1. UNCHANGED phase
      BY <2>1 DEF Apply, phase
    <3>2. CASE m = "register"
      <4>1. catalog' = TRUE
        BY <2>1, <3>2 DEF Apply
      <4> QED BY <3>1, <4>1 DEF L!Next, L!Advertise
    <3>3. CASE m = "deregister"
      <4>1. catalog' = FALSE
        BY <2>1, <3>3 DEF Apply
      <4>2. main \in {"deregistering", "done"}
        BY <2>1, <3>3 DEF Apply, RequestsInOrder
      <4>3. phase \in {"stopping", "stopped", "crashed"}
        BY <4>2 DEF phase, Starting, Ended, TypeOK, ProcessTypes
      <4> QED BY <3>1, <4>1, <4>3 DEF L!Next, L!Withdraw
    <3> QED BY <3>2, <3>3 DEF Requests
  <2>2. ASSUME NEW m \in Requests, Lose(m) PROVE [L!Next]_(L!vars)
    BY <2>2 DEF Lose, phase, RequestsInOrder, Starting, Stopping, Ended,
        Running, L!Next, L!Serve, L!Stop, L!Finish, L!Crash, L!Advertise,
        L!Withdraw, L!Alive, L!vars, consulVars
  <2> QED BY <1>6, <2>1, <2>2 DEF Consul
<1>7. CASE UNCHANGED vars
  BY <1>7 DEF vars, phase, RequestsInOrder, Starting, Stopping, Ended,
      Running, L!Next, L!Serve, L!Stop, L!Finish, L!Crash, L!Advertise,
      L!Withdraw, L!Alive, L!vars, consulVars
<1> QED BY <1>1, <1>2, <1>3, <1>4, <1>5, <1>6, <1>7 DEF Next, Idle

\* The process implements Lifecycle (its safety part).
THEOREM Refines == Spec => ImplementsLifecycle
<1>1. ASSUME Init PROVE L!Init
  <2>1. TypeOK
    BY <1>1, InitType
  <2>2. catalog \in BOOLEAN
    BY <2>1 DEF TypeOK, ConsulTypes
  <2>3. phase = "starting"
    BY <1>1 DEF Init, phase, Ended, Starting
  <2> QED BY <2>2, <2>3 DEF L!Init
<1>2. IInv /\ [Next]_vars => [L!Next]_(L!vars)
  BY RefinesStep DEF IInv
<1> QED BY <1>1, <1>2, Inductive, PTL DEF Spec, ImplementsLifecycle, L!Spec
=============================================================================
