SPECIFICATION FairSpec
CONSTANTS
  Configs <- NoTagConfigs
  MaxControls <- ControlBounds
  SvcFaults = FALSE
PROPERTY ShutdownReachesDeRegister
\* The shutdown stops at quitCh <- true for good.
CHECK_DEADLOCK FALSE
