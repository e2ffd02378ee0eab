SPECIFICATION FairSpec
CONSTANTS
  Configs <- TagConfigs
  MaxControls <- ControlBounds
  SvcFaults = TRUE
INVARIANTS
  TypeOK
  StopHandedOver
  RefresherQuiesced
  StatusHonest
  AdvertisedWhileServing
  CleanExitWithdraws
  StatusFollowsExecute
PROPERTIES
  StatusForward
  ImplementsLifecycle
  StopTerminates
  ControlTaken
  ImplementsFairLifecycle
