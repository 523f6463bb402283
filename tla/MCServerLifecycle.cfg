SPECIFICATION FairSpec
CONSTANTS
  Unset = Unset
  Malformed = Malformed
  Environments <- MCEnvironments
  CommandLines <- MCCommandLines
  Machines <- MCMachines
  MaxSignals = 3
CHECK_DEADLOCK FALSE
INVARIANTS
  ServesWhenReady
  NothingOutlivesServer
  AutoTuningFits
PROPERTY SignalInLoopExits
