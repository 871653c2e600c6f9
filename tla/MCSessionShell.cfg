CONSTANTS
  shell = shell
  services = services
  early = early
  Modules <- MCModules
  Phase <- MCPhase
  Supervisors <- MCSupervisors
  UnitModules <- MCUnitModules
  MaxRequests = 2
  Retries = 2
  WatchDog = 1
SPECIFICATION SSSpec
CHECK_DEADLOCK FALSE
INVARIANTS ShellTypeOK OrphanOnlyAfterFailure ShellLossNoticed NoLostWakeup
PROPERTIES NoRestartAfterStop LossEndsSession StartReturns Spec
