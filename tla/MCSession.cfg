CONSTANTS
  shell = shell
  services = services
  panel = panel
  autostart = autostart
  Modules <- MCModules
  Phase <- MCPhase
  Supervisors <- MCSupervisors
  UnitModules <- MCUnitModules
  MaxRequests = 3
SPECIFICATION Spec
CHECK_DEADLOCK FALSE
INVARIANTS PhaseBarrier DependenciesUp LeftBehind FailureReported IInv
PROPERTIES StopOrder ShutdownEnds LifecycleSpec
