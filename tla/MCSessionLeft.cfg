CONSTANTS
  shell = shell
  services = services
  panel = panel
  autostart = autostart
  Modules <- MCModules
  Phase <- MCPhase
  Supervisors <- MCSupervisors
  UnitModules <- MCUnitModules
  MaxRequests = 1
SPECIFICATION Spec
CHECK_DEADLOCK FALSE
INVARIANT NothingLeftRunning
