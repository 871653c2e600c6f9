CONSTANTS
  agent = agent
  tray = tray
  portal = portal
  other = other
  Command = Command
  Entries <- MCEntries
  Suitable <- MCSuitable
  HiddenUnderSystemd <- MCHidden
  Activatable <- MCActivatable
  MaxLaunches = 2
SPECIFICATION Spec
CHECK_DEADLOCK FALSE
INVARIANTS TypeOK ObjectPerScope
PROPERTY Collected
