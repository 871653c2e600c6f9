CONSTANTS
  unit = unit
  byHand = byHand
  onDemandOne = onDemandOne
  plain = plain
  locale = locale
  rare = rare
  broken = broken
  widget = widget
  Null = "null"
  Instances <- MCInstances
  Files <- MCFiles
  MaxFiles = 4
  Static <- MCStatic
  Directory <- MCDirectory
  Nothing = Nothing
  Daemons <- MCDaemons
  Units <- MCUnits
  Modules <- MCModules
  AutoLoad <- MCAutoLoad
  Asked <- MCAsked
  MaxSignals = 2
SPECIFICATION Spec
CHECK_DEADLOCK FALSE
INVARIANTS OneLoader RegistryRight
PROPERTIES ModuleComesUp SignalEnds
