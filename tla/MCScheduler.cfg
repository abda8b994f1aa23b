SPECIFICATION Spec
CONSTANTS
  None = None
  managed = managed
  free = free
  d1 = d1
  Automations <- TwoAutomations
  Needless <- FreeAutomation
  Managed <- PluginAutomation
  Edited <- FreeAutomation
  Devices <- OneDevice
  Matches <- AllMatch
INVARIANTS
  TypeOK
  AlertMeansWaiting
  OneRunAtATime
PROPERTIES
  LeavesATrace
  RunnableIsNotDropped
  EveryEntryLeaves
