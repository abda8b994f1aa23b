SPECIFICATION FairSpec
CONSTANTS
  None = None
  r1 = r1
  r2 = r2
  s1 = s1
  q1 = q1
  q2 = q2
  k1 = k1
  k2 = k2
  c1 = c1
  c2 = c2
  Threads <- RunThreads
  Children <- TwoChildren
  Runs <- TwoRuns
  Deviceless <- SecondRun
  Scripts <- OneScript
  RunOf <- ScriptOwner
  Captures = {}
  Stops = {}
  InFlight = TRUE
  TlsChanges = FALSE
  Crashes = TRUE
  HalfActivations = TRUE
  Frida = TRUE
  ForcedIdle = TRUE
INVARIANTS
  NoDeadEntry
  FreeDeviceIsClean
PROPERTIES
  RunEnds
