SPECIFICATION Spec
CONSTANTS
  None = None
  r1 = r1
  r2 = r2
  s1 = s1
  q1 = q1
  q2 = q2
  k1 = k1
  k2 = k2
  c1 = c1
  c2 = c2
  Threads <- LateCallThreads
  Children <- TwoChildren
  Runs <- OneRun
  Deviceless = {}
  Scripts <- OneScript
  RunOf <- ScriptOwner
  Captures <- OneCapture
  Stops <- OneStop
  InFlight = TRUE
  TlsChanges = FALSE
  Crashes = FALSE
  HalfActivations = FALSE
  Frida = FALSE
  ForcedIdle = FALSE
PROPERTIES
  LateSetProxyUndoesItsOwn
