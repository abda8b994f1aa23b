SPECIFICATION FairSpec
CONSTANTS
  None = None
  r1 = r1
  r2 = r2
  s1 = s1
  q1 = q1
  q2 = q2
  k1 = k1
  k2 = k2
  c1 = c1
  c2 = c2
  Threads <- LeaseThreads
  Children <- TwoChildren
  Runs <- TwoRuns
  Deviceless = {}
  Scripts <- OneScript
  RunOf <- ScriptOwner
  Captures <- TwoCaptures
  Stops <- OneStop
  InFlight = FALSE
  TlsChanges = TRUE
  Crashes = TRUE
  HalfActivations = TRUE
  Frida = FALSE
  ForcedIdle = FALSE
INVARIANTS
  TypeOK
  LeaseExact
  NoOrphan
  RunningSessionReachable
  StatusIsItsOwn
PROPERTIES
  ImplementsLease
  CaptureUndisturbed
  EndedCaptureIsGone
  CaptureCallsReturn
