SPECIFICATION Spec
CONSTANTS
  None = None
  r1 = r1
  r2 = r2
  s1 = s1
  q1 = q1
  q2 = q2
  k1 = k1
  k2 = k2
  c1 = c1
  c2 = c2
  Threads <- StopThreads
  Children <- TwoChildren
  Runs = {}
  Deviceless = {}
  Scripts = {}
  RunOf <- NoScriptOwner
  Captures <- TwoCaptures
  Stops <- TwoStops
  InFlight = FALSE
  TlsChanges = FALSE
  Crashes = FALSE
  HalfActivations = FALSE
  Frida = FALSE
  ForcedIdle = FALSE
PROPERTIES
  StopEndsItsOwn
