------------------------ MODULE DeviceControl_proof ------------------------
(***************************************************************************)
(* Theorems about DeviceControl, for every number of runs, script calls,   *)
(* captures, stops and mitmdump processes.                                 *)
(***************************************************************************)
EXTENDS DeviceControl, TLAPS

-----------------------------------------------------------------------------
(* Type correctness: one lemma per component, then the composition.        *)

\* Every operation of the manager, synchronous or awaited, keeps its types.
LEMMA MitmSteps ==
    ASSUME MitmTypeOK, NEW t \in Threads,
           \/ StartCapture(t) \/ StopCapture(t) \/ RestartCapture(t)
           \/ Consume(t) \/ CallWaits(t)
    PROVE  MitmTypeOK'
<1> USE DEF MitmTypeOK, ProcState, CallState, Settled
<1>1. CASE StartCapture(t)
  BY <1>1 DEF StartCapture, Admission, IsCapturing
<1>2. ASSUME NEW w \in {"exiting", "restarting"}, IsCapturing, Detach(t, w)
      PROVE  MitmTypeOK'
  BY <1>2 DEF Detach, IsCapturing
<1>3. CASE StopCapture(t)
  BY <1>2, <1>3 DEF StopCapture
<1>4. CASE RestartCapture(t)
  BY <1>2, <1>4 DEF RestartCapture
<1>5. CASE Consume(t)
  BY <1>5 DEF Consume
<1>6. CASE Spawn(t)
  BY <1>6 DEF Spawn
<1>7. CASE ResolutionFails(t)
  BY <1>7 DEF ResolutionFails
<1>8. CASE Ready(t)
  BY <1>8 DEF Ready
<1>9. CASE ReadyTimeout(t)
  BY <1>9 DEF ReadyTimeout, Kill
<1>10. CASE ExitTimeout(t)
  BY <1>10 DEF ExitTimeout, Kill, Admission, IsCapturing
<1> QED
  BY <1>1, <1>3, <1>4, <1>5, <1>6, <1>7, <1>8, <1>9, <1>10 DEF CallWaits

\* So do the events of a child.
LEMMA ChildSteps ==
    ASSUME MitmTypeOK, NEW c \in Children, ChildExits(c) \/ SpawnError(c)
    PROVE  MitmTypeOK'
<1> USE DEF MitmTypeOK, ProcState, CallState, Settled
<1>1. CASE ChildExits(c)
  <2> DEFINE left == IF processes = c \/ \E t \in Threads : child[t] = c /\ call[t] = "booting"
                       THEN None ELSE processes
  <2>1. /\ proc' = [proc EXCEPT ![c] = "free"]
        /\ processes' = left
        /\ child' = [t \in Threads |-> IF child[t] = c THEN None ELSE child[t]]
    BY <1>1 DEF ChildExits
  <2>2. call' = [t \in Threads |->
              IF child[t] # c THEN call[t]
              ELSE IF call[t] = "booting" THEN "failed"
              ELSE IF call[t] = "exiting" THEN "stopped"
              ELSE IF left = None THEN "resolving" ELSE "already"]
    BY <1>1 DEF ChildExits
  <2>3. call' \in [Threads -> CallState]
    BY <2>2
  <2> QED
    BY <2>1, <2>3
<1>2. CASE SpawnError(c)
  BY <1>2 DEF SpawnError
<1> QED
  BY <1>1, <1>2

\* A step that leaves a component's variables alone keeps its types.
LEMMA Stutter ==
    /\ MitmTypeOK /\ UNCHANGED mitmVars => MitmTypeOK'
    /\ RunnerTypeOK /\ UNCHANGED runnerVars => RunnerTypeOK'
    /\ CaptureTypeOK /\ UNCHANGED captureVars => CaptureTypeOK'
BY DEF MitmTypeOK, mitmVars, RunnerTypeOK, runnerVars, CaptureTypeOK, captureVars, sessionVars, statusVars

\* The steps of a run.
LEMMA RunSteps ==
    ASSUME TypeOK, NEW r \in Runs, RunStarts(r) \/ RunContinues(r) \/ RunAdvances(r)
    PROVE  MitmTypeOK' /\ DeviceTypeOK' /\ RunnerTypeOK'
<1> USE RunnerAssumption, MitmSteps, Stutter DEF TypeOK
<1>1. r \in Threads
  OBVIOUS
<1>2. ASSUME NEW s \in RunState, GoRun(r, s) PROVE RunnerTypeOK'
  BY <1>2 DEF GoRun, RunnerTypeOK
<1>3. ASSUME FinishRun(r) PROVE RunnerTypeOK' /\ busy' = FALSE
  BY <1>3 DEF FinishRun, RunnerTypeOK, RunState, MarkIdle
<1> USE DEF DeviceTypeOK
<1>4. CASE StartRun(r)
  BY <1>1, <1>2, <1>4 DEF StartRun, TryAcquireBusy, RunState
<1>5. CASE StartDevicelessRun(r)
  BY <1>2, <1>5 DEF StartDevicelessRun, RunState, deviceVars
<1>6. CASE RunCaptureReturns(r)
  BY <1>1, <1>6 DEF RunCaptureReturns, RunnerTypeOK, RunState, deviceVars
<1>7. CASE RunStopReturns(r)
  BY <1>1, <1>3, <1>7 DEF RunStopReturns
<1>8. CASE RunTunnel(r)
  BY <1>2, <1>8 DEF RunTunnel, ActivateWireGuardTunnel, ActivationFails, RunState
<1>9. CASE RunCloses(r)
  BY <1>2, <1>9 DEF RunCloses, RunState, deviceVars
<1>10. CASE RunTunnelDown(r)
  BY <1>1, <1>2, <1>3, <1>10 DEF RunTunnelDown, DeactivateWireGuardTunnel, RunState
<1> QED
  BY <1>4, <1>5, <1>6, <1>7, <1>8, <1>9, <1>10 DEF RunStarts, RunContinues, RunAdvances

\* The steps of a script's handler call.
LEMMA ScriptSteps ==
    ASSUME TypeOK, NEW s \in Scripts,
           ScriptCalls(s) \/ ScriptContinues(s) \/ ScriptAdvances(s)
    PROVE  MitmTypeOK' /\ DeviceTypeOK' /\ RunnerTypeOK'
<1> USE RunnerAssumption, MitmSteps, Stutter DEF TypeOK
<1>1. s \in Threads /\ RunOf[s] \in Runs
  OBVIOUS
<1>2. ASSUME NEW p \in ScriptState, GoScript(s, p) PROVE RunnerTypeOK'
  BY <1>2 DEF GoScript, RunnerTypeOK
<1>3. ASSUME NEW p \in ScriptState, Proceed(s, p) PROVE RunnerTypeOK'
  BY <1>2, <1>3 DEF Proceed, ScriptState
<1>4. ASSUME ClearFlag(s), UNCHANGED <<run, captureStarted>>,
             script' = script \/ script' = [script EXCEPT ![s] = "idle"]
      PROVE  RunnerTypeOK'
  BY <1>1, <1>4 DEF ClearFlag, Closed, RunnerTypeOK, ScriptState
<1> USE DEF DeviceTypeOK
<1>5. CASE SetProxy(s)
  BY <1>1, <1>5 DEF SetProxy, RunnerTypeOK, ScriptState, deviceVars
<1>6. CASE SetProxyNone(s)
  BY <1>1, <1>2, <1>4, <1>6 DEF SetProxyNone, ScriptState, deviceVars
<1>7. CASE SetTlsProfile(s)
  BY <1>1, <1>2, <1>7 DEF SetTlsProfile, ScriptState, deviceVars
<1>8. CASE ScriptCaptureReturns(s)
  BY <1>1, <1>2, <1>3, <1>8 DEF ScriptCaptureReturns, ScriptState, deviceVars
<1>9. CASE ScriptUndone(s) \/ NoneStopped(s) \/ TlsRestarted(s)
  BY <1>1, <1>2, <1>9 DEF ScriptUndone, NoneStopped, TlsRestarted, ScriptState, deviceVars
<1>10. CASE ScriptInjects(s) \/ ScriptProbes(s)
  BY <1>3, <1>10 DEF ScriptInjects, ScriptProbes, ScriptState, deviceVars
<1>11. CASE ScriptTunnel(s)
  BY <1>3, <1>11 DEF ScriptTunnel, ActivateWireGuardTunnel, ActivationFails, ScriptState
<1>12. CASE ScriptUndoes(s)
  BY <1>1, <1>2, <1>12 DEF ScriptUndoes, DeactivateWireGuardTunnel, ScriptState
<1>13. CASE NoneDown(s)
  BY <1>1, <1>4, <1>13 DEF NoneDown, DeactivateWireGuardTunnel
<1>14. CASE TlsTunnel(s)
  BY <1>2, <1>14 DEF TlsTunnel, ActivateWireGuardTunnel, ActivationFails, ScriptState
<1> QED
  BY <1>5, <1>6, <1>7, <1>8, <1>9, <1>10, <1>11, <1>12, <1>13, <1>14
  DEF ScriptCalls, ScriptContinues, ScriptAdvances

\* The steps of a capture's start.
LEMMA StartSteps ==
    ASSUME TypeOK, NEW q \in Captures,
           StartSession(q) \/ CaptureContinues(q) \/ CaptureAdvances(q)
    PROVE  MitmTypeOK' /\ DeviceTypeOK' /\ CaptureTypeOK'
<1> USE CaptureAssumption, MitmSteps, Stutter DEF TypeOK
<1>1. q \in Threads
  OBVIOUS
<1>2. ASSUME NEW p \in StartState, GoStart(q, p), Broadcast(q) \/ UNCHANGED shown
      PROVE  CaptureTypeOK'
  BY <1>2 DEF GoStart, Broadcast, CaptureTypeOK
<1>3. ASSUME NEW b \in BOOLEAN, Activated(q, b) PROVE CaptureTypeOK'
  BY <1>3 DEF Activated, Broadcast, CaptureTypeOK, Entry, StartState
<1>4. ASSUME StartFails(q), Broadcast(q) \/ UNCHANGED shown
      PROVE  MitmTypeOK' /\ CaptureTypeOK' /\ busy' = busy
  BY <1>1, <1>2, <1>4 DEF StartFails, StartState
<1> USE DEF DeviceTypeOK
<1>5. CASE StartSession(q)
  BY <1>1, <1>5 DEF StartSession, TryAcquireBusy, CaptureTypeOK, StartState, statusVars
<1>6. CASE CaptureReturns(q)
  BY <1>1, <1>2, <1>4, <1>6 DEF CaptureReturns, StartState
<1>7. CASE StartFailed(q)
  BY <1>1, <1>7 DEF StartFailed, MarkIdle, CaptureTypeOK, StartState
<1>8. CASE SessionTunnel(q)
  BY <1>3, <1>4, <1>8 DEF SessionTunnel, SetupFails, ActivateWireGuardTunnel, ActivationFails
<1>9. CASE SessionProbes(q)
  BY <1>2, <1>3, <1>9 DEF SessionProbes, StartState, deviceVars
<1>10. CASE SessionReactivates(q)
  BY <1>3, <1>4, <1>10 DEF SessionReactivates, SetupFails, ActivateWireGuardTunnel,
                           ActivationFails
<1>11. CASE ProbeReports(q)
  BY <1>11 DEF ProbeReports, CaptureTypeOK, sessionVars, deviceVars
<1> QED
  BY <1>5, <1>6, <1>7, <1>8, <1>9, <1>10, <1>11 DEF CaptureContinues, CaptureAdvances

\* The steps of a capture's stop.
LEMMA StopSteps ==
    ASSUME TypeOK, NEW k \in Stops,
           StopSession(k) \/ StopTunnelDown(k) \/ SessionStopped(k)
    PROVE  MitmTypeOK' /\ DeviceTypeOK' /\ CaptureTypeOK'
<1> USE CaptureAssumption, MitmSteps, Stutter DEF TypeOK, DeviceTypeOK
<1>1. k \in Threads
  OBVIOUS
<1>2. CASE StopSession(k)
  BY <1>1, <1>2 DEF StopSession, CaptureTypeOK, StopState, statusVars, deviceVars
<1>3. CASE StopTunnelDown(k)
  BY <1>1, <1>3 DEF StopTunnelDown, DeactivateWireGuardTunnel, CaptureTypeOK, StopState, statusVars
<1>4. CASE SessionStopped(k)
  BY <1>1, <1>4 DEF SessionStopped, MarkIdle, CaptureTypeOK, StopState
<1> QED
  BY <1>2, <1>3, <1>4

\* Every variable keeps its type: in particular a registered session is always
\* one that was started, and a registered child a real process slot.
THEOREM TypeCorrect == Spec => []TypeOK
<1>1. Init => TypeOK
  <2> SUFFICES ASSUME Init PROVE TypeOK
    OBVIOUS
  <2>1. MitmTypeOK
    BY DEF Init, MitmInit, MitmTypeOK, ProcState, CallState
  <2>2. DeviceTypeOK
    BY DEF Init, DeviceInit, DeviceTypeOK
  <2>3. RunnerTypeOK
    BY DEF Init, RunnerInit, RunnerTypeOK, RunState, ScriptState
  <2>4. CaptureTypeOK
    BY DEF Init, CaptureInit, CaptureTypeOK, StartState, StopState
  <2> QED
    BY <2>1, <2>2, <2>3, <2>4 DEF TypeOK
<1>2. TypeOK /\ [Next]_vars => TypeOK'
  <2> SUFFICES ASSUME TypeOK, [Next]_vars PROVE TypeOK'
    OBVIOUS
  <2> USE Stutter DEF TypeOK
  <2>1. ASSUME NEW r \in Runs, RunStep(r) PROVE TypeOK'
    BY <2>1, RunSteps DEF RunStep
  <2>2. ASSUME NEW s \in Scripts, ScriptStep(s) PROVE TypeOK'
    BY <2>2, ScriptSteps DEF ScriptStep
  <2>3. ASSUME NEW q \in Captures, CaptureStep(q) PROVE TypeOK'
    BY <2>3, StartSteps DEF CaptureStep
  <2>4. ASSUME NEW k \in Stops, StopStep(k) PROVE TypeOK'
    BY <2>4, StopSteps DEF StopStep
  <2>5. ASSUME NEW t \in Threads, WaitStep(t) PROVE TypeOK'
    BY <2>5, MitmSteps DEF WaitStep, deviceVars, DeviceTypeOK
  <2>6. ASSUME NEW c \in Children, ExitStep(c) PROVE TypeOK'
    BY <2>6, ChildSteps DEF ExitStep, deviceVars, DeviceTypeOK
  <2>7. CASE RunnerRequest
    BY <2>7, RunSteps, ScriptSteps DEF RunnerRequest
  <2>8. CASE SessionRequest
    BY <2>8, StartSteps, StopSteps DEF SessionRequest
  <2>9. CASE LeaseEvent
    BY <2>9 DEF LeaseEvent, FridaSpawns, FridaStops, ForceIdle, MarkBusy, MarkIdle,
                DeviceTypeOK
  <2>10. CASE UNCHANGED vars
    BY <2>10 DEF vars, deviceVars, DeviceTypeOK
  <2> QED
    BY <2>1, <2>2, <2>3, <2>4, <2>5, <2>6, <2>7, <2>8, <2>9, <2>10 DEF Next
<1> QED
  BY <1>1, <1>2, PTL DEF Spec

-----------------------------------------------------------------------------
(* The lease.  It carries no owner, so its exactness rests on how its      *)
(* users hand it over: no run with a device it has not acquired, no Frida  *)
(* endpoint, no capture older than the standby limit, one stop at a time.  *)

ExclusiveUse ==
    /\ Deviceless = {} /\ ~Frida /\ ~ForcedIdle
    /\ \A k, l \in Stops : k = l

\* A session is running exactly while its start is in progress or it is the
\* registered one, and a stop works on the registered one.
SessionsMatch ==
    /\ \A q \in Captures : start[q] # "idle" => session[q] = "running"
    /\ RunningSessionReachable
    /\ active # None => session[active.capture] = "running"
                        /\ start[active.capture] = "idle"
    /\ \A k \in Stops : stop[k] # "idle" => active # None /\ target[k] = active

LeaseInv == LeaseExact /\ SessionsMatch

\* The abstract step, or none.
LeaseMove ==
    \/ Holders' = Holders
    \/ \E p \in Runs \cup Captures : Lease!Take(p) \/ Lease!Yield(p)

\* A step that moves no holder and no session keeps the invariant.
LEMMA KeepLease ==
    ASSUME LeaseInv, busy' = busy, AttachedRuns' = AttachedRuns, UNCHANGED sessionVars
    PROVE  LeaseInv' /\ LeaseMove
BY DEF LeaseInv, LeaseExact, SessionsMatch, RunningSessionReachable, LeaseMove,
       Holders, RunningSessions, sessionVars

\* A run that goes on keeps its place among the holders.
LEMMA RunGoesOn ==
    ASSUME TypeOK, NEW r \in Runs, NEW p \in RunState \ {"idle"},
           run[r] # "idle", run' = [run EXCEPT ![r] = p]
    PROVE  AttachedRuns' = AttachedRuns
BY DEF TypeOK, RunnerTypeOK, AttachedRuns

\* The steps of a run hand the lease over one holder at a time.
LEMMA RunLease ==
    ASSUME ExclusiveUse, TypeOK, LeaseInv, NEW r \in Runs, UNCHANGED sessionVars,
           RunStarts(r) \/ RunContinues(r) \/ RunAdvances(r)
    PROVE  LeaseInv' /\ LeaseMove
<1> USE DEF RunState
<1>1. CASE StartRun(r)
  <2>1. /\ busy = FALSE /\ busy' = TRUE /\ run[r] = "idle"
        /\ run' = [run EXCEPT ![r] = "capture"] \/ run' = [run EXCEPT ![r] = "script"]
    BY <1>1 DEF StartRun, TryAcquireBusy, FreshRun, GoRun, TypeOK, DeviceTypeOK
  <2>2. Holders = {} /\ Holders' = {r}
    BY <2>1 DEF ExclusiveUse, LeaseInv, LeaseExact, Holders, AttachedRuns,
                RunningSessions, sessionVars, TypeOK, RunnerTypeOK
  <2>3. LeaseMove
    BY <2>2 DEF LeaseMove, Lease!Take
  <2> QED
    BY <2>1, <2>2, <2>3 DEF LeaseInv, LeaseExact, SessionsMatch, RunningSessionReachable,
                            RunningSessions, sessionVars
<1>2. CASE StartDevicelessRun(r)
  BY <1>2 DEF StartDevicelessRun, ExclusiveUse
<1>3. ASSUME run[r] # "idle", FinishRun(r) PROVE LeaseInv' /\ LeaseMove
  <2>1. busy' = FALSE /\ run' = [run EXCEPT ![r] = "idle"]
    BY <1>3 DEF FinishRun, MarkIdle
  <2>4. r \in AttachedRuns /\ AttachedRuns' = AttachedRuns \ {r}
    BY <1>3, <2>1 DEF ExclusiveUse, AttachedRuns, TypeOK, RunnerTypeOK
  <2>5. RunningSessions' = RunningSessions
    BY DEF RunningSessions, sessionVars
  <2>6. Holders = {r}
    BY <2>4 DEF LeaseInv, LeaseExact, Holders
  <2>7. Captures \cap Runs = {}
    BY ThreadsAssumption
  <2>2. Holders = {r} /\ Holders' = {}
    BY <2>4, <2>5, <2>6, <2>7 DEF Holders, RunningSessions
  <2>3. LeaseMove
    BY <2>2 DEF LeaseMove, Lease!Yield
  <2> QED
    BY <2>1, <2>2, <2>3 DEF LeaseInv, LeaseExact, SessionsMatch, RunningSessionReachable,
                            RunningSessions, sessionVars
<1>4. CASE RunCaptureReturns(r)
  BY <1>4, RunGoesOn, KeepLease DEF RunCaptureReturns, deviceVars
<1>5. CASE RunStopReturns(r)
  BY <1>3, <1>5 DEF RunStopReturns
<1>6. CASE RunTunnel(r)
  BY <1>6, RunGoesOn, KeepLease DEF RunTunnel, GoRun
<1>7. CASE RunCloses(r)
  BY <1>7, RunGoesOn, KeepLease DEF RunCloses, GoRun, deviceVars
<1>8. CASE RunTunnelDown(r)
  BY <1>3, <1>8, RunGoesOn, KeepLease DEF RunTunnelDown, GoRun
<1> QED
  BY <1>1, <1>2, <1>4, <1>5, <1>6, <1>7, <1>8 DEF RunStarts, RunContinues, RunAdvances

\* A handler call never touches the lease, whenever it runs.
LEMMA ScriptLease ==
    ASSUME NEW s \in Scripts, ScriptCalls(s) \/ ScriptContinues(s) \/ ScriptAdvances(s)
    PROVE  busy' = busy /\ run' = run
BY DEF ScriptCalls, ScriptContinues, ScriptAdvances, SetProxy, SetProxyNone, SetTlsProfile,
       ScriptCaptureReturns, ScriptUndone, NoneStopped, TlsRestarted, ScriptInjects,
       ScriptTunnel, ScriptProbes, ScriptUndoes, NoneDown, TlsTunnel, GoScript, Proceed,
       deviceVars

\* The session a start belongs to is the only holder, and none is registered.
LEMMA StarterAlone ==
    ASSUME TypeOK, LeaseInv, NEW q \in Captures, start[q] # "idle"
    PROVE  Holders = {q} /\ active = None /\ busy = TRUE
<1>1. q \in RunningSessions
  BY DEF LeaseInv, SessionsMatch, RunningSessions
<1>2. Holders = {q} /\ busy = TRUE
  BY <1>1 DEF LeaseInv, LeaseExact, Holders, TypeOK, DeviceTypeOK
<1>3. ASSUME active # None PROVE FALSE
  <2>1. active.capture \in Captures
    BY <1>3 DEF TypeOK, CaptureTypeOK, Entry
  <2>2. active.capture \in Holders
    BY <1>3, <2>1 DEF LeaseInv, SessionsMatch, RunningSessions, Holders
  <2> QED
    BY <1>2, <1>3, <2>2 DEF LeaseInv, SessionsMatch
<1> QED
  BY <1>2, <1>3

\* The steps of a capture's start.
LEMMA StartLease ==
    ASSUME ExclusiveUse, TypeOK, LeaseInv, NEW q \in Captures, UNCHANGED runnerVars,
           StartSession(q) \/ CaptureContinues(q) \/ CaptureAdvances(q)
    PROVE  LeaseInv' /\ LeaseMove
<1>1. AttachedRuns' = AttachedRuns /\ start \in [Captures -> StartState]
      /\ session \in [Captures -> {"none", "running", "ended"}]
  BY DEF runnerVars, AttachedRuns, TypeOK, CaptureTypeOK
<1>2. ASSUME NEW p \in StartState \ {"idle"}, start[q] # "idle", GoStart(q, p), busy' = busy
      PROVE  LeaseInv' /\ LeaseMove
  <2>1. active' = None /\ active = None
    BY <1>2, StarterAlone DEF GoStart
  <2>2. Holders' = Holders
    BY <1>1, <1>2 DEF GoStart, Holders, RunningSessions
  <2> QED
    BY <1>1, <1>2, <2>1, <2>2
    DEF LeaseInv, LeaseExact, SessionsMatch, RunningSessionReachable, RunningSessions,
        LeaseMove, GoStart
<1>3. ASSUME start[q] # "idle", StartFails(q) PROVE LeaseInv' /\ LeaseMove
  BY <1>2, <1>3 DEF StartFails, StartState
<1>4. ASSUME NEW b \in BOOLEAN, start[q] # "idle", Activated(q, b), busy' = busy
      PROVE  LeaseInv' /\ LeaseMove
  <2>1. Holders = {q} /\ active = None
    BY <1>4, StarterAlone
  <2>2. Holders' = Holders
    BY <1>1, <1>4 DEF Activated, Holders, RunningSessions
  <2>3. active' = [capture |-> q, tunnel |-> b] /\ active' \in Entry
    BY <1>4 DEF Activated, Entry
  <2>4. active' # None /\ active'.capture = q
    BY <2>3, NoneIsNoEntry
  <2>5. session' = session /\ session[q] = "running" /\ start'[q] = "idle"
    BY <1>1, <1>4 DEF Activated, LeaseInv, SessionsMatch
  <2>6. \A o \in Captures : session[o] = "running" => o = q
    BY <2>1 DEF Holders, RunningSessions
  <2>7. \A k \in Stops : stop'[k] = "idle" \/ stop[k] # "idle"
    BY <1>4 DEF Activated
  <2> QED
    BY <1>1, <1>4, <2>1, <2>2, <2>4, <2>5, <2>6, <2>7
    DEF LeaseInv, LeaseExact, SessionsMatch, RunningSessionReachable, RunningSessions,
        LeaseMove, Activated
<1>5. CASE StartSession(q)
  <2>1. /\ busy = FALSE /\ busy' = TRUE /\ start[q] = "idle" /\ active = None
        /\ active' = active /\ stop' = stop /\ target' = target
        /\ start' = [start EXCEPT ![q] = "capture"]
        /\ session' = [session EXCEPT ![q] = "running"]
    BY <1>5 DEF StartSession, TryAcquireBusy, FreshCapture, TypeOK, DeviceTypeOK
  <2>2. Holders = {}
    BY <2>1 DEF LeaseInv, LeaseExact
  <2>3. Holders' = {q}
    BY <1>1, <2>1, <2>2 DEF Holders, RunningSessions
  <2>4. LeaseMove
    BY <2>2, <2>3 DEF LeaseMove, Lease!Take
  <2> QED
    BY <1>1, <2>1, <2>2, <2>3, <2>4
    DEF LeaseInv, LeaseExact, SessionsMatch, RunningSessionReachable, RunningSessions
<1>6. CASE CaptureReturns(q)
  BY <1>2, <1>3, <1>6 DEF CaptureReturns, StartState
<1>7. CASE StartFailed(q)
  <2>1. /\ start[q] # "idle" /\ busy' = FALSE
        /\ active' = active /\ stop' = stop /\ target' = target
        /\ start' = [start EXCEPT ![q] = "idle"]
        /\ session' = [session EXCEPT ![q] = "ended"]
    BY <1>7 DEF StartFailed, MarkIdle
  <2>2. Holders = {q} /\ active = None
    BY <2>1, StarterAlone
  <2>3. Holders' = {}
    <3>1. q \notin Runs
      BY ThreadsAssumption
    <3> QED
      BY <1>1, <2>1, <2>2, <3>1 DEF Holders, RunningSessions, AttachedRuns
  <2>4. LeaseMove
    BY <2>2, <2>3 DEF LeaseMove, Lease!Yield
  <2> QED
    BY <1>1, <2>1, <2>2, <2>3, <2>4
    DEF LeaseInv, LeaseExact, SessionsMatch, RunningSessionReachable, Holders, RunningSessions
<1>8. CASE SessionTunnel(q)
  BY <1>3, <1>4, <1>8 DEF SessionTunnel, SetupFails
<1>9. CASE SessionProbes(q)
  BY <1>2, <1>4, <1>9 DEF SessionProbes, StartState, deviceVars
<1>10. CASE SessionReactivates(q)
  BY <1>3, <1>4, <1>10 DEF SessionReactivates, SetupFails
<1>11. CASE ProbeReports(q)
  BY <1>1, <1>11, KeepLease DEF ProbeReports, deviceVars
<1> QED
  BY <1>5, <1>6, <1>7, <1>8, <1>9, <1>10, <1>11 DEF CaptureContinues, CaptureAdvances

\* The steps of the stop: only its last one gives the lease back.
LEMMA StopLease ==
    ASSUME ExclusiveUse, TypeOK, LeaseInv, NEW k \in Stops, UNCHANGED runnerVars,
           StopSession(k) \/ StopTunnelDown(k) \/ SessionStopped(k)
    PROVE  LeaseInv' /\ LeaseMove
<1>1. AttachedRuns' = AttachedRuns
      /\ stop \in [Stops -> StopState] /\ target \in [Stops -> Entry \cup {None}]
      /\ session \in [Captures -> {"none", "running", "ended"}]
  BY DEF runnerVars, AttachedRuns, TypeOK, CaptureTypeOK
<1>2. CASE StopSession(k)
  <2>1. /\ active # None /\ active' = active /\ busy' = busy
        /\ start' = start /\ session' = session
        /\ target' = [target EXCEPT ![k] = active]
    BY <1>2 DEF StopSession, deviceVars
  <2>2. Holders' = Holders /\ \A l \in Stops : target'[l] = active
    BY <1>1, <2>1 DEF Holders, RunningSessions, ExclusiveUse
  <2> QED
    BY <2>1, <2>2
    DEF LeaseInv, LeaseExact, SessionsMatch, RunningSessionReachable, RunningSessions,
        LeaseMove
<1>3. CASE StopTunnelDown(k)
  <2>1. /\ stop[k] # "idle" /\ busy' = busy /\ active' = active /\ start' = start
        /\ session' = session /\ target' = target
        /\ stop' = [stop EXCEPT ![k] = "stopping"]
    BY <1>3 DEF StopTunnelDown
  <2>2. Holders' = Holders
    BY <1>1, <2>1 DEF Holders, RunningSessions
  <2> QED
    BY <1>1, <2>1, <2>2
    DEF LeaseInv, LeaseExact, SessionsMatch, RunningSessionReachable, RunningSessions,
        LeaseMove, StopState
<1>4. CASE SessionStopped(k)
  <2> DEFINE q == active.capture
  <2>1. /\ stop[k] # "idle" /\ busy' = FALSE /\ active' = None /\ start' = start
        /\ session' = [session EXCEPT ![target[k].capture] = "ended"]
        /\ stop' = [stop EXCEPT ![k] = "idle"]
    BY <1>4 DEF SessionStopped, MarkIdle
  <2>2. active # None /\ target[k] = active
    BY <2>1 DEF LeaseInv, SessionsMatch
  <2>3. q \in Captures /\ session[q] = "running" /\ start[q] = "idle"
    BY <2>2 DEF LeaseInv, SessionsMatch, TypeOK, CaptureTypeOK, Entry
  <2>4. Holders = {q}
    BY <2>3 DEF LeaseInv, LeaseExact, Holders, RunningSessions
  <2>5. session' = [session EXCEPT ![q] = "ended"] /\ q \notin Runs
    BY <2>1, <2>2, <2>3, ThreadsAssumption
  <2> HIDE DEF q
  <2>6. Holders' = {}
    BY <1>1, <2>3, <2>4, <2>5 DEF Holders, RunningSessions, AttachedRuns
  <2>7. LeaseMove
    BY <2>3, <2>4, <2>6 DEF LeaseMove, Lease!Yield
  <2>8. \A l \in Stops : stop'[l] = "idle"
    BY <1>1, <2>1 DEF ExclusiveUse
  <2>9. \A o \in Captures : session'[o] # "running"
    BY <2>6 DEF Holders, RunningSessions
  <2>10. \A o \in Captures : start[o] = "idle"
    BY <2>2, StarterAlone
  <2> QED
    BY <2>1, <2>6, <2>7, <2>8, <2>9, <2>10
    DEF LeaseInv, LeaseExact, SessionsMatch, RunningSessionReachable, RunningSessions
<1> QED
  BY <1>2, <1>3, <1>4

\* Every step of the composition keeps the lease invariant, and moves the device
\* to another holder only as the abstract lease does.
LEMMA LeaseStep ==
    ASSUME ExclusiveUse, TypeOK, LeaseInv, [Next]_vars
    PROVE  LeaseInv' /\ LeaseMove
<1>1. ASSUME UNCHANGED <<busy, run, sessionVars>> PROVE LeaseInv' /\ LeaseMove
  BY <1>1, KeepLease DEF AttachedRuns
<1>2. ASSUME NEW r \in Runs, RunStep(r) PROVE LeaseInv' /\ LeaseMove
  BY <1>2, RunLease DEF RunStep, captureVars
<1>3. ASSUME NEW s \in Scripts, ScriptStep(s) PROVE LeaseInv' /\ LeaseMove
  BY <1>1, <1>3, ScriptLease DEF ScriptStep, captureVars
<1>4. ASSUME NEW q \in Captures, CaptureStep(q) PROVE LeaseInv' /\ LeaseMove
  BY <1>4, StartLease DEF CaptureStep
<1>5. ASSUME NEW k \in Stops, StopStep(k) PROVE LeaseInv' /\ LeaseMove
  BY <1>5, StopLease DEF StopStep
<1>6. ASSUME NEW t \in Threads, WaitStep(t) PROVE LeaseInv' /\ LeaseMove
  BY <1>1, <1>6 DEF WaitStep, deviceVars, runnerVars, captureVars
<1>7. ASSUME NEW c \in Children, ExitStep(c) PROVE LeaseInv' /\ LeaseMove
  BY <1>1, <1>7 DEF ExitStep, deviceVars, runnerVars, captureVars
<1>8. CASE RunnerRequest
  BY <1>1, <1>8, RunLease, ScriptLease DEF RunnerRequest, captureVars
<1>9. CASE SessionRequest
  BY <1>9, StartLease, StopLease DEF SessionRequest
<1>10. CASE LeaseEvent
  BY <1>10 DEF LeaseEvent, FridaSpawns, FridaStops, ForceIdle, ExclusiveUse
<1>11. CASE UNCHANGED vars
  BY <1>1, <1>11 DEF vars, deviceVars, runnerVars, captureVars
<1> QED
  BY <1>2, <1>3, <1>4, <1>5, <1>6, <1>7, <1>8, <1>9, <1>10, <1>11 DEF Next

\* Nobody holds the device at the start.
LEMMA LeaseStart == Init => LeaseInv /\ Holders = {}
BY DEF Init, DeviceInit, RunnerInit, CaptureInit, LeaseInv, LeaseExact, SessionsMatch,
       RunningSessionReachable, Holders, AttachedRuns, RunningSessions

\* The inductive invariant behind the three theorems on the lease.
LEMMA LeaseInvariant ==
    ASSUME ExclusiveUse PROVE Spec => []LeaseInv
<1>1. TypeOK /\ LeaseInv /\ [Next]_vars => LeaseInv'
  BY ExclusiveUse, LeaseStep
<1> QED
  BY <1>1, LeaseStart, TypeCorrect, PTL DEF Spec

\* With the device used as ExclusiveUse says, the busy flag is up exactly while
\* one run or session holds the device, and never for two of them, whatever
\* mitmdump does and however long a script's setProxy outlives its run.
THEOREM LeaseIsExact ==
    ASSUME ExclusiveUse PROVE Spec => []LeaseExact
<1>1. LeaseInv => LeaseExact
  BY DEF LeaseInv
<1> QED
  BY <1>1, LeaseInvariant, PTL

\* Under the same conditions a stop request can always reach a running session.
THEOREM SessionsReachable ==
    ASSUME ExclusiveUse PROVE Spec => []RunningSessionReachable
<1>1. LeaseInv => RunningSessionReachable
  BY DEF LeaseInv, SessionsMatch
<1> QED
  BY <1>1, LeaseInvariant, PTL

\* And the device changes hands only as the abstract lease allows.
THEOREM LeaseImplemented ==
    ASSUME ExclusiveUse PROVE Spec => ImplementsLease
<1>1. TypeOK /\ LeaseInv /\ [Next]_vars => [Lease!LeaseNext]_Holders
  BY ExclusiveUse, LeaseStep DEF LeaseMove, Lease!LeaseNext
<1>2. Init => Lease!LeaseInit
  BY LeaseStart DEF Lease!LeaseInit
<1> QED
  BY <1>1, <1>2, TypeCorrect, LeaseInvariant, PTL DEF Spec, ImplementsLease, Lease!LeaseSpec

\* Under the same conditions a late probe never speaks over the registered
\* session: a session is registered only when no other is, and what its clients
\* hear from then on is its own.
THEOREM StatusStaysOwn ==
    ASSUME ExclusiveUse PROVE Spec => []StatusIsItsOwn
<1>1. Init => StatusIsItsOwn
  BY DEF Init, CaptureInit, StatusIsItsOwn
<1>2. TypeOK /\ LeaseInv /\ StatusIsItsOwn /\ [Next]_vars => StatusIsItsOwn'
  <2> SUFFICES ASSUME TypeOK, LeaseInv, StatusIsItsOwn, [Next]_vars
               PROVE  StatusIsItsOwn'
    OBVIOUS
  <2>1. ASSUME UNCHANGED <<active, shown>> PROVE StatusIsItsOwn'
    BY <2>1 DEF StatusIsItsOwn
  <2>2. ASSUME UNCHANGED captureVars PROVE StatusIsItsOwn'
    BY <2>1, <2>2 DEF captureVars, sessionVars, statusVars
  <2>3. ASSUME NEW q \in Captures, NEW b \in BOOLEAN, Activated(q, b)
        PROVE  StatusIsItsOwn'
    BY <2>3 DEF Activated, Broadcast, StatusIsItsOwn
  <2>4. ASSUME NEW q \in Captures, start[q] # "idle", active' = active
        PROVE  StatusIsItsOwn'
    BY <2>4, StarterAlone DEF StatusIsItsOwn
  <2>5. ASSUME NEW q \in Captures, CaptureStep(q) PROVE StatusIsItsOwn'
    <3>1. CASE CaptureContinues(q) /\ start[q] # "idle"
      BY <2>4, <3>1 DEF CaptureContinues, CaptureReturns, StartFailed, StartFails, GoStart
    <3>2. CASE SessionTunnel(q)
      BY <2>3, <2>4, <3>2 DEF SessionTunnel, SetupFails, StartFails, GoStart
    <3>3. CASE SessionProbes(q)
      BY <2>3, <2>4, <3>3 DEF SessionProbes, GoStart
    <3>4. CASE SessionReactivates(q)
      BY <2>3, <2>4, <3>4 DEF SessionReactivates, SetupFails, StartFails, GoStart
    <3>5. CASE ProbeReports(q)
      BY <3>5 DEF ProbeReports, sessionVars, StatusIsItsOwn
    <3> QED
      BY <2>5, <3>1, <3>2, <3>3, <3>4, <3>5
      DEF CaptureStep, CaptureContinues, CaptureAdvances, CaptureReturns, StartFailed
  <2>6. ASSUME NEW k \in Stops, StopStep(k) PROVE StatusIsItsOwn'
    BY <2>1, <2>6
    DEF StopStep, SessionStopped, StopTunnelDown, statusVars, StatusIsItsOwn
  <2>7. CASE SessionRequest
    BY <2>1, <2>7 DEF SessionRequest, StartSession, StopSession, statusVars
  <2>8. CASE LeaseEvent
    BY <2>2, <2>8 DEF LeaseEvent, FridaSpawns, FridaStops, ForceIdle
  <2> QED
    BY <2>2, <2>5, <2>6, <2>7, <2>8
    DEF Next, RunStep, ScriptStep, WaitStep, ExitStep, RunnerRequest, vars
<1> QED
  BY <1>1, <1>2, TypeCorrect, LeaseInvariant, PTL DEF Spec

-----------------------------------------------------------------------------
(* The registered child.  NoDeadEntry is not inductive: the timer of a stop *)
(* kills the child that the stop waits for, which must not be registered.  *)

\* A child that a stop or a restart waits for has been told to go, or is gone.
LeavingChildren ==
    \A t \in Threads : call[t] \in {"exiting", "restarting"} /\ child[t] \in Children
                         => proc[child[t]] # "live"

RegistryInv == NoDeadEntry /\ LeavingChildren

\* A call registers only a child that lives, and deregisters whatever it stops.
LEMMA RegistryCalls ==
    ASSUME MitmTypeOK, RegistryInv, NEW t \in Threads,
           \/ StartCapture(t) \/ StopCapture(t) \/ RestartCapture(t)
           \/ Consume(t) \/ CallWaits(t)
    PROVE  RegistryInv'
<1> USE NoneIsNoChild DEF RegistryInv, NoDeadEntry, LeavingChildren, IsCapturing, MitmTypeOK
<1>1. CASE StartCapture(t)
  BY <1>1 DEF StartCapture, Admission
<1>2. ASSUME NEW w, IsCapturing, Detach(t, w) PROVE RegistryInv'
  BY <1>2 DEF Detach
<1>3. CASE StopCapture(t)
  BY <1>2, <1>3 DEF StopCapture
<1>4. CASE RestartCapture(t)
  BY <1>2, <1>4 DEF RestartCapture
<1>5. CASE Consume(t)
  BY <1>5 DEF Consume
<1>6. CASE Spawn(t)
  BY <1>6 DEF Spawn
<1>7. CASE ResolutionFails(t)
  BY <1>7 DEF ResolutionFails
<1>8. CASE Ready(t)
  BY <1>8 DEF Ready
<1>9. CASE ReadyTimeout(t)
  BY <1>9 DEF ReadyTimeout, Kill
<1>10. CASE ExitTimeout(t)
  BY <1>10 DEF ExitTimeout, Kill, Admission
<1> QED
  BY <1>1, <1>3, <1>4, <1>5, <1>6, <1>7, <1>8, <1>9, <1>10 DEF CallWaits

\* The event of a child that dies deregisters it.
LEMMA RegistryExits ==
    ASSUME MitmTypeOK, RegistryInv, NEW c \in Children, ChildExits(c) \/ SpawnError(c)
    PROVE  RegistryInv'
<1> USE NoneIsNoChild DEF RegistryInv, NoDeadEntry, LeavingChildren, IsCapturing, MitmTypeOK
<1>1. CASE ChildExits(c)
  <2>1. /\ proc' = [proc EXCEPT ![c] = "free"]
        /\ processes' = None \/ (processes' = processes /\ processes # c)
        /\ child' = [t \in Threads |-> IF child[t] = c THEN None ELSE child[t]]
        /\ \A t \in Threads : child[t] # c => call'[t] = call[t]
    BY <1>1 DEF ChildExits
  <2> QED
    BY <2>1
<1>2. CASE SpawnError(c)
  BY <1>2 DEF SpawnError
<1> QED
  BY <1>1, <1>2

\* isCapturing never answers for a child that has exited or that the manager
\* itself has told to stop, however starts, stops, restarts, crashes and timers
\* of any number of callers interleave.
THEOREM RegistryIsLive == Spec => []NoDeadEntry
<1>1. Init => RegistryInv
  BY DEF Init, MitmInit, RegistryInv, NoDeadEntry, LeavingChildren, IsCapturing
<1>2. TypeOK /\ RegistryInv /\ [Next]_vars => RegistryInv'
  <2> SUFFICES ASSUME TypeOK, RegistryInv, [Next]_vars PROVE RegistryInv'
    OBVIOUS
  <2>1. ASSUME UNCHANGED mitmVars PROVE RegistryInv'
    BY <2>1 DEF mitmVars, RegistryInv, NoDeadEntry, LeavingChildren, IsCapturing
  <2> USE RegistryCalls, RunnerAssumption, CaptureAssumption DEF TypeOK
  <2>2. ASSUME NEW r \in Runs, RunStarts(r) \/ RunContinues(r) \/ RunAdvances(r)
        PROVE  RegistryInv'
    BY <2>1, <2>2
    DEF RunStarts, RunContinues, RunAdvances, StartRun, StartDevicelessRun,
        RunCaptureReturns, RunStopReturns, RunTunnel, RunCloses, RunTunnelDown
  <2>3. ASSUME NEW s \in Scripts, ScriptCalls(s) \/ ScriptContinues(s) \/ ScriptAdvances(s)
        PROVE  RegistryInv'
    BY <2>1, <2>3
    DEF ScriptCalls, ScriptContinues, ScriptAdvances, SetProxy, SetProxyNone,
        SetTlsProfile, ScriptCaptureReturns, ScriptUndone, NoneStopped, TlsRestarted,
        ScriptInjects, ScriptTunnel, ScriptProbes, ScriptUndoes, NoneDown, TlsTunnel
  <2>4. ASSUME NEW q \in Captures, StartSession(q) \/ CaptureContinues(q) \/ CaptureAdvances(q)
        PROVE  RegistryInv'
    BY <2>1, <2>4
    DEF StartSession, CaptureContinues, CaptureAdvances, CaptureReturns, StartFailed,
        SessionTunnel, SessionProbes, SessionReactivates, StartFails, SetupFails,
        ProbeReports
  <2>5. ASSUME NEW k \in Stops, StopSession(k) \/ StopTunnelDown(k) \/ SessionStopped(k)
        PROVE  RegistryInv'
    BY <2>1, <2>5 DEF StopSession, StopTunnelDown, SessionStopped
  <2>6. ASSUME NEW t \in Threads, WaitStep(t) PROVE RegistryInv'
    BY <2>6 DEF WaitStep
  <2>7. ASSUME NEW c \in Children, ExitStep(c) PROVE RegistryInv'
    BY <2>7, RegistryExits DEF ExitStep
  <2>8. CASE LeaseEvent
    BY <2>1, <2>8 DEF LeaseEvent, FridaSpawns, FridaStops, ForceIdle
  <2>9. CASE UNCHANGED vars
    BY <2>1, <2>9 DEF vars
  <2> QED
    BY <2>2, <2>3, <2>4, <2>5, <2>6, <2>7, <2>8, <2>9
    DEF Next, RunStep, ScriptStep, CaptureStep, StopStep, RunnerRequest, SessionRequest
<1>3. RegistryInv => NoDeadEntry
  BY DEF RegistryInv
<1> QED
  BY <1>1, <1>2, <1>3, TypeCorrect, PTL DEF Spec


-----------------------------------------------------------------------------
(* Threads and their calls, whoever uses the device.                       *)

Waiting == {"booting", "exiting", "restarting"}

Starting == {"resolving", "booting", "restarting", "ready", "already", "failed"}

Stopping == {"exiting", "stopped"}

\* A thread has a call of the manager only where its own code awaits one of that
\* kind, and waits for a child only while the call does.
Phase(t) ==
    /\ call[t] \in Starting =>
         /\ t \in Runs => run[t] = "capture"
         /\ t \in Scripts => script[t] \in {"start", "restart", "tls"}
         /\ t \in Captures => start[t] = "capture"
         /\ t \notin Stops
    /\ call[t] \in Stopping =>
         /\ t \in Runs => run[t] = "stopping"
         /\ t \in Scripts => script[t] \in {"noneStop", "undoStop"}
         /\ t \in Captures => start[t] = "failing"
         /\ t \in Stops => stop[t] = "stopping"
    /\ call[t] \notin Waiting => child[t] = None

CallsMatch == \A t \in Threads : Phase(t)

\* Only thread t moves.
Alone(t) ==
    /\ \A u \in Threads \ {t} : call'[u] = call[u] /\ child'[u] = child[u]
    /\ \A r \in Runs \ {t} : run'[r] = run[r]
    /\ \A s \in Scripts \ {t} : script'[s] = script[s]
    /\ \A q \in Captures \ {t} : start'[q] = start[q]
    /\ \A k \in Stops \ {t} : stop'[k] = stop[k]

LEMMA AloneKeepsPhases ==
    ASSUME CallsMatch, NEW t \in Threads, Alone(t), Phase(t)'
    PROVE  CallsMatch'
<1> SUFFICES ASSUME NEW u \in Threads \ {t} PROVE Phase(u)'
  BY DEF CallsMatch
<1> QED
  BY DEF CallsMatch, Phase, Alone

\* A call moves no other thread's call.
LEMMA CallsAlone ==
    ASSUME MitmTypeOK, NEW t \in Threads,
           \/ StartCapture(t) \/ StopCapture(t) \/ RestartCapture(t)
           \/ Consume(t) \/ CallWaits(t) \/ UNCHANGED mitmVars
    PROVE  \A u \in Threads \ {t} : call'[u] = call[u] /\ child'[u] = child[u]
BY DEF MitmTypeOK, StartCapture, StopCapture, RestartCapture, Detach, Consume, CallWaits,
       Spawn, ResolutionFails, Ready, ReadyTimeout, ExitTimeout, mitmVars

\* Where the own call ends up.
LEMMA OwnCall ==
    ASSUME MitmTypeOK, NEW t \in Threads, Phase(t)
    PROVE  /\ StartCapture(t) /\ call[t] \notin Waiting
                => call'[t] \in {"already", "resolving"} /\ child'[t] = None
           /\ StopCapture(t) /\ call[t] \notin Waiting
                => call'[t] \in Stopping /\ (call'[t] = "stopped" => child'[t] = None)
           /\ RestartCapture(t) => call'[t] = "restarting"
           /\ Consume(t) /\ call[t] \notin Waiting => call'[t] = "none" /\ child'[t] = None
           /\ CallWaits(t) => /\ \/ call[t] \in Starting /\ call'[t] \in Starting
                                 \/ call[t] \in Stopping /\ call'[t] \in Stopping
                              /\ call'[t] \notin Waiting => child'[t] = None
BY DEF MitmTypeOK, StartCapture, Admission, StopCapture, RestartCapture, Detach, Consume,
       CallWaits, Spawn, ResolutionFails, Ready, ReadyTimeout, ExitTimeout, Phase, Waiting,
       Starting, Stopping

LEMMA RunPhases ==
    ASSUME TypeOK, CallsMatch, NEW r \in Runs, UNCHANGED captureVars,
           RunStarts(r) \/ RunContinues(r) \/ RunAdvances(r)
    PROVE  CallsMatch'
<1> r \in Threads /\ r \notin Scripts /\ r \notin Captures /\ r \notin Stops
  BY ThreadsAssumption
<1> Phase(r) /\ MitmTypeOK
  BY DEF CallsMatch, TypeOK
<1>1. start' = start /\ stop' = stop /\ script' = script
  BY DEF captureVars, sessionVars, RunStarts, RunContinues, RunAdvances, StartRun,
         StartDevicelessRun, RunCaptureReturns, RunStopReturns, RunTunnel, RunCloses,
         RunTunnelDown, GoRun, FinishRun
<1>2. \A o \in Runs \ {r} : run'[o] = run[o]
  BY DEF TypeOK, RunnerTypeOK, RunStarts, RunContinues, RunAdvances, StartRun,
         StartDevicelessRun, RunCaptureReturns, RunStopReturns, RunTunnel, RunCloses,
         RunTunnelDown, GoRun, FinishRun
<1>3. \A u \in Threads \ {r} : call'[u] = call[u] /\ child'[u] = child[u]
  <2>1. StartCapture(r) \/ StopCapture(r) \/ Consume(r) \/ UNCHANGED mitmVars
    BY DEF RunStarts, RunContinues, RunAdvances, StartRun,
         StartDevicelessRun, RunCaptureReturns, RunStopReturns, RunTunnel, RunCloses,
         RunTunnelDown
  <2> QED
    BY <2>1, CallsAlone
<1>4. Phase(r)'
  <2> USE OwnCall DEF Phase, TypeOK, RunnerTypeOK, Waiting, Starting, Stopping
  <2>1. CASE StartRun(r)
    BY <2>1 DEF StartRun, FreshRun, GoRun, mitmVars
  <2>2. CASE StartDevicelessRun(r)
    BY <2>2 DEF StartDevicelessRun, FreshRun, GoRun, mitmVars
  <2>3. CASE RunCaptureReturns(r)
    BY <2>3 DEF RunCaptureReturns, Settled
  <2>4. CASE RunStopReturns(r)
    BY <2>4 DEF RunStopReturns, FinishRun
  <2>5. CASE RunTunnel(r)
    BY <2>5 DEF RunTunnel, GoRun, mitmVars
  <2>6. CASE RunCloses(r)
    BY <2>6 DEF RunCloses, GoRun, mitmVars
  <2>7. CASE RunTunnelDown(r)
    BY <2>7 DEF RunTunnelDown, GoRun, FinishRun, mitmVars
  <2> QED
    BY <2>1, <2>2, <2>3, <2>4, <2>5, <2>6, <2>7 DEF RunStarts, RunContinues, RunAdvances
<1> QED
  BY <1>1, <1>2, <1>3, <1>4, AloneKeepsPhases DEF Alone

\* A handler call moves no other one.
LEMMA ScriptMovesOne ==
    ASSUME TypeOK, NEW s \in Scripts,
           ScriptCalls(s) \/ ScriptContinues(s) \/ ScriptAdvances(s)
    PROVE  \A o \in Scripts \ {s} : script'[o] = script[o]
BY DEF TypeOK, RunnerTypeOK, ScriptCalls, ScriptContinues, ScriptAdvances, SetProxy,
       SetProxyNone, SetTlsProfile, ScriptCaptureReturns, ScriptUndone, NoneStopped,
       TlsRestarted, ScriptInjects, ScriptTunnel, ScriptProbes, ScriptUndoes, NoneDown,
       TlsTunnel, GoScript, Proceed

LEMMA ScriptPhases ==
    ASSUME TypeOK, CallsMatch, NEW s \in Scripts, UNCHANGED captureVars,
           ScriptCalls(s) \/ ScriptContinues(s) \/ ScriptAdvances(s)
    PROVE  CallsMatch'
<1> s \in Threads /\ s \notin Runs /\ s \notin Captures /\ s \notin Stops
  BY ThreadsAssumption
<1> Phase(s) /\ MitmTypeOK
  BY DEF CallsMatch, TypeOK
<1>1. start' = start /\ stop' = stop /\ run' = run
  BY ScriptLease DEF captureVars, sessionVars
<1>2. \A o \in Scripts \ {s} : script'[o] = script[o]
  BY ScriptMovesOne
<1>3. \A u \in Threads \ {s} : call'[u] = call[u] /\ child'[u] = child[u]
  <2>1. StartCapture(s) \/ StopCapture(s) \/ RestartCapture(s) \/ Consume(s) \/ UNCHANGED mitmVars
    BY DEF ScriptCalls, ScriptContinues, ScriptAdvances, SetProxy,
         SetProxyNone, SetTlsProfile, ScriptCaptureReturns, ScriptUndone, NoneStopped,
         TlsRestarted, ScriptInjects, ScriptTunnel, ScriptProbes, ScriptUndoes, NoneDown,
         TlsTunnel
  <2> QED
    BY <2>1, CallsAlone
<1>4. Phase(s)'
  <2> USE OwnCall DEF Phase, TypeOK, RunnerTypeOK, Waiting, Starting, Stopping
  <2>1. CASE SetProxy(s)
    BY <2>1 DEF SetProxy, MayCall
  <2>2. CASE SetProxyNone(s)
    BY <2>2 DEF SetProxyNone, MayCall, GoScript, mitmVars
  <2>3. CASE SetTlsProfile(s)
    BY <2>3 DEF SetTlsProfile, MayCall, GoScript
  <2>4. CASE ScriptCaptureReturns(s)
    BY <2>4 DEF ScriptCaptureReturns, Settled
  <2>5. CASE ScriptUndone(s) \/ NoneStopped(s)
    BY <2>5 DEF ScriptUndone, NoneStopped
  <2>6. CASE TlsRestarted(s)
    BY <2>6 DEF TlsRestarted, Settled
  <2>7. CASE ScriptUndoes(s)
    BY <2>7 DEF ScriptUndoes, GoScript
  <2>8. CASE ScriptInjects(s) \/ ScriptTunnel(s) \/ ScriptProbes(s) \/ NoneDown(s) \/ TlsTunnel(s)
    <3>1. call[s] \notin Starting \cup Stopping /\ UNCHANGED mitmVars
      BY <2>8 DEF ScriptInjects, ScriptTunnel, ScriptProbes, NoneDown, TlsTunnel
    <3> QED
      BY <3>1 DEF mitmVars
  <2> QED
    BY <2>1, <2>2, <2>3, <2>4, <2>5, <2>6, <2>7, <2>8
    DEF ScriptCalls, ScriptContinues, ScriptAdvances
<1> QED
  BY <1>1, <1>2, <1>3, <1>4, AloneKeepsPhases DEF Alone

LEMMA StartPhases ==
    ASSUME TypeOK, CallsMatch, NEW q \in Captures, UNCHANGED runnerVars,
           StartSession(q) \/ CaptureContinues(q) \/ CaptureAdvances(q)
    PROVE  CallsMatch'
<1> q \in Threads /\ q \notin Runs /\ q \notin Scripts /\ q \notin Stops
  BY ThreadsAssumption
<1> Phase(q) /\ MitmTypeOK
  BY DEF CallsMatch, TypeOK
<1>1. run' = run /\ script' = script /\ stop' = stop
  BY DEF runnerVars, StartSession, CaptureContinues, CaptureAdvances, CaptureReturns,
         StartFailed, SessionTunnel, SessionProbes, SessionReactivates, ProbeReports,
         StartFails, SetupFails, Activated, GoStart, sessionVars
<1>2. \A o \in Captures \ {q} : start'[o] = start[o]
  BY DEF TypeOK, CaptureTypeOK, StartSession, CaptureContinues, CaptureAdvances,
         CaptureReturns, StartFailed, SessionTunnel, SessionProbes, SessionReactivates,
         ProbeReports, StartFails, SetupFails, Activated, GoStart, sessionVars
<1>3. \A u \in Threads \ {q} : call'[u] = call[u] /\ child'[u] = child[u]
  <2>1. StartCapture(q) \/ StopCapture(q) \/ Consume(q) \/ UNCHANGED mitmVars
    BY DEF StartSession, CaptureContinues, CaptureAdvances, CaptureReturns,
           StartFailed, SessionTunnel, SessionProbes, SessionReactivates, ProbeReports,
           StartFails, SetupFails
  <2> QED
    BY <2>1, CallsAlone
<1>4. Phase(q)'
  <2> USE OwnCall DEF Phase, TypeOK, CaptureTypeOK, Waiting, Starting, Stopping
  <2>1. ASSUME call[q] \notin Waiting, StartFails(q) PROVE Phase(q)'
    BY <2>1 DEF StartFails, GoStart
  <2>2. ASSUME call[q] \notin Starting \cup Stopping, UNCHANGED mitmVars PROVE Phase(q)'
    BY <2>2 DEF mitmVars
  <2>3. CASE StartSession(q)
    BY <2>3 DEF StartSession, FreshCapture
  <2>4. CASE CaptureReturns(q)
    BY <2>1, <2>4 DEF CaptureReturns, Settled
  <2>5. CASE StartFailed(q)
    BY <2>5 DEF StartFailed
  <2>6. CASE SessionTunnel(q)
    BY <2>1, <2>2, <2>6 DEF SessionTunnel, SetupFails
  <2>7. CASE SessionProbes(q)
    BY <2>2, <2>7 DEF SessionProbes
  <2>8. CASE SessionReactivates(q)
    BY <2>1, <2>2, <2>8 DEF SessionReactivates, SetupFails
  <2>9. CASE ProbeReports(q)
    BY <2>9 DEF ProbeReports, sessionVars, mitmVars
  <2> QED
    BY <2>3, <2>4, <2>5, <2>6, <2>7, <2>8, <2>9 DEF CaptureContinues, CaptureAdvances
<1> QED
  BY <1>1, <1>2, <1>3, <1>4, AloneKeepsPhases DEF Alone

LEMMA StopPhases ==
    ASSUME TypeOK, CallsMatch, NEW k \in Stops, UNCHANGED runnerVars,
           StopSession(k) \/ StopTunnelDown(k) \/ SessionStopped(k)
    PROVE  CallsMatch'
<1> k \in Threads /\ k \notin Runs /\ k \notin Scripts /\ k \notin Captures
  BY ThreadsAssumption
<1> Phase(k) /\ MitmTypeOK
  BY DEF CallsMatch, TypeOK
<1>1. run' = run /\ script' = script /\ start' = start
  BY DEF runnerVars, StopSession, StopTunnelDown, SessionStopped
<1>2. \A o \in Stops \ {k} : stop'[o] = stop[o]
  BY DEF TypeOK, CaptureTypeOK, StopSession, StopTunnelDown, SessionStopped
<1>3. \A u \in Threads \ {k} : call'[u] = call[u] /\ child'[u] = child[u]
  <2>1. StopCapture(k) \/ Consume(k) \/ UNCHANGED mitmVars
    BY DEF StopSession, StopTunnelDown, SessionStopped
  <2> QED
    BY <2>1, CallsAlone
<1>4. Phase(k)'
  <2> USE OwnCall DEF Phase, TypeOK, CaptureTypeOK, Waiting, Starting, Stopping
  <2>1. CASE StopSession(k)
    BY <2>1 DEF StopSession, mitmVars
  <2>2. CASE StopTunnelDown(k)
    BY <2>2 DEF StopTunnelDown
  <2>3. CASE SessionStopped(k)
    BY <2>3 DEF SessionStopped
  <2> QED
    BY <2>1, <2>2, <2>3
<1> QED
  BY <1>1, <1>2, <1>3, <1>4, AloneKeepsPhases DEF Alone

\* A child that exits settles calls; it gives nobody a new one.
LEMMA ExitPhases ==
    ASSUME TypeOK, CallsMatch, NEW c \in Children, UNCHANGED <<runnerVars, captureVars>>,
           ChildExits(c) \/ SpawnError(c)
    PROVE  CallsMatch'
<1>1. run' = run /\ script' = script /\ start' = start /\ stop' = stop
  BY DEF runnerVars, captureVars, sessionVars
<1>2. ASSUME NEW t \in Threads PROVE Phase(t)'
  <2>1. CASE call'[t] = call[t] /\ child'[t] = child[t]
    BY <1>1, <2>1 DEF CallsMatch, Phase
  <2>2. CASE child[t] = c /\ ChildExits(c)
    <3>1. call[t] \in Waiting
      BY <2>2, NoneIsNoChild DEF CallsMatch, Phase
    <3>2. /\ call[t] = "exiting" => call'[t] = "stopped"
          /\ call[t] # "exiting" => call'[t] \in {"failed", "resolving", "already"}
          /\ child'[t] = None
      BY <2>2 DEF ChildExits
    <3> QED
      BY <1>1, <3>1, <3>2 DEF CallsMatch, Phase, Waiting, Starting, Stopping
  <2> QED
    BY <2>1, <2>2 DEF ChildExits, SpawnError
<1> QED
  BY <1>2 DEF CallsMatch

\* Every step keeps threads and their calls together.
LEMMA PhaseStep ==
    ASSUME TypeOK, CallsMatch, [Next]_vars
    PROVE  CallsMatch'
<1>1. ASSUME UNCHANGED <<mitmVars, runnerVars, captureVars>> PROVE CallsMatch'
  BY <1>1 DEF mitmVars, runnerVars, captureVars, sessionVars, CallsMatch, Phase
<1>2. ASSUME NEW r \in Runs, RunStep(r) PROVE CallsMatch'
  BY <1>2, RunPhases DEF RunStep
<1>3. ASSUME NEW s \in Scripts, ScriptStep(s) PROVE CallsMatch'
  BY <1>3, ScriptPhases DEF ScriptStep
<1>4. ASSUME NEW q \in Captures, CaptureStep(q) PROVE CallsMatch'
  BY <1>4, StartPhases DEF CaptureStep
<1>5. ASSUME NEW k \in Stops, StopStep(k) PROVE CallsMatch'
  BY <1>5, StopPhases DEF StopStep
<1>6. ASSUME NEW t \in Threads, WaitStep(t) PROVE CallsMatch'
  <2>1. Alone(t)
    BY <1>6, CallsAlone DEF WaitStep, runnerVars, captureVars, sessionVars, Alone, TypeOK
  <2>2. Phase(t)'
    BY <1>6, OwnCall
    DEF WaitStep, runnerVars, captureVars, sessionVars, TypeOK, CallsMatch, Phase, Starting,
        Stopping
  <2> QED
    BY <2>1, <2>2, AloneKeepsPhases
<1>7. ASSUME NEW c \in Children, ExitStep(c) PROVE CallsMatch'
  BY <1>7, ExitPhases DEF ExitStep
<1>8. CASE RunnerRequest
  BY <1>8, RunPhases, ScriptPhases DEF RunnerRequest
<1>9. CASE SessionRequest
  BY <1>9, StartPhases, StopPhases DEF SessionRequest
<1>10. CASE LeaseEvent
  BY <1>1, <1>10 DEF LeaseEvent, FridaSpawns, FridaStops, ForceIdle
<1>11. CASE UNCHANGED vars
  BY <1>1, <1>11 DEF vars
<1> QED
  BY <1>2, <1>3, <1>4, <1>5, <1>6, <1>7, <1>8, <1>9, <1>10, <1>11 DEF Next

LEMMA CallsStart == Init => CallsMatch
BY DEF Init, MitmInit, CallsMatch, Phase, Starting, Stopping

-----------------------------------------------------------------------------
(* One caller of the manager at a time.  With exclusive use, with every     *)
(* handler call over before its run closes and with scripts that await one  *)
(* call before they make the next, whoever is in the middle of something is *)
(* alone.                                                                  *)

OneCallAtATime == \A s, u \in Scripts : RunOf[s] = RunOf[u] => s = u

SoleUse == ExclusiveUse /\ ~InFlight /\ OneCallAtATime

ScriptsInRun == \A s \in Scripts : script[s] # "idle" => run[RunOf[s]] = "script"

PhasesMatch == CallsMatch /\ ScriptsInRun

\* No handler call outlives the script of its run.
LEMMA ScriptsStay ==
    ASSUME ~InFlight, TypeOK, ScriptsInRun, [Next]_vars
    PROVE  ScriptsInRun'
<1>1. ASSUME UNCHANGED runnerVars PROVE ScriptsInRun'
  BY <1>1 DEF runnerVars, ScriptsInRun
<1>2. ASSUME NEW r \in Runs, RunStarts(r) \/ RunContinues(r) \/ RunAdvances(r)
      PROVE  ScriptsInRun'
  <2> SUFFICES ASSUME NEW s \in Scripts, script'[s] # "idle" PROVE run'[RunOf[s]] = "script"
    BY DEF ScriptsInRun
  <2>1. script' = script /\ \A o \in Runs \ {r} : run'[o] = run[o]
    BY <1>2
    DEF TypeOK, RunnerTypeOK, RunStarts, RunContinues, RunAdvances, StartRun,
        StartDevicelessRun, RunCaptureReturns, RunStopReturns, RunTunnel, RunCloses,
        RunTunnelDown, GoRun, FinishRun
  <2>2. RunOf[s] \in Runs /\ run[RunOf[s]] = "script"
    BY <2>1, RunnerAssumption DEF ScriptsInRun
  <2>3. RunOf[s] # r
    BY <1>2, <2>1, <2>2
    DEF RunStarts, RunContinues, RunAdvances, StartRun, FreshRun, ScriptsOf,
        StartDevicelessRun, RunCaptureReturns, RunStopReturns, RunTunnel, RunCloses,
        RunTunnelDown
  <2> QED
    BY <2>1, <2>2, <2>3
<1>3. ASSUME NEW s \in Scripts, ScriptCalls(s) \/ ScriptContinues(s) \/ ScriptAdvances(s)
      PROVE  ScriptsInRun'
  <2>1. run' = run
    BY <1>3, ScriptLease
  <2>2. \A o \in Scripts \ {s} : script'[o] = script[o]
    BY <1>3, ScriptMovesOne
  <2>3. script[s] # "idle" \/ run[RunOf[s]] = "script"
    BY <1>3
    DEF ScriptCalls, ScriptContinues, ScriptAdvances, SetProxy, MayCall, SetProxyNone,
        SetTlsProfile, ScriptCaptureReturns, ScriptUndone, NoneStopped, TlsRestarted,
        ScriptInjects, ScriptTunnel, ScriptProbes, ScriptUndoes, NoneDown, TlsTunnel
  <2> QED
    BY <2>1, <2>2, <2>3 DEF ScriptsInRun
<1> QED
  BY <1>1, <1>2, <1>3
  DEF Next, RunStep, ScriptStep, CaptureStep, StopStep, WaitStep, ExitStep, RunnerRequest,
      SessionRequest, LeaseEvent, FridaSpawns, FridaStops, ForceIdle, vars

Engaged == {r \in Runs : run[r] \notin {"idle", "script"}}
             \cup {s \in Scripts : script[s] # "idle"}
             \cup {q \in Captures : start[q] # "idle"}
             \cup {k \in Stops : stop[k] # "idle"}

\* A thread with a call is engaged.
LEMMA CallersEngaged ==
    ASSUME TypeOK, PhasesMatch, NEW t \in Threads, call[t] # "none"
    PROVE  t \in Engaged
BY ThreadsAssumption
DEF TypeOK, MitmTypeOK, CallState, Settled, Starting, Stopping, PhasesMatch, CallsMatch,
    Phase, Engaged

\* For whom an engaged thread works.
LEMMA EngagedHold ==
    ASSUME SoleUse, TypeOK, LeaseInv, PhasesMatch
    PROVE  /\ \A r \in Runs \cap Engaged : r \in Holders /\ run[r] # "script"
           /\ \A s \in Scripts \cap Engaged : RunOf[s] \in Holders /\ run[RunOf[s]] = "script"
           /\ \A q \in Captures \cap Engaged : q \in Holders /\ active = None
           /\ \A k \in Stops \cap Engaged :
                active # None /\ active.capture \in Captures \cap Holders
<1>1. ASSUME NEW r \in Runs, r \in Engaged PROVE r \in Holders /\ run[r] # "script"
  BY <1>1, ThreadsAssumption DEF Engaged, SoleUse, ExclusiveUse, Holders, AttachedRuns
<1>2. ASSUME NEW s \in Scripts, s \in Engaged
      PROVE  RunOf[s] \in Holders /\ run[RunOf[s]] = "script"
  BY <1>2, ThreadsAssumption, RunnerAssumption
  DEF Engaged, PhasesMatch, ScriptsInRun, Holders, AttachedRuns
<1>3. ASSUME NEW q \in Captures, q \in Engaged PROVE q \in Holders /\ active = None
  <2>1. start[q] # "idle"
    BY <1>3, ThreadsAssumption DEF Engaged
  <2> QED
    BY <2>1, StarterAlone
<1>4. ASSUME NEW k \in Stops, k \in Engaged
      PROVE  active # None /\ active.capture \in Captures \cap Holders
  <2>1. stop[k] # "idle"
    BY <1>4, ThreadsAssumption DEF Engaged
  <2>2. active # None /\ active \in Entry
    BY <2>1 DEF LeaseInv, SessionsMatch, TypeOK, CaptureTypeOK
  <2> QED
    BY <2>2 DEF Entry, LeaseInv, SessionsMatch, Holders, RunningSessions
<1> QED
  BY <1>1, <1>2, <1>3, <1>4

LEMMA EngagedAlone ==
    ASSUME SoleUse, TypeOK, LeaseInv, PhasesMatch, NEW t \in Engaged, NEW u \in Engaged
    PROVE  t = u
<1>1. \A p, o \in Holders : p = o
  BY DEF LeaseInv, LeaseExact
<1>2. t \in Runs \cup Scripts \cup Captures \cup Stops
      /\ u \in Runs \cup Scripts \cup Captures \cup Stops
  BY DEF Engaged
<1>3. \A s \in Scripts : RunOf[s] \in Runs
  BY RunnerAssumption
<1> QED
  BY <1>1, <1>2, <1>3, EngagedHold, ThreadsAssumption DEF SoleUse, ExclusiveUse, OneCallAtATime

\* Nobody is engaged on a free device, nor under an established session.
LEMMA NobodyEngaged ==
    ASSUME SoleUse, TypeOK, LeaseInv, PhasesMatch
    PROVE  /\ busy = FALSE => Engaged = {}
           /\ active # None /\ StopsIdle => Engaged = {}
<1>0. Engaged \subseteq Runs \cup Scripts \cup Captures \cup Stops
  BY DEF Engaged
<1>1. ASSUME busy = FALSE, NEW t \in Engaged PROVE FALSE
  <2>1. Holders = {}
    BY <1>1 DEF LeaseInv, LeaseExact
  <2> QED
    BY <1>0, <1>1, <2>1, EngagedHold
<1>2. ASSUME active # None, StopsIdle, NEW t \in Engaged PROVE FALSE
  <2>1. active.capture \in Captures /\ active.capture \in Holders
    BY <1>2 DEF LeaseInv, SessionsMatch, TypeOK, CaptureTypeOK, Entry, Holders, RunningSessions
  <2>2. \A h \in Holders : h \in Captures
    BY <2>1 DEF LeaseInv, LeaseExact
  <2>3. t \notin Stops
    BY <1>2, ThreadsAssumption DEF StopsIdle, Engaged
  <2>4. \A s \in Scripts : RunOf[s] \in Runs
    BY RunnerAssumption
  <2> QED
    BY <1>0, <1>2, <2>2, <2>3, <2>4, EngagedHold, ThreadsAssumption
<1> QED
  BY <1>1, <1>2

\* A handler is called when its run's script runs and has no other call.
LEMMA ScriptCallsAlone ==
    ASSUME SoleUse, TypeOK, LeaseInv, PhasesMatch, NEW s \in Scripts, ScriptCalls(s),
           NEW t \in Engaged
    PROVE  t = s
<1>1. run[RunOf[s]] = "script" /\ RunOf[s] \in Runs /\ RunOf[s] \notin Deviceless
  BY RunnerAssumption DEF ScriptCalls, SetProxy, SetProxyNone, SetTlsProfile, MayCall
<1>2. RunOf[s] \in Holders
  BY <1>1 DEF Holders, AttachedRuns
<1>3. \A h \in Holders : h = RunOf[s]
  BY <1>2 DEF LeaseInv, LeaseExact
<1>4. t \in Runs \cup Scripts \cup Captures \cup Stops
  BY DEF Engaged
<1> QED
  BY <1>1, <1>3, <1>4, EngagedHold, ThreadsAssumption DEF SoleUse, OneCallAtATime

-----------------------------------------------------------------------------
(* What a single caller leaves behind.                                     *)

\* A call that has not spawned yet, that waits for an exit or that has failed or
\* stopped leaves nothing registered; one that boots, at most its own child.
CallsOwn ==
    \A t \in Threads :
        /\ call[t] \in {"resolving", "exiting", "restarting", "stopped", "failed"}
             => processes = None
        /\ call[t] = "booting" => processes \in {child[t], None}

ManagerInv == NoOrphan /\ CallsOwn

LEMMA CallKeeps ==
    ASSUME MitmTypeOK, ManagerInv, NEW t \in Threads,
           \A u \in Threads : call[u] # "none" => u = t,
           \/ StartCapture(t) \/ StopCapture(t) \/ RestartCapture(t)
           \/ Consume(t) \/ CallWaits(t)
    PROVE  ManagerInv'
<1> USE NoneIsNoChild DEF MitmTypeOK, ManagerInv, NoOrphan, CallsOwn, IsCapturing
<1>0. \A u \in Threads \ {t} : call'[u] = "none"
  BY CallsAlone
<1>1. CASE StartCapture(t)
  BY <1>0, <1>1 DEF StartCapture, Admission
<1>2. ASSUME NEW w \in {"exiting", "restarting"}, IsCapturing, Detach(t, w) PROVE ManagerInv'
  BY <1>0, <1>2 DEF Detach
<1>3. CASE StopCapture(t)
  BY <1>0, <1>2, <1>3 DEF StopCapture
<1>4. CASE RestartCapture(t)
  BY <1>2, <1>4 DEF RestartCapture
<1>5. CASE Consume(t)
  BY <1>0, <1>5 DEF Consume
<1>6. CASE Spawn(t)
  BY <1>0, <1>6 DEF Spawn
<1>7. CASE ResolutionFails(t)
  BY <1>0, <1>7 DEF ResolutionFails
<1>8. CASE Ready(t)
  BY <1>0, <1>8 DEF Ready
<1>9. CASE ReadyTimeout(t)
  BY <1>0, <1>9 DEF ReadyTimeout, Kill
<1>10. CASE ExitTimeout(t)
  BY <1>0, <1>10 DEF ExitTimeout, Kill, Admission
<1> QED
  BY <1>1, <1>3, <1>4, <1>5, <1>6, <1>7, <1>8, <1>9, <1>10 DEF CallWaits

\* The death of a child orphans no other.
LEMMA ExitKeeps ==
    ASSUME MitmTypeOK, ManagerInv, NEW c \in Children, ChildExits(c) \/ SpawnError(c)
    PROVE  ManagerInv'
<1> USE NoneIsNoChild DEF MitmTypeOK, ManagerInv, NoOrphan, CallsOwn
<1>1. CASE ChildExits(c)
  <2> DEFINE left == IF processes = c \/ \E t \in Threads : child[t] = c /\ call[t] = "booting"
                       THEN None ELSE processes
  <2>1. /\ proc' = [proc EXCEPT ![c] = "free"]
        /\ processes' = left
        /\ child' = [t \in Threads |-> IF child[t] = c THEN None ELSE child[t]]
        /\ call' = [t \in Threads |->
              IF child[t] # c THEN call[t]
              ELSE IF call[t] = "booting" THEN "failed"
              ELSE IF call[t] = "exiting" THEN "stopped"
              ELSE IF left = None THEN "resolving" ELSE "already"]
    BY <1>1 DEF ChildExits
  <2>2. left = None \/ (left = processes /\ processes # c)
    OBVIOUS
  <2>3. \A d \in Children \ {c} : proc[d] = "live" => left = d
    OBVIOUS
  <2>4. \A t \in Threads : child[t] = c /\ call[t] = "booting" => left = None
    OBVIOUS
  <2> HIDE DEF left
  <2> QED
    BY <2>1, <2>2, <2>3, <2>4
<1>2. CASE SpawnError(c)
  BY <1>2 DEF SpawnError
<1> QED
  BY <1>1, <1>2

\* Every step of the composition: whoever calls the manager is alone in it.
LEMMA ManagerStep ==
    ASSUME SoleUse, TypeOK, LeaseInv, PhasesMatch, ManagerInv, [Next]_vars
    PROVE  ManagerInv'
<1> MitmTypeOK
  BY DEF TypeOK
<1>1. ASSUME UNCHANGED mitmVars PROVE ManagerInv'
  BY <1>1 DEF mitmVars, ManagerInv, NoOrphan, CallsOwn
<1>2. ASSUME NEW t \in Threads, \A u \in Engaged : u = t,
             \/ StartCapture(t) \/ StopCapture(t) \/ RestartCapture(t)
             \/ Consume(t) \/ CallWaits(t)
      PROVE  ManagerInv'
  BY <1>2, CallersEngaged, CallKeeps
<1>3. ASSUME NEW t \in Engaged, t \in Threads,
             \/ StartCapture(t) \/ StopCapture(t) \/ RestartCapture(t)
             \/ Consume(t) \/ CallWaits(t)
      PROVE  ManagerInv'
  BY <1>2, <1>3, EngagedAlone
<1> USE ThreadsAssumption
<1>4. ASSUME NEW r \in Runs, RunStarts(r) \/ RunContinues(r) \/ RunAdvances(r)
      PROVE  ManagerInv'
  <2>1. CASE StartRun(r)
    <3>1. Engaged = {}
      BY <2>1, NobodyEngaged DEF StartRun, TryAcquireBusy, TypeOK, DeviceTypeOK
    <3> QED
      BY <1>1, <1>2, <2>1, <3>1 DEF StartRun
  <2>2. CASE RunCaptureReturns(r) \/ RunStopReturns(r) \/ RunTunnelDown(r)
    <3>1. r \in Engaged
      BY <2>2 DEF Engaged, RunCaptureReturns, RunStopReturns, RunTunnelDown
    <3> QED
      BY <1>1, <1>3, <2>2, <3>1 DEF RunCaptureReturns, RunStopReturns, RunTunnelDown
  <2>3. CASE StartDevicelessRun(r) \/ RunTunnel(r) \/ RunCloses(r)
    BY <1>1, <2>3 DEF StartDevicelessRun, RunTunnel, RunCloses
  <2> QED
    BY <1>4, <2>1, <2>2, <2>3 DEF RunStarts, RunContinues, RunAdvances
<1>5. ASSUME NEW s \in Scripts, ScriptCalls(s) \/ ScriptContinues(s) \/ ScriptAdvances(s)
      PROVE  ManagerInv'
  <2>1. CASE ScriptCalls(s)
    <3>1. \A u \in Engaged : u = s
      BY <2>1, ScriptCallsAlone
    <3> QED
      BY <1>1, <1>2, <2>1, <3>1 DEF ScriptCalls, SetProxy, SetProxyNone, SetTlsProfile
  <2>2. CASE ScriptContinues(s) \/ ScriptAdvances(s)
    <3>1. s \in Engaged
      BY <2>2
      DEF Engaged, ScriptContinues, ScriptAdvances, ScriptCaptureReturns, ScriptUndone,
          NoneStopped, TlsRestarted, ScriptInjects, ScriptTunnel, ScriptProbes,
          ScriptUndoes, NoneDown, TlsTunnel
    <3> QED
      BY <1>1, <1>3, <2>2, <3>1
      DEF ScriptContinues, ScriptAdvances, ScriptCaptureReturns, ScriptUndone,
          NoneStopped, TlsRestarted, ScriptInjects, ScriptTunnel, ScriptProbes,
          ScriptUndoes, NoneDown, TlsTunnel
  <2> QED
    BY <1>5, <2>1, <2>2
<1>6. ASSUME NEW q \in Captures, StartSession(q) \/ CaptureContinues(q) \/ CaptureAdvances(q)
      PROVE  ManagerInv'
  <2>1. CASE StartSession(q)
    <3>1. Engaged = {}
      BY <2>1, NobodyEngaged DEF StartSession, TryAcquireBusy, TypeOK, DeviceTypeOK
    <3> QED
      BY <1>2, <2>1, <3>1 DEF StartSession
  <2>2. CASE CaptureContinues(q) \/ (CaptureAdvances(q) /\ ~ProbeReports(q))
    <3>1. q \in Engaged
      BY <2>2
      DEF Engaged, CaptureContinues, CaptureAdvances, CaptureReturns, StartFailed,
          SessionTunnel, SessionProbes, SessionReactivates
    <3> QED
      BY <1>1, <1>3, <2>2, <3>1
      DEF CaptureContinues, CaptureAdvances, CaptureReturns, StartFailed, SessionTunnel,
          SessionProbes, SessionReactivates, StartFails, SetupFails
  <2>3. CASE ProbeReports(q)
    BY <1>1, <2>3 DEF ProbeReports
  <2> QED
    BY <1>6, <2>1, <2>2, <2>3
<1>7. ASSUME NEW k \in Stops, StopSession(k) \/ StopTunnelDown(k) \/ SessionStopped(k)
      PROVE  ManagerInv'
  <2>1. CASE StopSession(k)
    <3>1. active # None /\ StopsIdle
      BY <2>1 DEF StopSession, StopsIdle, SoleUse, ExclusiveUse
    <3>2. Engaged = {}
      BY <3>1, NobodyEngaged
    <3> QED
      BY <1>1, <1>2, <2>1, <3>2 DEF StopSession
  <2>2. CASE StopTunnelDown(k) \/ SessionStopped(k)
    <3>1. k \in Engaged
      BY <2>2 DEF Engaged, StopTunnelDown, SessionStopped
    <3> QED
      BY <1>3, <2>2, <3>1 DEF StopTunnelDown, SessionStopped
  <2> QED
    BY <1>7, <2>1, <2>2
<1>8. ASSUME NEW t \in Threads, WaitStep(t) PROVE ManagerInv'
  <2>1. t \in Engaged
    BY <1>8, OwnCall, CallersEngaged
    DEF WaitStep, PhasesMatch, CallsMatch, Starting, Stopping
  <2> QED
    BY <1>3, <1>8, <2>1 DEF WaitStep
<1>9. ASSUME NEW c \in Children, ExitStep(c) PROVE ManagerInv'
  BY <1>9, ExitKeeps DEF ExitStep
<1>10. CASE LeaseEvent
  BY <1>1, <1>10 DEF LeaseEvent, FridaSpawns, FridaStops, ForceIdle
<1>11. CASE UNCHANGED vars
  BY <1>1, <1>11 DEF vars
<1> QED
  BY <1>4, <1>5, <1>6, <1>7, <1>8, <1>9, <1>10, <1>11
  DEF Next, RunStep, ScriptStep, CaptureStep, StopStep, RunnerRequest, SessionRequest

LEMMA ManagerInvariant ==
    ASSUME SoleUse PROVE Spec => [](PhasesMatch /\ ManagerInv)
<1>1. Init => PhasesMatch /\ ManagerInv
  BY CallsStart
  DEF Init, MitmInit, RunnerInit, PhasesMatch, ScriptsInRun, ManagerInv, NoOrphan, CallsOwn
<1>2. TypeOK /\ LeaseInv /\ PhasesMatch /\ ManagerInv /\ [Next]_vars
        => PhasesMatch' /\ ManagerInv'
  BY SoleUse, PhaseStep, ScriptsStay, ManagerStep DEF SoleUse, PhasesMatch
<1>3. Spec => []LeaseInv
  BY SoleUse, LeaseInvariant DEF SoleUse
<1> QED
  BY <1>1, <1>2, <1>3, TypeCorrect, PTL DEF Spec

\* With one caller of the manager at a time, every mitmdump that nobody has told
\* to stop is the registered one, so that a later stop reaches it: no start,
\* restart, timeout or crash leaves one running by itself.
THEOREM NoChildIsOrphaned ==
    ASSUME SoleUse PROVE Spec => []NoOrphan
<1>1. ManagerInv => NoOrphan
  BY DEF ManagerInv
<1> QED
  BY <1>1, ManagerInvariant, PTL

-----------------------------------------------------------------------------
(* An established capture, and the end of one.                             *)

\* Under an established session that nobody stops, only its child can go.
LEMMA NothingDisturbs ==
    ASSUME SoleUse, TypeOK, LeaseInv, PhasesMatch, active # None, StopsIdle, [Next]_vars
    PROVE  \/ UNCHANGED <<processes, tunnel>>
           \/ ~StopsIdle' /\ UNCHANGED tunnel
           \/ proc'[processes] = "free" /\ UNCHANGED tunnel
<1>1. Engaged = {}
  BY NobodyEngaged
<1>2. \A t \in Threads : call[t] = "none"
  BY <1>1, CallersEngaged
<1>3. busy = TRUE
  <2>1. active.capture \in Captures /\ active.capture \in Holders
    BY DEF LeaseInv, SessionsMatch, TypeOK, CaptureTypeOK, Entry, Holders, RunningSessions
  <2> QED
    BY <2>1 DEF LeaseInv, LeaseExact, TypeOK, DeviceTypeOK
<1>4. \A r \in Runs : run[r] = "idle"
  <2>1. active.capture \in Captures /\ active.capture \in Holders
    BY DEF LeaseInv, SessionsMatch, TypeOK, CaptureTypeOK, Entry, Holders, RunningSessions
  <2> QED
    BY <2>1, ThreadsAssumption
    DEF LeaseInv, LeaseExact, Holders, AttachedRuns, SoleUse, ExclusiveUse
<1>5. /\ \A s \in Scripts : script[s] = "idle"
      /\ \A q \in Captures : start[q] = "idle"
      /\ \A k \in Stops : stop[k] = "idle"
  BY <1>1 DEF Engaged
<1>6. ASSUME NEW r \in Runs, RunStarts(r) \/ RunContinues(r) \/ RunAdvances(r) PROVE FALSE
  BY <1>3, <1>4, <1>6
  DEF RunStarts, RunContinues, RunAdvances, StartRun, TryAcquireBusy, StartDevicelessRun,
      RunCaptureReturns, RunStopReturns, RunTunnel, RunCloses, RunTunnelDown, SoleUse,
      ExclusiveUse
<1>7. ASSUME NEW s \in Scripts, ScriptCalls(s) \/ ScriptContinues(s) \/ ScriptAdvances(s)
      PROVE  FALSE
  <2>1. run[RunOf[s]] = "idle"
    BY <1>4, RunnerAssumption
  <2> QED
    BY <1>5, <1>7, <2>1
    DEF ScriptCalls, SetProxy, SetProxyNone, SetTlsProfile, MayCall, ScriptContinues,
        ScriptAdvances, ScriptCaptureReturns, ScriptUndone, NoneStopped, TlsRestarted,
        ScriptInjects, ScriptTunnel, ScriptProbes, ScriptUndoes, NoneDown, TlsTunnel
<1>8. ASSUME NEW q \in Captures, StartSession(q) \/ CaptureContinues(q) \/ CaptureAdvances(q)
      PROVE  UNCHANGED <<processes, tunnel>>
  BY <1>3, <1>5, <1>8
  DEF StartSession, CaptureContinues, CaptureAdvances, CaptureReturns, StartFailed,
      SessionTunnel, SessionProbes, SessionReactivates, ProbeReports, mitmVars, deviceVars
<1>9. ASSUME NEW k \in Stops, StopSession(k) \/ StopTunnelDown(k) \/ SessionStopped(k)
      PROVE  ~StopsIdle' /\ UNCHANGED tunnel
  BY <1>5, <1>9
  DEF StopSession, StopTunnelDown, SessionStopped, StopsIdle, deviceVars, TypeOK, CaptureTypeOK
<1>10. ASSUME NEW t \in Threads, WaitStep(t) PROVE FALSE
  BY <1>2, <1>10
  DEF WaitStep, CallWaits, Spawn, ResolutionFails, Ready, ReadyTimeout, ExitTimeout
<1>11. ASSUME NEW c \in Children, ExitStep(c)
       PROVE  /\ processes' = processes \/ proc'[processes] = "free"
              /\ UNCHANGED tunnel
  BY <1>2, <1>11
  DEF ExitStep, ChildExits, SpawnError, deviceVars, TypeOK, MitmTypeOK
<1>12. CASE LeaseEvent
  BY <1>12, <1>3 DEF LeaseEvent, FridaSpawns, FridaStops, ForceIdle, mitmVars
<1>13. CASE UNCHANGED vars
  BY <1>13 DEF vars, mitmVars, deviceVars
<1> QED
  BY <1>6, <1>7, <1>8, <1>9, <1>10, <1>11, <1>12, <1>13
  DEF Next, RunStep, ScriptStep, CaptureStep, StopStep, RunnerRequest, SessionRequest

\* With one caller of the manager at a time, an established capture loses its
\* mitmdump only when that child dies, and its tunnel only to its own stop.
THEOREM CaptureStaysUndisturbed ==
    ASSUME SoleUse PROVE Spec => CaptureUndisturbed
<1>1. TypeOK /\ LeaseInv /\ PhasesMatch /\ [Next]_vars
        => (active # None /\ active' = active /\ StopsIdle
             => /\ processes' = processes \/ proc'[processes] = "free" \/ ~StopsIdle'
                /\ active.tunnel => tunnel' = tunnel)
  BY SoleUse, NothingDisturbs
<1>2. Spec => []LeaseInv
  BY SoleUse, LeaseInvariant DEF SoleUse
<1> QED
  BY <1>1, <1>2, TypeCorrect, ManagerInvariant, PTL DEF Spec, CaptureUndisturbed

\* A stop of a session that has its own tunnel has taken it down before it stops
\* mitmproxy, and nobody brings it up again until the stop is over.
TunnelDown == \A k \in Stops : stop[k] = "stopping" /\ target[k].tunnel => ~tunnel

LEMMA TunnelStep ==
    ASSUME SoleUse, TypeOK, LeaseInv, PhasesMatch, TunnelDown, [Next]_vars
    PROVE  TunnelDown'
<1>1. ASSUME UNCHANGED <<stop, target>>, tunnel' = tunnel \/ tunnel' = FALSE PROVE TunnelDown'
  BY <1>1 DEF TunnelDown
<1>2. ASSUME UNCHANGED <<stop, target>>, NEW t \in Engaged, t \notin Stops PROVE TunnelDown'
  <2>1. \A k \in Stops : stop[k] = "idle"
    BY <1>2, EngagedAlone DEF Engaged
  <2> QED
    BY <1>2, <2>1 DEF TunnelDown
<1>3. ASSUME UNCHANGED captureVars, tunnel' = tunnel \/ tunnel' = FALSE PROVE TunnelDown'
  BY <1>1, <1>3 DEF captureVars, sessionVars
<1> USE ThreadsAssumption
<1>4. ASSUME NEW r \in Runs, RunStarts(r) \/ RunContinues(r) \/ RunAdvances(r),
             UNCHANGED captureVars
      PROVE  TunnelDown'
  <2>1. CASE RunTunnel(r)
    BY <1>2, <1>4, <2>1 DEF RunTunnel, Engaged, captureVars, sessionVars
  <2>2. CASE ~RunTunnel(r)
    BY <1>3, <1>4, <2>2
    DEF RunStarts, RunContinues, RunAdvances, StartRun, StartDevicelessRun, deviceVars,
        RunCaptureReturns, RunStopReturns, RunCloses, RunTunnelDown, DeactivateWireGuardTunnel
  <2> QED
    BY <2>1, <2>2
<1>5. ASSUME NEW s \in Scripts, ScriptCalls(s) \/ ScriptContinues(s) \/ ScriptAdvances(s),
             UNCHANGED captureVars
      PROVE  TunnelDown'
  <2>1. CASE ScriptTunnel(s) \/ TlsTunnel(s)
    BY <1>2, <1>5, <2>1 DEF ScriptTunnel, TlsTunnel, Engaged, captureVars, sessionVars
  <2>2. CASE ~ScriptTunnel(s) /\ ~TlsTunnel(s)
    BY <1>3, <1>5, <2>2
    DEF ScriptCalls, SetProxy, SetProxyNone, SetTlsProfile, ScriptContinues, ScriptAdvances,
        ScriptCaptureReturns, ScriptUndone, NoneStopped, TlsRestarted, ScriptInjects,
        ScriptProbes, ScriptUndoes, NoneDown, DeactivateWireGuardTunnel, deviceVars
  <2> QED
    BY <2>1, <2>2
<1>6. ASSUME NEW q \in Captures, StartSession(q) \/ CaptureContinues(q) \/ CaptureAdvances(q)
      PROVE  TunnelDown'
  <2>1. UNCHANGED <<stop, target>>
    BY <1>6
    DEF StartSession, CaptureContinues, CaptureAdvances, CaptureReturns, StartFailed,
        SessionTunnel, SessionProbes, SessionReactivates, ProbeReports, StartFails,
        SetupFails, GoStart, Activated, sessionVars
  <2>2. CASE SessionTunnel(q) \/ SessionReactivates(q)
    <3>1. q \in Engaged
      BY <2>2 DEF SessionTunnel, SessionReactivates, Engaged
    <3> QED
      BY <1>2, <2>1, <3>1
  <2>3. CASE ~SessionTunnel(q) /\ ~SessionReactivates(q)
    BY <1>1, <1>6, <2>1, <2>3
    DEF StartSession, CaptureContinues, CaptureAdvances, CaptureReturns, StartFailed,
        SessionProbes, ProbeReports, deviceVars
  <2> QED
    BY <2>2, <2>3
<1>7. ASSUME NEW k \in Stops, StopSession(k) \/ StopTunnelDown(k) \/ SessionStopped(k)
      PROVE  TunnelDown'
  <2> \A l \in Stops : l = k
    BY DEF SoleUse, ExclusiveUse
  <2> stop \in [Stops -> StopState] /\ target \in [Stops -> Entry \cup {None}]
    BY DEF TypeOK, CaptureTypeOK
  <2>1. CASE StopSession(k)
    BY <2>1 DEF StopSession, TunnelDown
  <2>2. CASE StopTunnelDown(k)
    BY <2>2 DEF StopTunnelDown, DeactivateWireGuardTunnel, TunnelDown
  <2>3. CASE SessionStopped(k)
    BY <2>3 DEF SessionStopped, TunnelDown
  <2> QED
    BY <1>7, <2>1, <2>2, <2>3
<1>8. CASE LeaseEvent
  BY <1>3, <1>8 DEF LeaseEvent, FridaSpawns, FridaStops, ForceIdle
<1>9. CASE UNCHANGED vars
  BY <1>3, <1>9 DEF vars, deviceVars
<1>10. ASSUME UNCHANGED deviceVars, UNCHANGED captureVars PROVE TunnelDown'
  BY <1>3, <1>10 DEF deviceVars
<1> QED
  BY <1>4, <1>5, <1>6, <1>7, <1>8, <1>9, <1>10
  DEF Next, RunStep, ScriptStep, CaptureStep, StopStep, WaitStep, ExitStep, RunnerRequest,
      SessionRequest

\* Only the last step of a failed start or of a stop ends a session.
LEMMA WhoEndsASession ==
    ASSUME TypeOK, [Next]_vars, NEW q \in Captures, session[q] = "running", session'[q] = "ended"
    PROVE  StartFailed(q) \/ \E k \in Stops : SessionStopped(k)
<1> session \in [Captures -> {"none", "running", "ended"}]
  BY DEF TypeOK, CaptureTypeOK
<1>1. ASSUME NEW o \in Captures, StartSession(o) \/ CaptureContinues(o) \/ CaptureAdvances(o)
      PROVE  StartFailed(q)
  BY <1>1
  DEF StartSession, CaptureContinues, CaptureAdvances, CaptureReturns, StartFailed,
      SessionTunnel, SessionProbes, SessionReactivates, ProbeReports, StartFails,
      SetupFails, GoStart, Activated, sessionVars
<1>2. ASSUME NEW k \in Stops, StopSession(k) \/ StopTunnelDown(k) \/ SessionStopped(k)
      PROVE  SessionStopped(k)
  BY <1>2 DEF StopSession, StopTunnelDown
<1>3. session' # session
  OBVIOUS
<1> QED
  BY <1>1, <1>2, <1>3
  DEF Next, RunStep, ScriptStep, CaptureStep, StopStep, WaitStep, ExitStep, RunnerRequest,
      SessionRequest, LeaseEvent, FridaSpawns, FridaStops, ForceIdle, vars, captureVars,
      sessionVars

\* With one caller of the manager at a time, a capture that ends leaves nothing
\* registered, and an established one not its tunnel, whatever has crashed or
\* failed half-way.
THEOREM EndedCaptureIsAlwaysGone ==
    ASSUME SoleUse PROVE Spec => EndedCaptureIsGone
<1>1. Init => TunnelDown
  BY DEF Init, CaptureInit, TunnelDown
<1>2. TypeOK /\ LeaseInv /\ PhasesMatch /\ TunnelDown /\ [Next]_vars => TunnelDown'
  BY SoleUse, TunnelStep
<1>3. TypeOK /\ LeaseInv /\ ManagerInv /\ TunnelDown /\ [Next]_vars
        => \A q \in Captures : session[q] = "running" /\ session'[q] = "ended"
             => /\ ~IsCapturing'
                /\ active # None /\ active.tunnel => ~tunnel'
  <2> SUFFICES ASSUME TypeOK, LeaseInv, ManagerInv, TunnelDown, [Next]_vars,
                      NEW q \in Captures, session[q] = "running", session'[q] = "ended"
               PROVE  /\ ~IsCapturing'
                      /\ active # None /\ active.tunnel => ~tunnel'
    OBVIOUS
  <2>1. CASE StartFailed(q)
    <3>1. q \in Threads
      BY ThreadsAssumption
    <3>2. processes' = None
      BY <2>1, <3>1 DEF StartFailed, Consume, ManagerInv, CallsOwn
    <3>3. active = None
      BY <2>1, StarterAlone DEF StartFailed
    <3> QED
      BY <3>2, <3>3 DEF IsCapturing
  <2>2. ASSUME NEW k \in Stops, SessionStopped(k)
        PROVE  /\ ~IsCapturing'
               /\ active # None /\ active.tunnel => ~tunnel'
    <3>1. k \in Threads
      BY ThreadsAssumption
    <3>2. processes' = None
      BY <2>2, <3>1 DEF SessionStopped, Consume, ManagerInv, CallsOwn
    <3>3. target[k] = active /\ stop[k] = "stopping" /\ tunnel' = tunnel
      BY <2>2 DEF SessionStopped, LeaseInv, SessionsMatch
    <3> QED
      BY <3>2, <3>3 DEF IsCapturing, TunnelDown
  <2> QED
    BY <2>1, <2>2, WhoEndsASession
<1>4. Spec => []LeaseInv
  BY SoleUse, LeaseInvariant DEF SoleUse
<1> QED
  BY <1>1, <1>2, <1>3, <1>4, TypeCorrect, ManagerInvariant, PTL DEF Spec, EndedCaptureIsGone

-----------------------------------------------------------------------------
(* A device that nobody holds.  Runs and their scripts alone leave it clean, *)
(* whoever else marks it busy or idle and however late a setProxy ends: at   *)
(* every moment somebody will stop the registered child, and somebody will   *)
(* take the tunnel down.                                                     *)

\* No capture session, whose start may leave its tunnel behind; no setTlsProfile,
\* which does not ask whether its run is closed; one handler call at a time.
RunsAlone == Captures = {} /\ ~TlsChanges /\ OneCallAtATime

\* The call will have to undo what it starts, or leave it to its run.
ScriptStops(s) ==
    \/ script[s] \in {"start", "restart"} /\ call[s] \in {"booting", "ready"}
    \/ script[s] \in {"inject", "activate", "probe", "reactivate", "undo"}

\* The clean-up of the run will stop mitmproxy.  The flag of a run whose script is
\* in setProxy('none') counts no more.
RunStops(r) ==
    \/ run[r] = "capture" /\ call[r] \in {"booting", "ready"}
    \/ /\ run[r] \in {"tunnel", "script", "down"}
       /\ \/ captureStarted[r]
          \/ scriptCaptureStarted[r]
             /\ \A s \in ScriptsOf(r) : script[s] \notin {"noneStop", "noneDown"}

CaptureOwned ==
    processes # None
      => (\E r \in Runs \ Deviceless : RunStops(r)) \/ (\E s \in Scripts : ScriptStops(s))

TunnelOwned ==
    tunnel => \/ \E r \in Runs \ Deviceless : run[r] \in {"script", "down"}
              \/ \E s \in Scripts : script[s] = "undo"

\* A run without the device never starts mitmproxy by itself; a call belongs to a
\* run that has not begun again, and while that run is open its flag is up.
RunsFollow ==
    /\ \A r \in Deviceless : run[r] \notin {"capture", "tunnel"}
    /\ \A s \in Scripts :
         /\ script[s] \notin {"tls", "tlsActivate"}
         /\ script[s] # "idle" => run[RunOf[s]] \in {"script", "down", "stopping", "idle"}
         /\ /\ script[s] \in {"start", "restart", "inject", "activate", "probe", "reactivate"}
            /\ run[RunOf[s]] = "script"
            => scriptCaptureStarted[RunOf[s]]

NoSessions == active = None /\ \A k \in Stops : stop[k] = "idle"

CleanInv == NoSessions /\ RunsFollow /\ CaptureOwned /\ TunnelOwned

\* A run's step keeps the other runs, and the scripts' calls.
LEMMA RunMovesOne ==
    ASSUME TypeOK, NEW r \in Runs, RunStarts(r) \/ RunContinues(r) \/ RunAdvances(r)
    PROVE  /\ script' = script
           /\ \A o \in Runs \ {r} :
                /\ run'[o] = run[o] /\ captureStarted'[o] = captureStarted[o]
                /\ scriptCaptureStarted'[o] = scriptCaptureStarted[o]
           /\ \A u \in Threads \ {r} : call'[u] = call[u]
<1>1. StartCapture(r) \/ StopCapture(r) \/ Consume(r) \/ UNCHANGED mitmVars
  BY DEF RunStarts, RunContinues, RunAdvances, StartRun, StartDevicelessRun,
         RunCaptureReturns, RunStopReturns, RunTunnel, RunCloses, RunTunnelDown
<1>2. r \in Threads /\ MitmTypeOK
  BY RunnerAssumption DEF TypeOK
<1>3. \A u \in Threads \ {r} : call'[u] = call[u]
  BY <1>1, <1>2, CallsAlone
<1> QED
  BY <1>3
  DEF TypeOK, RunnerTypeOK, RunStarts, RunContinues, RunAdvances, StartRun,
      StartDevicelessRun, RunCaptureReturns, RunStopReturns, RunTunnel, RunCloses,
      RunTunnelDown, GoRun, FinishRun

\* A run that moves stays responsible for mitmproxy and tunnel, or stops them.
LEMMA RunClean ==
    ASSUME RunsAlone, TypeOK, CallsMatch, CleanInv, UNCHANGED captureVars, NEW r \in Runs,
           RunStarts(r) \/ RunContinues(r) \/ RunAdvances(r)
    PROVE  CleanInv'
<1>1. /\ script' = script /\ active' = active /\ stop' = stop
      /\ \A o \in Runs \ {r} :
           /\ run'[o] = run[o] /\ captureStarted'[o] = captureStarted[o]
           /\ scriptCaptureStarted'[o] = scriptCaptureStarted[o]
      /\ \A u \in Threads \ {r} : call'[u] = call[u]
  BY RunMovesOne DEF captureVars, sessionVars
<1>2. /\ Runs \subseteq Threads /\ Scripts \subseteq Threads /\ r \notin Scripts
      /\ \A s \in Scripts : RunOf[s] \in Runs \ Deviceless
      /\ Deviceless \subseteq Runs
  BY ThreadsAssumption, RunnerAssumption
<1>3. NoSessions'
  BY <1>1 DEF CleanInv, NoSessions
<1>4. \/ run'[r] \in {"capture", "script"} /\ run[r] = "idle"
         /\ (\A s \in Scripts : RunOf[s] = r => script[s] = "idle")
         /\ (r \in Deviceless => run'[r] = "script")
      \/ run'[r] \in {"tunnel", "script"} /\ run[r] = "capture"
      \/ run'[r] = "script" /\ run[r] = "tunnel"
      \/ run'[r] \in {"down", "stopping", "idle"}
  BY DEF TypeOK, RunnerTypeOK, RunStarts, RunContinues, RunAdvances, StartRun, FreshRun,
         ScriptsOf, StartDevicelessRun, RunCaptureReturns, RunStopReturns, RunTunnel,
         RunCloses, RunTunnelDown, GoRun, FinishRun
<1>5. RunsFollow'
  <2>1. \A o \in Deviceless : run'[o] \notin {"capture", "tunnel"}
    BY <1>1, <1>2, <1>4 DEF CleanInv, RunsFollow
  <2>2. ASSUME NEW s \in Scripts
        PROVE  /\ script'[s] \notin {"tls", "tlsActivate"}
               /\ script'[s] # "idle" => run'[RunOf[s]] \in {"script", "down", "stopping", "idle"}
               /\ /\ script'[s] \in {"start", "restart", "inject", "activate", "probe", "reactivate"}
                  /\ run'[RunOf[s]] = "script"
                  => scriptCaptureStarted'[RunOf[s]]
    <3>1. CASE RunOf[s] # r
      BY <1>1, <1>2, <3>1 DEF CleanInv, RunsFollow
    <3>2. CASE RunOf[s] = r
      BY <1>1, <1>2, <1>4, <3>2 DEF CleanInv, RunsFollow
    <3> QED
      BY <3>1, <3>2
  <2> QED
    BY <2>1, <2>2 DEF RunsFollow
<1>6. /\ \A s \in Scripts : ScriptStops(s) => ScriptStops(s)'
      /\ \A o \in Runs \ {r} : RunStops(o) => RunStops(o)'
  BY <1>1, <1>2 DEF ScriptStops, RunStops, ScriptsOf
<1>7. CASE processes' = None \/ (processes' = processes /\ (r \in Deviceless \/ ~RunStops(r) \/ RunStops(r)'))
  <2>1. CaptureOwned'
    BY <1>6, <1>7 DEF CleanInv, CaptureOwned
  <2>2. TunnelOwned'
    <3>1. CASE run[r] \in {"script", "down"} /\ run'[r] \notin {"script", "down"}
      <4>1. tunnel' = FALSE
        BY <3>1
        DEF TypeOK, RunnerTypeOK, RunStarts, RunContinues, RunAdvances, StartRun, FreshRun,
            StartDevicelessRun, RunCaptureReturns, RunStopReturns, RunTunnel, RunCloses,
            RunTunnelDown, GoRun, DeactivateWireGuardTunnel
      <4> QED
        BY <4>1 DEF TunnelOwned
    <3>2. CASE RunTunnel(r)
      <4>1. r \notin Deviceless /\ run'[r] = "script"
        BY <3>2 DEF RunTunnel, GoRun, CleanInv, RunsFollow, TypeOK, RunnerTypeOK
      <4> QED
        BY <4>1 DEF TunnelOwned
    <3>3. CASE ~RunTunnel(r) /\ (run[r] \in {"script", "down"} => run'[r] \in {"script", "down"})
      <4>1. tunnel' = tunnel \/ tunnel' = FALSE
        BY <3>3
        DEF RunStarts, RunContinues, RunAdvances, StartRun, StartDevicelessRun,
            RunCaptureReturns, RunStopReturns, RunCloses, RunTunnelDown, deviceVars,
            DeactivateWireGuardTunnel
      <4> QED
        BY <1>1, <3>3, <4>1 DEF CleanInv, TunnelOwned
    <3> QED
      BY <3>1, <3>2, <3>3
  <2> QED
    BY <1>3, <1>5, <2>1, <2>2 DEF CleanInv
<1>8. processes' = None
      \/ (processes' = processes /\ (r \in Deviceless \/ ~RunStops(r) \/ RunStops(r)'))
  <2> USE DEF TypeOK, MitmTypeOK, RunnerTypeOK
  <2>1. CASE StartRun(r)
    BY <2>1 DEF StartRun, StartCapture, IsCapturing, mitmVars
  <2>2. CASE StartDevicelessRun(r)
    BY <2>2 DEF StartDevicelessRun, mitmVars
  <2>3. CASE RunCaptureReturns(r)
    BY <2>3 DEF RunCaptureReturns, Consume, RunStops
  <2>4. CASE RunStopReturns(r)
    BY <2>4 DEF RunStopReturns, Consume, RunStops
  <2>5. CASE RunTunnel(r)
    BY <1>1, <2>5 DEF RunTunnel, GoRun, RunStops, mitmVars
  <2>6. CASE RunCloses(r)
    BY <1>1, <2>6 DEF RunCloses, GoRun, RunStops, mitmVars
  <2>7. CASE RunTunnelDown(r)
    BY <2>7 DEF RunTunnelDown, StopCapture, Detach, IsCapturing, RunStops, mitmVars
  <2> QED
    BY <2>1, <2>2, <2>3, <2>4, <2>5, <2>6, <2>7 DEF RunStarts, RunContinues, RunAdvances
<1> QED
  BY <1>7, <1>8

\* A handler call that gives up what it is responsible for leaves it to its run.
LEMMA ScriptClean ==
    ASSUME RunsAlone, TypeOK, CallsMatch, CleanInv, UNCHANGED captureVars, NEW s \in Scripts,
           ScriptCalls(s) \/ ScriptContinues(s) \/ ScriptAdvances(s)
    PROVE  CleanInv'
<1> DEFINE r == RunOf[s]
<1>1. /\ run' = run /\ captureStarted' = captureStarted /\ active' = active /\ stop' = stop
      /\ \A u \in Scripts \ {s} : script'[u] = script[u]
      /\ \A o \in Runs \ {r} : scriptCaptureStarted'[o] = scriptCaptureStarted[o]
  <2>1. captureStarted' = captureStarted
        /\ \A o \in Runs \ {r} : scriptCaptureStarted'[o] = scriptCaptureStarted[o]
    BY DEF TypeOK, RunnerTypeOK, ScriptCalls, ScriptContinues, ScriptAdvances, SetProxy,
           SetProxyNone, SetTlsProfile, ScriptCaptureReturns, ScriptUndone, NoneStopped,
           TlsRestarted, ScriptInjects, ScriptTunnel, ScriptProbes, ScriptUndoes, NoneDown,
           TlsTunnel, GoScript, Proceed, ClearFlag
  <2> QED
    BY <2>1, ScriptLease, ScriptMovesOne DEF captureVars, sessionVars
<1>2. /\ Runs \subseteq Threads /\ Scripts \subseteq Threads /\ s \notin Runs
      /\ r \in Runs \ Deviceless /\ Deviceless \subseteq Runs
      /\ \A u \in Scripts : RunOf[u] \in Runs
      /\ \A u \in Scripts \ {s} : RunOf[u] # r
  BY ThreadsAssumption, RunnerAssumption DEF RunsAlone, OneCallAtATime
<1>3. \A u \in Threads \ {s} : call'[u] = call[u]
  <2>1. StartCapture(s) \/ StopCapture(s) \/ RestartCapture(s) \/ Consume(s) \/ UNCHANGED mitmVars
    BY DEF ScriptCalls, ScriptContinues, ScriptAdvances, SetProxy,
         SetProxyNone, SetTlsProfile, ScriptCaptureReturns, ScriptUndone, NoneStopped,
         TlsRestarted, ScriptInjects, ScriptTunnel, ScriptProbes, ScriptUndoes, NoneDown,
         TlsTunnel
  <2> QED
    BY <1>2, <2>1, CallsAlone DEF TypeOK
<1>4. NoSessions'
  BY <1>1 DEF CleanInv, NoSessions
<1> HIDE DEF r
\* The other calls and runs stay responsible for what they were.
<1>5. /\ \A u \in Scripts \ {s} : ScriptStops(u) => ScriptStops(u)'
      /\ \A o \in Runs \ {r} : RunStops(o) => RunStops(o)'
  BY <1>1, <1>2, <1>3 DEF ScriptStops, RunStops, ScriptsOf, r
<1>6. \A o \in Runs : Closed(o) <=> run[o] \in {"down", "stopping", "idle"}
  BY DEF Closed
<1>7. /\ script[s] \notin {"tls", "tlsActivate"}
      /\ script[s] # "idle" => run[r] \in {"script", "down", "stopping", "idle"}
      /\ /\ script[s] \in {"start", "restart", "inject", "activate", "probe", "reactivate"}
         /\ run[r] = "script"
         => scriptCaptureStarted[r]
  BY DEF CleanInv, RunsFollow, r
\* What a step has to keep for itself and its run.
<1>8. ASSUME /\ script'[s] \notin {"tls", "tlsActivate"}
             /\ script'[s] # "idle" => run[r] \in {"script", "down", "stopping", "idle"}
             /\ /\ script'[s] \in {"start", "restart", "inject", "activate", "probe", "reactivate"}
                /\ run[r] = "script"
                => scriptCaptureStarted'[r],
             \/ processes' = None
             \/ /\ processes' = processes
                /\ ScriptStops(s) => ScriptStops(s)' \/ RunStops(r)'
                /\ RunStops(r) => RunStops(r)',
             \/ tunnel' = FALSE
             \/ run[r] = "script" \/ script'[s] = "undo"
             \/ tunnel' = tunnel /\ script[s] # "undo"
      PROVE  CleanInv'
  <2>1. RunsFollow'
    <3>1. \A o \in Deviceless : run'[o] \notin {"capture", "tunnel"}
      BY <1>1 DEF CleanInv, RunsFollow
    <3>2. ASSUME NEW u \in Scripts
          PROVE  /\ script'[u] \notin {"tls", "tlsActivate"}
                 /\ script'[u] # "idle" => run'[RunOf[u]] \in {"script", "down", "stopping", "idle"}
                 /\ /\ script'[u] \in {"start", "restart", "inject", "activate", "probe", "reactivate"}
                    /\ run'[RunOf[u]] = "script"
                    => scriptCaptureStarted'[RunOf[u]]
      <4>1. CASE u = s
        BY <1>1, <1>8, <4>1 DEF r
      <4>2. CASE u # s
        BY <1>1, <1>2, <4>2 DEF CleanInv, RunsFollow
      <4> QED
        BY <4>1, <4>2
    <3> QED
      BY <3>1, <3>2 DEF RunsFollow
  <2>2. CaptureOwned'
    BY <1>2, <1>5, <1>8 DEF CleanInv, CaptureOwned
  <2>3. TunnelOwned'
    BY <1>1, <1>2, <1>8 DEF CleanInv, TunnelOwned
  <2> QED
    BY <1>4, <2>1, <2>2, <2>3 DEF CleanInv
<1> script \in [Scripts -> ScriptState] /\ scriptCaptureStarted \in [Runs -> BOOLEAN]
    /\ captureStarted \in [Runs -> BOOLEAN] /\ MitmTypeOK
  BY DEF TypeOK, RunnerTypeOK
<1>9. CASE SetProxy(s)
  <2>1. /\ script[s] = "idle" /\ run[r] = "script" /\ scriptCaptureStarted'[r] = TRUE
        /\ script'[s] \in {"start", "restart"} /\ tunnel' = tunnel
    BY <1>2, <1>9 DEF SetProxy, MayCall, deviceVars, r
  <2>2. processes' = None
    BY <1>9 DEF SetProxy, RestartCapture, Detach, StartCapture, IsCapturing
  <2> QED
    BY <1>8, <2>1, <2>2
<1>10. CASE SetProxyNone(s)
  <2>1. /\ script[s] = "idle" /\ run[r] = "script" /\ tunnel' = tunnel
        /\ script'[s] \in {"idle", "noneStop"}
    BY <1>10 DEF SetProxyNone, MayCall, GoScript, deviceVars, r
  <2>2. processes' = None
    BY <1>10 DEF SetProxyNone, StopCapture, Detach, IsCapturing, mitmVars
  <2> QED
    BY <1>8, <2>1, <2>2
<1>11. CASE SetTlsProfile(s)
  BY <1>11 DEF SetTlsProfile, RunsAlone
\* A call that goes on: closed, it will undo; open, its run's flag is up.
<1>12. ASSUME NEW p \in {"idle", "inject", "activate", "probe", "reactivate"}, Proceed(s, p),
              script[s] \in {"start", "restart", "inject", "activate", "probe", "reactivate"},
              processes' = processes, run[r] = "script" \/ Closed(r)
       PROVE  CleanInv'
  <2>1. scriptCaptureStarted' = scriptCaptureStarted
        /\ script'[s] = IF Closed(r) THEN "undo" ELSE p
    BY <1>12 DEF Proceed, GoScript, r
  <2>2. CASE Closed(r)
    <3>1. script'[s] = "undo" /\ ScriptStops(s)'
      BY <2>1, <2>2 DEF ScriptStops
    <3>2. RunStops(r) => RunStops(r)'
      BY <1>1, <1>2, <1>3, <2>1, <3>1 DEF RunStops, ScriptsOf
    <3> QED
      BY <1>6, <1>7, <1>8, <1>12, <2>1, <2>2, <3>1, <3>2
  <2>3. CASE run[r] = "script"
    <3>1. script'[s] = p /\ scriptCaptureStarted'[r]
      BY <1>2, <1>6, <1>7, <1>12, <2>1, <2>3
    <3>2. RunStops(r)'
      BY <1>1, <1>2, <2>3, <3>1 DEF RunStops, ScriptsOf
    <3> QED
      BY <1>8, <1>12, <2>3, <3>1, <3>2
  <2> QED
    BY <1>12, <2>2, <2>3
<1>13. script[s] # "idle" => run[r] = "script" \/ Closed(r)
  BY <1>2, <1>6, <1>7
<1>14. CASE ScriptCaptureReturns(s) /\ call[s] # "failed"
  BY <1>12, <1>13, <1>14 DEF ScriptCaptureReturns, Consume
<1>15. CASE ScriptInjects(s) \/ ScriptTunnel(s) \/ ScriptProbes(s)
  BY <1>12, <1>13, <1>15 DEF ScriptInjects, ScriptTunnel, ScriptProbes, mitmVars
<1>16. CASE ScriptUndoes(s)
  <2>1. /\ tunnel' = FALSE /\ processes' = None /\ script'[s] = "undoStop" /\ script[s] = "undo"
    BY <1>16
    DEF ScriptUndoes, DeactivateWireGuardTunnel, StopCapture, Detach, IsCapturing, GoScript
  <2> QED
    BY <1>7, <1>8, <2>1
\* A call that ends, or waits, without having been responsible.
<1>17. ASSUME ~ScriptStops(s), script[s] \notin {"idle", "undo"}, processes' = processes,
              script'[s] \in {"idle", "noneDown"}, tunnel' = tunnel \/ tunnel' = FALSE,
              RunStops(r) => RunStops(r)'
       PROVE  CleanInv'
  BY <1>7, <1>8, <1>17
<1>18. CASE ScriptCaptureReturns(s) /\ call[s] = "failed"
  <2>1. /\ script[s] \in {"start", "restart"} /\ script'[s] = "idle" /\ processes' = processes
        /\ tunnel' = tunnel /\ scriptCaptureStarted' = scriptCaptureStarted
    BY <1>18 DEF ScriptCaptureReturns, Consume, GoScript, deviceVars
  <2>2. ~ScriptStops(s)
    BY <1>18, <2>1 DEF ScriptStops
  <2>3. RunStops(r) => RunStops(r)'
    BY <1>1, <1>2, <1>3, <2>1 DEF RunStops, ScriptsOf
  <2> QED
    BY <1>17, <2>1, <2>2, <2>3
<1>19. CASE ScriptUndone(s) \/ NoneStopped(s)
  <2>1. /\ script[s] \in {"undoStop", "noneStop"} /\ processes' = processes /\ tunnel' = tunnel
        /\ script'[s] = IF script[s] = "undoStop" THEN "idle" ELSE "noneDown"
        /\ scriptCaptureStarted' = scriptCaptureStarted
    BY <1>19 DEF ScriptUndone, NoneStopped, Consume, GoScript, deviceVars
  <2>2. ~ScriptStops(s)
    BY <2>1 DEF ScriptStops
  <2>3. RunStops(r) => RunStops(r)'
    BY <1>1, <1>2, <1>3, <2>1 DEF RunStops, ScriptsOf
  <2> QED
    BY <1>17, <2>1, <2>2, <2>3
<1>20. CASE NoneDown(s)
  <2>1. /\ script[s] = "noneDown" /\ processes' = processes /\ tunnel' = FALSE
        /\ script'[s] = "idle"
    BY <1>20 DEF NoneDown, DeactivateWireGuardTunnel, mitmVars
  <2>2. ~ScriptStops(s)
    BY <2>1 DEF ScriptStops
  <2>3. s \in ScriptsOf(r)
    BY DEF ScriptsOf, r
  <2>4. RunStops(r) => RunStops(r)'
    BY <1>1, <1>2, <1>3, <2>1, <2>3 DEF RunStops
  <2> QED
    BY <1>17, <2>1, <2>2, <2>4
<1>21. CASE TlsRestarted(s) \/ TlsTunnel(s)
  BY <1>7, <1>21 DEF TlsRestarted, TlsTunnel
<1> QED
  BY <1>9, <1>10, <1>11, <1>14, <1>15, <1>16, <1>18, <1>19, <1>20, <1>21
  DEF ScriptCalls, ScriptContinues, ScriptAdvances

\* While a call waits it answers for the child that it spawns.
LEMMA WaitClean ==
    ASSUME RunsAlone, TypeOK, CallsMatch, CleanInv, NEW t \in Threads, WaitStep(t)
    PROVE  CleanInv'
<1>1. UNCHANGED <<run, captureStarted, scriptCaptureStarted, script, tunnel, active, stop>>
  BY DEF WaitStep, deviceVars, runnerVars, captureVars, sessionVars
<1>2. NoSessions' /\ RunsFollow' /\ TunnelOwned'
  BY <1>1 DEF CleanInv, NoSessions, RunsFollow, TunnelOwned
<1>3. \A u \in Threads \ {t} : call'[u] = call[u]
  BY CallsAlone DEF WaitStep, TypeOK
<1>4. Runs \subseteq Threads /\ Scripts \subseteq Threads
  BY RunnerAssumption
<1>5. ASSUME call[t] \in {"booting", "ready"} => call'[t] \in {"booting", "ready"},
             processes' = processes
      PROVE  CaptureOwned'
  <2>1. \A s \in Scripts : ScriptStops(s) => ScriptStops(s)'
    BY <1>1, <1>3, <1>4, <1>5 DEF ScriptStops
  <2>2. \A r \in Runs : RunStops(r) => RunStops(r)'
    BY <1>1, <1>3, <1>4, <1>5 DEF RunStops, ScriptsOf
  <2> QED
    BY <1>5, <2>1, <2>2 DEF CleanInv, CaptureOwned
<1>6. MitmTypeOK
  BY DEF TypeOK
<1>7. CASE Spawn(t)
  <2>1. call[t] = "resolving" /\ call'[t] = "booting"
    BY <1>6, <1>7 DEF Spawn, MitmTypeOK
  <2>2. /\ t \in Runs => run[t] = "capture"
        /\ t \in Scripts => script[t] \in {"start", "restart", "tls"}
        /\ t \in Runs \cup Scripts
    BY <2>1, ThreadsAssumption DEF CallsMatch, Phase, Starting, RunsAlone
  <2>3. t \in Runs => t \notin Deviceless /\ RunStops(t)'
    BY <1>1, <2>1, <2>2 DEF CleanInv, RunsFollow, RunStops
  <2>4. t \in Scripts => ScriptStops(t)'
    BY <1>1, <2>1, <2>2 DEF CleanInv, RunsFollow, ScriptStops
  <2>5. CaptureOwned'
    BY <2>2, <2>3, <2>4 DEF CaptureOwned
  <2> QED
    BY <1>2, <2>5 DEF CleanInv
<1>8. CASE ResolutionFails(t) \/ Ready(t) \/ ExitTimeout(t)
  <2>1. processes' = processes
        /\ (call[t] \in {"booting", "ready"} => call'[t] \in {"booting", "ready"})
    BY <1>6, <1>8 DEF ResolutionFails, Ready, ExitTimeout, MitmTypeOK
  <2> QED
    BY <1>2, <1>5, <2>1 DEF CleanInv
<1>9. CASE ReadyTimeout(t)
  BY <1>2, <1>9 DEF ReadyTimeout, CleanInv, CaptureOwned
<1> QED
  BY <1>7, <1>8, <1>9 DEF WaitStep, CallWaits

\* A child that dies is no longer registered; the starts of others go on.
LEMMA ExitClean ==
    ASSUME TypeOK, CallsMatch, CleanInv, NEW c \in Children, ExitStep(c)
    PROVE  CleanInv'
<1>1. UNCHANGED <<run, captureStarted, scriptCaptureStarted, script, tunnel, active, stop>>
  BY DEF ExitStep, deviceVars, runnerVars, captureVars, sessionVars
<1>2. NoSessions' /\ RunsFollow' /\ TunnelOwned'
  BY <1>1 DEF CleanInv, NoSessions, RunsFollow, TunnelOwned
<1>3. processes' = None
      \/ /\ processes' = processes
         /\ \A t \in Threads : call[t] \in {"booting", "ready"} => call'[t] = call[t]
  <2>1. CASE SpawnError(c)
    BY <2>1 DEF SpawnError
  <2>2. CASE ChildExits(c) /\ processes' # None
    <3>1. processes' = processes /\ \A t \in Threads : ~ (child[t] = c /\ call[t] = "booting")
      BY <2>2 DEF ChildExits
    <3>2. \A t \in Threads : call[t] = "ready" => child[t] # c
      BY NoneIsNoChild DEF CallsMatch, Phase, Waiting
    <3>3. \A t \in Threads : child[t] # c => call'[t] = call[t]
      BY <2>2 DEF ChildExits
    <3> QED
      BY <3>1, <3>2, <3>3
  <2> QED
    BY <2>1, <2>2 DEF ExitStep
<1>4. CaptureOwned'
  <2> SUFFICES ASSUME processes' = processes,
                      \A t \in Threads : call[t] \in {"booting", "ready"} => call'[t] = call[t]
               PROVE  CaptureOwned'
    BY <1>3 DEF CaptureOwned
  <2>1. Runs \subseteq Threads /\ Scripts \subseteq Threads
    BY RunnerAssumption
  <2>2. \A s \in Scripts : ScriptStops(s) => ScriptStops(s)'
    BY <1>1, <2>1 DEF ScriptStops
  <2>3. \A r \in Runs : RunStops(r) => RunStops(r)'
    BY <1>1, <2>1 DEF RunStops, ScriptsOf
  <2> QED
    BY <2>2, <2>3 DEF CleanInv, CaptureOwned
<1> QED
  BY <1>2, <1>4 DEF CleanInv

\* When nobody holds the device and no handler call is in flight, no mitmdump is
\* registered and no tunnel is up: for any number of runs that may overlap because
\* the Frida endpoints or the standby check freed the device under them, with
\* calls of setProxy that outlive their runs, crashes and half activations.
THEOREM FreeDeviceStaysClean ==
    ASSUME RunsAlone PROVE Spec => []FreeDeviceIsClean
<1>1. Init => CallsMatch /\ CleanInv
  BY CallsStart, RunnerAssumption
  DEF Init, MitmInit, DeviceInit, RunnerInit, CaptureInit, CleanInv, NoSessions, RunsFollow,
      CaptureOwned, TunnelOwned
<1>2. TypeOK /\ CallsMatch /\ [Next]_vars => CallsMatch'
  BY PhaseStep
<1>3. TypeOK /\ CallsMatch /\ CleanInv /\ [Next]_vars => CleanInv'
  <2> SUFFICES ASSUME TypeOK, CallsMatch, CleanInv, [Next]_vars PROVE CleanInv'
    OBVIOUS
  <2>1. ASSUME UNCHANGED <<tunnel, mitmVars, runnerVars, captureVars>> PROVE CleanInv'
    BY <2>1
    DEF mitmVars, runnerVars, captureVars, sessionVars, CleanInv, NoSessions, RunsFollow,
        CaptureOwned, TunnelOwned, RunStops, ScriptStops
  <2>2. ASSUME NEW r \in Runs, RunStep(r) PROVE CleanInv'
    BY <2>2, RunsAlone, RunClean DEF RunStep
  <2>3. ASSUME NEW s \in Scripts, ScriptStep(s) PROVE CleanInv'
    BY <2>3, RunsAlone, ScriptClean DEF ScriptStep
  <2>4. CASE RunnerRequest
    BY <2>4, RunsAlone, RunClean, ScriptClean DEF RunnerRequest
  <2>5. ASSUME NEW t \in Threads, WaitStep(t) PROVE CleanInv'
    BY <2>5, RunsAlone, WaitClean
  <2>6. ASSUME NEW c \in Children, ExitStep(c) PROVE CleanInv'
    BY <2>6, ExitClean
  <2>7. CASE SessionRequest
    BY <2>7, RunsAlone DEF SessionRequest, StopSession, CleanInv, NoSessions, RunsAlone
  <2>8. ASSUME NEW k \in Stops, StopStep(k) PROVE FALSE
    BY <2>8 DEF StopStep, SessionStopped, StopTunnelDown, CleanInv, NoSessions
  <2>9. CASE LeaseEvent
    BY <2>1, <2>9 DEF LeaseEvent, FridaSpawns, FridaStops, ForceIdle
  <2>10. CASE UNCHANGED vars
    BY <2>1, <2>10 DEF vars, deviceVars
  <2>11. Captures = {}
    BY RunsAlone DEF RunsAlone
  <2> QED
    BY <2>2, <2>3, <2>4, <2>5, <2>6, <2>7, <2>8, <2>9, <2>10, <2>11 DEF Next
<1>4. CleanInv => FreeDeviceIsClean
  BY RunnerAssumption
  DEF CleanInv, CaptureOwned, TunnelOwned, FreeDeviceIsClean, Holders, AttachedRuns,
      ScriptsIdle, ScriptStops, RunStops, IsCapturing
<1> QED
  BY <1>1, <1>2, <1>3, <1>4, TypeCorrect, PTL DEF Spec

=============================================================================
