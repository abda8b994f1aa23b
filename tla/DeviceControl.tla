--------------------------- MODULE DeviceControl ---------------------------
(***************************************************************************)
(* One device under everything that takes it: automation runs with their   *)
(* scripts, user captures, the Frida endpoints and the standby check, over *)
(* the shared MitmproxyManager and DeviceManager.                          *)
(***************************************************************************)
EXTENDS AutomationRunner, CaptureSessionManager

CONSTANTS Frida,       \* the Frida endpoints are used (BOOLEAN)
          ForcedIdle   \* a lease may grow older than MAX_BUSY_IDLE (BOOLEAN)

ASSUME ThreadsAssumption ==
    /\ Threads = Runs \cup Scripts \cup Captures \cup Stops
    /\ (Runs \cup Scripts) \cap (Captures \cup Stops) = {}
    /\ Runs \cap Scripts = {} /\ Captures \cap Stops = {}

ASSUME NoneIsNoEntry == None \notin Entry

ASSUME FlagsAssumption ==
    {HalfActivations, Crashes, InFlight, TlsChanges, Frida, ForcedIdle}
        \subseteq BOOLEAN

vars == <<mitmVars, deviceVars, runnerVars, captureVars>>

Init == MitmInit /\ DeviceInit /\ RunnerInit /\ CaptureInit

TypeOK == MitmTypeOK /\ DeviceTypeOK /\ RunnerTypeOK /\ CaptureTypeOK

-----------------------------------------------------------------------------
(* The other users of the lease.                                           *)

\* POST /v1/frida/spawn, whose failure path is a FridaStops.
FridaSpawns ==
    /\ Frida
    /\ MarkBusy
    /\ UNCHANGED <<tunnel, mitmVars, runnerVars, captureVars>>

FridaStops ==
    /\ Frida
    /\ MarkIdle
    /\ UNCHANGED <<tunnel, mitmVars, runnerVars, captureVars>>

\* checkStandby frees a device whose lease nothing has refreshed for ten
\* minutes.  A run refreshes it every minute, and a start or a stop of a
\* capture is shorter; an established capture does not refresh it.
ForceIdle ==
    /\ ForcedIdle /\ busy
    /\ AttachedRuns = {}
    /\ \A q \in Captures : start[q] = "idle"
    /\ \A k \in Stops : stop[k] = "idle"
    /\ busy' = FALSE
    /\ UNCHANGED <<tunnel, mitmVars, runnerVars, captureVars>>

-----------------------------------------------------------------------------
(* One thread takes one step: first whoever has a settled call to consume, *)
(* then the next event of the queue.                                       *)

Quiet == \A t \in Threads : call[t] \notin Settled

RunStep(r) ==
    /\ RunContinues(r) \/ (Quiet /\ RunAdvances(r))
    /\ UNCHANGED captureVars

ScriptStep(s) ==
    /\ ScriptContinues(s) \/ (Quiet /\ ScriptAdvances(s))
    /\ UNCHANGED captureVars

CaptureStep(q) ==
    /\ CaptureContinues(q) \/ (Quiet /\ CaptureAdvances(q))
    /\ UNCHANGED runnerVars

StopStep(k) ==
    /\ SessionStopped(k) \/ (Quiet /\ StopTunnelDown(k))
    /\ UNCHANGED runnerVars

WaitStep(t) ==
    Quiet /\ CallWaits(t) /\ UNCHANGED <<deviceVars, runnerVars, captureVars>>

ExitStep(c) ==
    /\ Quiet
    /\ ChildExits(c) \/ SpawnError(c)
    /\ UNCHANGED <<deviceVars, runnerVars, captureVars>>

RunnerRequest ==
    /\ \/ \E r \in Runs : RunStarts(r)
       \/ \E s \in Scripts : ScriptCalls(s)
    /\ UNCHANGED captureVars

SessionRequest ==
    /\ \/ \E q \in Captures : StartSession(q)
       \/ \E k \in Stops : StopSession(k)
    /\ UNCHANGED runnerVars

LeaseEvent == FridaSpawns \/ FridaStops \/ ForceIdle

Next ==
    \/ \E r \in Runs : RunStep(r)
    \/ \E s \in Scripts : ScriptStep(s)
    \/ \E q \in Captures : CaptureStep(q)
    \/ \E k \in Stops : StopStep(k)
    \/ \E t \in Threads : WaitStep(t)
    \/ \E c \in Children : ExitStep(c)
    \/ Quiet /\ (RunnerRequest \/ SessionRequest \/ LeaseEvent)

Spec == Init /\ [][Next]_vars

\* Every await of the code is bounded by a timeout (adb, READY, exit) and a
\* script by its own, so nothing that has begun waits for ever; a child that got
\* SIGKILL exits.  A run's timer stays in the event queue while settled calls go
\* first, however often its script calls setProxy: hence the strong fairness.
\* Requests are not fair: nobody has to start anything.
Fairness ==
    /\ \A r \in Runs : SF_vars(RunStep(r))
    /\ \A s \in Scripts : WF_vars(ScriptStep(s))
    /\ \A q \in Captures : WF_vars(CaptureStep(q))
    /\ \A k \in Stops : WF_vars(StopStep(k))
    /\ \A t \in Threads : WF_vars(WaitStep(t))
    /\ \A c \in Children : WF_vars(proc[c] = "killed" /\ ExitStep(c))

FairSpec == Spec /\ Fairness

-----------------------------------------------------------------------------
(* Properties.                                                             *)

\* Who believes to hold the device.
Holders == AttachedRuns \cup RunningSessions

ScriptsIdle == \A s \in Scripts : script[s] = "idle"

StopsIdle == \A k \in Stops : stop[k] = "idle"

\* The busy flag, which names no owner, is up exactly while one run or capture
\* session uses the device, and two of them never use it at once: no path of
\* any of them releases the lease early, twice, or for somebody else.
LeaseExact ==
    /\ busy <=> Holders # {}
    /\ \A p, o \in Holders : p = o

Lease == INSTANCE DeviceLease WITH Clients <- Runs \cup Captures, holders <- Holders

\* The runs and sessions implement the abstract lease: the device passes from
\* one holder to the next only through the free state.
ImplementsLease == Lease!LeaseSpec

\* When nobody uses the device, no mitmdump is registered for it and no tunnel
\* is left on the phone, which without its proxy would have no internet.
FreeDeviceIsClean == Holders = {} /\ ScriptsIdle => ~IsCapturing /\ ~tunnel

\* From its registration until its stop is requested, an established capture
\* loses its mitmdump only by that child's own death, and never the tunnel it
\* brought up: no run, script or failing start takes either of them away.
CaptureUndisturbed ==
    [][active # None /\ active' = active /\ StopsIdle
         => /\ processes' = processes \/ proc'[processes] = "free" \/ ~StopsIdle'
            /\ active.tunnel => tunnel' = tunnel]_vars

\* A capture that ends, by a stop or by a start that failed, leaves no mitmdump
\* registered for the device, and an established one not the tunnel it brought
\* up, whatever crashed or failed half-way while it ran or was stopped.
EndedCaptureIsGone ==
    [][\A q \in Captures : session[q] = "running" /\ session'[q] = "ended"
         => /\ ~IsCapturing'
            /\ active # None /\ active.tunnel => ~tunnel']_vars

\* A session row says "running" only while its start is in progress or it is the
\* registered session, so that a stop request can still end it.
RunningSessionReachable ==
    \A q \in RunningSessions : start[q] = "idle" => active # None /\ active.capture = q

\* While a session is registered, what clients were last told about the device
\* is about that session, whatever probe of an earlier one reports late.
StatusIsItsOwn == active # None => shown = active.capture

\* Clients are never told that a session captures which has already ended.
ShownSessionRuns == shown # None => session[shown] = "running"

\* A stop removes and ends the session that it read when it was requested,
\* never one that has replaced it in the meantime.
StopEndsItsOwn ==
    [][active # None /\ active' = None
         => \E k \in Stops : StopStep(k) /\ active = target[k]]_vars

\* A setProxy that was in flight when its run ended undoes what it started: it
\* does not take down the tunnel that a capture session has set up since.
LateSetProxyUndoesItsOwn ==
    [][\A s \in Scripts : script[s] = "undo" /\ ScriptStep(s)
         => active = None \/ ~active.tunnel \/ tunnel']_vars

\* Every run ends, whatever mitmdump does and whenever its script is cut off.
RunEnds == \A r \in Runs : run[r] # "idle" ~> run[r] = "idle"

\* Every start and stop of a capture returns.
CaptureCallsReturn ==
    /\ \A q \in Captures : start[q] # "idle" ~> start[q] = "idle"
    /\ \A k \in Stops : stop[k] # "idle" ~> stop[k] = "idle"

=============================================================================
