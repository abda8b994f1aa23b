-------------------------- MODULE AutomationRunner --------------------------
(***************************************************************************)
(* AutomationRunner.runAutomation on one device, and the setProxy and      *)
(* setTlsProfile handlers that createCaptureHandlers gives to its script.  *)
(* Each run, and each call of a handler, is a thread of MitmproxyManager.  *)
(***************************************************************************)
EXTENDS MitmproxyManager, DeviceManager

CONSTANTS Runs,        \* invocations of runAutomation with this deviceId
          Deviceless,  \* those of automations with requiresDevice = false
          Scripts,     \* calls of setProxy or setTlsProfile by their scripts
          RunOf,       \* the run each of them belongs to
          InFlight,    \* such a call may outlive its run (BOOLEAN)
          TlsChanges   \* scripts call setTlsProfile (BOOLEAN)

ASSUME RunnerAssumption ==
    Runs \cup Scripts \subseteq Threads /\ Deviceless \subseteq Runs
    /\ RunOf \in [Scripts -> Runs \ Deviceless]

VARIABLES run,                  \* where each run is
          captureStarted,       \* its requiresHttpsCapture capture started
          scriptCaptureStarted, \* its script started one with setProxy
          script                \* where each handler call is

runnerVars == <<run, captureStarted, scriptCaptureStarted, script>>

RunState == {"idle", "capture", "tunnel", "script", "down", "stopping"}

ScriptState == {"idle", "start", "inject", "activate", "probe", "restart",
                "reactivate", "noneStop", "noneDown", "undo", "undoStop",
                "tls", "tlsActivate"}

RunnerTypeOK ==
    /\ run \in [Runs -> RunState]
    /\ captureStarted \in [Runs -> BOOLEAN]
    /\ scriptCaptureStarted \in [Runs -> BOOLEAN]
    /\ script \in [Scripts -> ScriptState]

RunnerInit ==
    /\ run = [r \in Runs |-> "idle"]
    /\ captureStarted = [r \in Runs |-> FALSE]
    /\ scriptCaptureStarted = [r \in Runs |-> FALSE]
    /\ script = [s \in Scripts |-> "idle"]

\* The runs that hold the lease, or believe so.
AttachedRuns == {r \in Runs \ Deviceless : run[r] # "idle"}

ScriptsOf(r) == {s \in Scripts : RunOf[s] = r}

\* The run has locked its handlers (close()).
Closed(r) == run[r] \in {"down", "stopping", "idle"}

GoRun(r, state) ==
    /\ run' = [run EXCEPT ![r] = state]
    /\ UNCHANGED <<captureStarted, scriptCaptureStarted, script>>

GoScript(s, state) ==
    /\ script' = [script EXCEPT ![s] = state]
    /\ UNCHANGED <<run, captureStarted, scriptCaptureStarted>>

-----------------------------------------------------------------------------
(* runAutomation.  A call that its guards reject changes nothing: the      *)
(* isCapturing guard gives back, in the same atomic step, the lease it has *)
(* just taken.                                                             *)

\* A run slot stands for a new invocation each time it leaves "idle".
FreshRun(r) == run[r] = "idle" /\ \A s \in ScriptsOf(r) : script[s] = "idle"

\* Seeded bug: the run takes the device with markBusy.
StartRunAnyway(r) ==
    /\ FreshRun(r) /\ r \notin Deviceless
    /\ MarkBusy /\ ~IsCapturing
    /\ GoRun(r, "script") /\ UNCHANGED mitmVars
    /\ UNCHANGED tunnel

StartRun(r) ==
    /\ FreshRun(r) /\ r \notin Deviceless
    /\ TryAcquireBusy /\ ~IsCapturing
    /\ \/ GoRun(r, "capture") /\ StartCapture(r)       \* requiresHttpsCapture
       \/ GoRun(r, "script") /\ UNCHANGED mitmVars
    /\ UNCHANGED tunnel

\* An automation that needs no device, started with a deviceId all the same.
StartDevicelessRun(r) ==
    /\ FreshRun(r) /\ r \in Deviceless
    /\ GoRun(r, "script")
    /\ UNCHANGED <<mitmVars, deviceVars>>

RunCaptureReturns(r) ==
    /\ run[r] = "capture" /\ call[r] \in Settled
    /\ Consume(r)
    /\ run' = [run EXCEPT ![r] = IF call[r] = "ready" THEN "tunnel" ELSE "script"]
    /\ captureStarted' = [captureStarted EXCEPT ![r] = call[r] # "failed"]
    /\ UNCHANGED <<scriptCaptureStarted, script, deviceVars>>

\* Certificate and tunnel; a failure is logged and the run goes on.
RunTunnel(r) ==
    /\ run[r] = "tunnel"
    /\ ActivateWireGuardTunnel \/ ActivationFails
    /\ GoRun(r, "script")
    /\ UNCHANGED <<busy, mitmVars>>

\* The script returns, throws, times out or is cancelled; the clean-up locks
\* the handlers and takes the tunnel down.  A handler call is still in flight
\* only where the instance allows it.
RunCloses(r) ==
    /\ run[r] = "script"
    /\ InFlight \/ \A s \in ScriptsOf(r) : script[s] = "idle"
    /\ GoRun(r, "down")
    /\ UNCHANGED <<mitmVars, deviceVars>>

FinishRun(r) ==
    /\ run' = [run EXCEPT ![r] = "idle"]
    /\ captureStarted' = [captureStarted EXCEPT ![r] = FALSE]
    /\ scriptCaptureStarted' = [scriptCaptureStarted EXCEPT ![r] = FALSE]
    /\ MarkIdle
    /\ UNCHANGED script

\* Tunnel down, then stop the capture if this run started one and one is
\* registered; otherwise the run is over.
RunTunnelDown(r) ==
    /\ run[r] = "down"
    /\ DeactivateWireGuardTunnel
    /\ IF (captureStarted[r] \/ scriptCaptureStarted[r]) /\ IsCapturing
         THEN StopCapture(r) /\ GoRun(r, "stopping") /\ UNCHANGED busy
         ELSE FinishRun(r) /\ UNCHANGED mitmVars

RunStopReturns(r) ==
    /\ run[r] = "stopping" /\ call[r] = "stopped"
    /\ Consume(r)
    /\ FinishRun(r)
    /\ UNCHANGED tunnel

-----------------------------------------------------------------------------
(* device.setProxy.  The flag is raised before the first await.            *)

MayCall(s) == script[s] = "idle" /\ run[RunOf[s]] = "script"

SetProxy(s) ==
    /\ MayCall(s)
    /\ scriptCaptureStarted' = [scriptCaptureStarted EXCEPT ![RunOf[s]] = TRUE]
    /\ \/ RestartCapture(s) /\ script' = [script EXCEPT ![s] = "restart"]
       \/ ~IsCapturing /\ StartCapture(s) /\ script' = [script EXCEPT ![s] = "start"]
    /\ UNCHANGED <<run, captureStarted, deviceVars>>

\* Seeded bug: the handler does not ask whether its run is closed.
ProceedRegardless(s, state) == GoScript(s, state)

\* abandonIfClosed: a handler call that finds its run closed undoes its work.
Proceed(s, state) == GoScript(s, IF Closed(RunOf[s]) THEN "undo" ELSE state)

ScriptCaptureReturns(s) ==
    /\ script[s] \in {"start", "restart"} /\ call[s] \in Settled
    /\ Consume(s)
    /\ IF call[s] = "failed" THEN GoScript(s, "idle")          \* setProxy throws
       ELSE Proceed(s, IF call[s] = "already" THEN "idle"
                       ELSE IF script[s] = "start" THEN "inject" ELSE "reactivate")
    /\ UNCHANGED deviceVars

ScriptInjects(s) ==
    /\ script[s] = "inject"
    /\ Proceed(s, "activate") \/ Proceed(s, "idle")            \* or it fails
    /\ UNCHANGED <<mitmVars, deviceVars>>

ScriptTunnel(s) ==
    /\ script[s] \in {"activate", "reactivate"}
    /\ \/ /\ ActivateWireGuardTunnel
          /\ Proceed(s, IF script[s] = "activate" THEN "probe" ELSE "idle")
       \/ ActivationFails /\ Proceed(s, "idle")
    /\ UNCHANGED <<busy, mitmVars>>

ScriptProbes(s) ==
    /\ script[s] = "probe"
    /\ Proceed(s, "idle")
    /\ UNCHANGED <<mitmVars, deviceVars>>

\* Tunnel down, then stop whatever capture the device has.
ScriptUndoes(s) ==
    /\ script[s] = "undo"
    /\ DeactivateWireGuardTunnel
    /\ StopCapture(s) /\ GoScript(s, "undoStop")
    /\ UNCHANGED busy

ScriptUndone(s) ==
    /\ script[s] = "undoStop" /\ call[s] = "stopped"
    /\ Consume(s) /\ GoScript(s, "idle")
    /\ UNCHANGED deviceVars

-----------------------------------------------------------------------------
(* device.setProxy('none'): mitmproxy first, then the tunnel.              *)

ClearFlag(s) ==
    scriptCaptureStarted' = [scriptCaptureStarted EXCEPT
        ![RunOf[s]] = @ /\ Closed(RunOf[s])]        \* close() has read it

SetProxyNone(s) ==
    /\ MayCall(s)
    /\ \/ IsCapturing /\ StopCapture(s) /\ GoScript(s, "noneStop")
       \/ ~IsCapturing /\ ClearFlag(s) /\ UNCHANGED <<run, captureStarted, script, mitmVars>>
    /\ UNCHANGED deviceVars

NoneStopped(s) ==
    /\ script[s] = "noneStop" /\ call[s] = "stopped"
    /\ Consume(s) /\ GoScript(s, "noneDown")
    /\ UNCHANGED deviceVars

NoneDown(s) ==
    /\ script[s] = "noneDown"
    /\ DeactivateWireGuardTunnel
    /\ ClearFlag(s) /\ script' = [script EXCEPT ![s] = "idle"]
    /\ UNCHANGED <<run, captureStarted, busy, mitmVars>>

-----------------------------------------------------------------------------
(* device.setTlsProfile while a capture is registered.  It never asks      *)
(* whether its run is closed.                                              *)

SetTlsProfile(s) ==
    /\ TlsChanges /\ MayCall(s)
    /\ RestartCapture(s) /\ GoScript(s, "tls")
    /\ UNCHANGED deviceVars

TlsRestarted(s) ==
    /\ script[s] = "tls" /\ call[s] \in Settled
    /\ Consume(s)
    /\ GoScript(s, IF call[s] = "ready" THEN "tlsActivate" ELSE "idle")
    /\ UNCHANGED deviceVars

TlsTunnel(s) ==
    /\ script[s] = "tlsActivate"
    /\ ActivateWireGuardTunnel \/ ActivationFails
    /\ GoScript(s, "idle")
    /\ UNCHANGED <<busy, mitmVars>>

-----------------------------------------------------------------------------
(* The steps that consume a settled call run before any other event.       *)

RunContinues(r) == RunCaptureReturns(r) \/ RunStopReturns(r)

RunStarts(r) == StartRun(r) \/ StartDevicelessRun(r)

RunAdvances(r) == RunTunnel(r) \/ RunCloses(r) \/ RunTunnelDown(r)

ScriptContinues(s) ==
    ScriptCaptureReturns(s) \/ ScriptUndone(s) \/ NoneStopped(s) \/ TlsRestarted(s)

ScriptCalls(s) == SetProxy(s) \/ SetProxyNone(s) \/ SetTlsProfile(s)

ScriptAdvances(s) ==
    \/ ScriptInjects(s) \/ ScriptTunnel(s) \/ ScriptProbes(s) \/ ScriptUndoes(s)
    \/ NoneDown(s) \/ TlsTunnel(s)

=============================================================================
