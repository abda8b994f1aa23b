----------------------- MODULE CaptureSessionManager -----------------------
(***************************************************************************)
(* CaptureSessionManager on one device: user-initiated capture sessions in *)
(* the wireguard mode.  Each startCapture and each stopCapture is a thread *)
(* of MitmproxyManager; a start and the session row it inserts have the    *)
(* same name.                                                              *)
(***************************************************************************)
EXTENDS MitmproxyManager, DeviceManager

CONSTANTS Captures,   \* invocations of startCapture, and their session rows
          Stops       \* invocations of stopCapture

ASSUME CaptureAssumption == Captures \cup Stops \subseteq Threads

VARIABLES active,     \* activeSessions.get(deviceId): its session and whether
                      \* it activated a tunnel, or None
          start,      \* where each startCapture is
          session,    \* the status of each session row
          stop,       \* where each stopCapture is
          target,     \* the entry of activeSessions it has read
          probing,    \* sessions whose detached connectivity probe still runs
          shown       \* the session that clients were last told is capturing

sessionVars == <<active, start, session, stop, target>>

statusVars == <<probing, shown>>

captureVars == <<sessionVars, statusVars>>

Entry == [capture : Captures, tunnel : BOOLEAN]

StartState == {"idle", "capture", "tunnel", "probe", "reactivate", "failing"}

StopState == {"idle", "down", "stopping"}

CaptureTypeOK ==
    /\ active \in Entry \cup {None}
    /\ start \in [Captures -> StartState]
    /\ session \in [Captures -> {"none", "running", "ended"}]
    /\ stop \in [Stops -> StopState]
    /\ target \in [Stops -> Entry \cup {None}]
    /\ probing \subseteq Captures
    /\ shown \in Captures \cup {None}

CaptureInit ==
    /\ active = None
    /\ start = [q \in Captures |-> "idle"]
    /\ session = [q \in Captures |-> "none"]
    /\ stop = [k \in Stops |-> "idle"]
    /\ target = [k \in Stops |-> None]
    /\ probing = {}
    /\ shown = None

\* The sessions that hold the lease, or believe so.
RunningSessions == {q \in Captures : session[q] = "running"}

GoStart(q, state) ==
    /\ start' = [start EXCEPT ![q] = state]
    /\ UNCHANGED <<active, session, stop, target, probing>>

\* broadcastStatus 'capturing' with this session's id; 'error' and 'stopped'
\* make it None.
Broadcast(q) == shown' = q

-----------------------------------------------------------------------------
(* startCapture.  With a session registered it returns that session, and   *)
(* on a busy device it throws: neither changes anything.                   *)

\* A session slot stands for a new row each time it starts; no probe and no
\* stop may still work for the row it stood for before.
FreshCapture(q) ==
    /\ start[q] = "idle" /\ session[q] # "running" /\ q \notin probing
    /\ \A k \in Stops : target[k] \notin [capture : {q}, tunnel : BOOLEAN]

StartSession(q) ==
    /\ FreshCapture(q)
    /\ active = None /\ TryAcquireBusy
    /\ StartCapture(q)
    /\ start' = [start EXCEPT ![q] = "capture"]
    /\ session' = [session EXCEPT ![q] = "running"]
    /\ UNCHANGED <<active, stop, target, statusVars, tunnel>>

\* The catch block.  tunnelActivated is set only from the handler's result, so
\* it is false here and the tunnel is left alone; mitmproxy is stopped.
StartFails(q) == StopCapture(q) /\ GoStart(q, "failing") /\ UNCHANGED busy

\* Seeded bug: the entry is registered without its session.
ActivatedNameless(q, ownTunnel) ==
    /\ active' = [capture |-> None, tunnel |-> ownTunnel]
    /\ start' = [start EXCEPT ![q] = "idle"]
    /\ Broadcast(q)
    /\ UNCHANGED <<session, stop, target, probing>>

\* A tunnel of its own leaves a probe running, which nobody waits for.
Activated(q, ownTunnel) ==
    /\ active' = [capture |-> q, tunnel |-> ownTunnel]
    /\ start' = [start EXCEPT ![q] = "idle"]
    /\ probing' = IF ownTunnel THEN probing \cup {q} ELSE probing
    /\ Broadcast(q)
    /\ UNCHANGED <<session, stop, target>>

\* The failed start makes room for the stop call within the same step.
CaptureReturns(q) ==
    /\ start[q] = "capture" /\ call[q] \in Settled
    /\ \/ call[q] = "failed" /\ StartFails(q) /\ UNCHANGED shown
       \/ /\ call[q] # "failed"
          /\ Consume(q) /\ Broadcast(q)
          /\ GoStart(q, IF call[q] = "ready" THEN "tunnel" ELSE "probe")
          /\ UNCHANGED busy
    /\ UNCHANGED tunnel

\* The certificate or the tunnel fails, the latter after a broadcast.
SetupFails(q) ==
    /\ ActivationFails /\ StartFails(q)
    /\ Broadcast(q) \/ UNCHANGED shown

\* Certificate and tunnel; then mitmproxy must still be there.
SessionTunnel(q) ==
    /\ start[q] = "tunnel"
    /\ \/ /\ ActivateWireGuardTunnel
          /\ IF IsCapturing
               THEN Activated(q, TRUE) /\ UNCHANGED <<busy, mitmVars>>
               ELSE StartFails(q) /\ Broadcast(q)
       \/ SetupFails(q)

\* mitmproxy was already running: probe the phone, and activate again unless
\* the probe succeeds.
SessionProbes(q) ==
    /\ start[q] = "probe"
    /\ Activated(q, FALSE) \/ (GoStart(q, "reactivate") /\ UNCHANGED shown)
    /\ UNCHANGED <<mitmVars, deviceVars>>

SessionReactivates(q) ==
    /\ start[q] = "reactivate"
    /\ \/ /\ ActivateWireGuardTunnel
          /\ Activated(q, TRUE)
          /\ UNCHANGED <<busy, mitmVars>>
       \/ SetupFails(q)

\* Seeded bug: the catch block forgets markIdle.
StartFailedStillBusy(q) ==
    /\ start[q] = "failing" /\ call[q] = "stopped"
    /\ Consume(q)
    /\ start' = [start EXCEPT ![q] = "idle"]
    /\ session' = [session EXCEPT ![q] = "ended"]
    /\ shown' = None
    /\ UNCHANGED <<active, stop, target, probing, deviceVars>>

\* Seeded bug: the catch block leaves the session row "running".
StartFailedStillRunning(q) ==
    /\ start[q] = "failing" /\ call[q] = "stopped"
    /\ Consume(q)
    /\ start' = [start EXCEPT ![q] = "idle"]
    /\ MarkIdle /\ shown' = None
    /\ UNCHANGED <<active, session, stop, target, probing, tunnel>>

StartFailed(q) ==
    /\ start[q] = "failing" /\ call[q] = "stopped"
    /\ Consume(q)
    /\ start' = [start EXCEPT ![q] = "idle"]
    /\ session' = [session EXCEPT ![q] = "ended"]
    /\ MarkIdle /\ shown' = None
    /\ UNCHANGED <<active, stop, target, probing, tunnel>>

-----------------------------------------------------------------------------
(* The detached probe reports when mitmproxy runs for the device and its   *)
(* session, or none, is registered: one that starts is not registered yet. *)

\* Seeded bug: any session that captures the device will do.
ProbeReportsRegardless(q) ==
    /\ q \in probing
    /\ probing' = probing \ {q}
    /\ shown' = IF IsCapturing THEN q ELSE shown
    /\ UNCHANGED <<sessionVars, mitmVars, deviceVars>>

ProbeReports(q) ==
    /\ q \in probing
    /\ probing' = probing \ {q}
    /\ shown' = IF IsCapturing /\ (active = None \/ active.capture = q)
                   THEN q ELSE shown
    /\ UNCHANGED <<sessionVars, mitmVars, deviceVars>>

-----------------------------------------------------------------------------
(* stopCapture.  The entry stays registered until everything is down.      *)

StopSession(k) ==
    /\ stop[k] = "idle" /\ active # None
    /\ target' = [target EXCEPT ![k] = active]
    /\ \/ /\ active.tunnel
          /\ stop' = [stop EXCEPT ![k] = "down"]
          /\ UNCHANGED mitmVars
       \/ /\ ~active.tunnel
          /\ stop' = [stop EXCEPT ![k] = "stopping"]
          /\ StopCapture(k)
    /\ UNCHANGED <<active, start, session, statusVars, deviceVars>>

\* Seeded bug: the tunnel is left to the phone.
StopTunnelStays(k) ==
    /\ stop[k] = "down"
    /\ StopCapture(k)
    /\ stop' = [stop EXCEPT ![k] = "stopping"]
    /\ UNCHANGED <<active, start, session, target, statusVars, deviceVars>>

StopTunnelDown(k) ==
    /\ stop[k] = "down"
    /\ DeactivateWireGuardTunnel
    /\ StopCapture(k)
    /\ stop' = [stop EXCEPT ![k] = "stopping"]
    /\ UNCHANGED <<active, start, session, target, statusVars, busy>>

\* Whatever is registered by now is deregistered, and the lease released.
SessionStopped(k) ==
    /\ stop[k] = "stopping" /\ call[k] = "stopped"
    /\ Consume(k)
    /\ session' = [session EXCEPT ![target[k].capture] = "ended"]
    /\ active' = None
    /\ stop' = [stop EXCEPT ![k] = "idle"]
    /\ target' = [target EXCEPT ![k] = None]
    /\ MarkIdle /\ shown' = None
    /\ UNCHANGED <<start, probing, tunnel>>

-----------------------------------------------------------------------------
CaptureContinues(q) == CaptureReturns(q) \/ StartFailed(q)

CaptureAdvances(q) ==
    SessionTunnel(q) \/ SessionProbes(q) \/ SessionReactivates(q) \/ ProbeReports(q)

=============================================================================
