----------------------------- MODULE LiveStream -----------------------------
(***************************************************************************)
(* The live stream of one Android device (live-stream.ts) that has no      *)
(* minicap: scrcpy, and adb screenshots where scrcpy fails.  A start takes *)
(* seconds and is shared by those who ask for it meanwhile; the handlers   *)
(* and timers of a stream object outlive its registration, and act on the  *)
(* object (scrcpy) or on whatever is registered by then (the viewers).     *)
(*                                                                         *)
(* Commands that kill the scrcpy of the device, whosever it is, take       *)
(* effect as ScrcpyDies.                                                   *)
(***************************************************************************)
EXTENDS Naturals

CONSTANTS Viewers,      \* a viewer, with a socket of its own
          Feeds,        \* DeviceStream objects: as many live on as there are
          NoFeed,
          MaxRestarts,  \* MAX_SCRCPY_RESTARTS
          MaxTimers     \* grace timers that run at once

ASSUME LiveStreamAssumption ==
    /\ NoFeed \notin Feeds /\ MaxRestarts \in Nat \ {0} /\ MaxTimers \in Nat \ {0}

VARIABLES
    feed,       \* the objects
    active,     \* activeStreams of the device
    pending,    \* pendingStarts of the device
    request,    \* start and restart requests in flight
    gone,       \* the sockets that are closed
    watched,    \* the sockets that have a close handler
    graceTimers \* setTimeout(..., 30_000): how many

liveVars == <<feed, active, pending, request, gone, watched, graceTimers>>

\* scrcpy: "boot", tryStartScrcpy runs; "attached", its socket is read; "up", and
\* its handlers are installed; "closing", dead, the close event to come; "timer",
\* to be relaunched.  handle: scrcpyProcess is set.  exit: the exit event is to come.
FreshFeed == [viewers |-> {}, scrcpy |-> "none", handle |-> FALSE, exit |-> FALSE,
              polls |-> FALSE, intentional |-> FALSE, restarts |-> 0]

LiveInit ==
    /\ feed = [f \in Feeds |-> FreshFeed] /\ active = NoFeed /\ pending = NoFeed
    /\ request = [v \in Viewers |-> "none"] /\ gone = {} /\ watched = {}
    /\ graceTimers = 0

-----------------------------------------------------------------------------
InService(f) == f \in {active, pending}

\* Nothing happens any more to an object r that is not in service; a poller it has
\* left running reads nothing that changes.
Spent(r) == r.scrcpy = "none" /\ ~r.exit

\* The child is killed, if there is one: its exit and the end of its socket follow.
Killed(r) == IF r.handle /\ r.scrcpy = "up"
             THEN [r EXCEPT !.scrcpy = "closing", !.exit = TRUE] ELSE r

\* stopStream on the objects F.  The viewers stay in the object.
Stopped(F) ==
    IF active = NoFeed THEN F
    ELSE [F EXCEPT ![active] = [Killed(@) EXCEPT !.handle = FALSE, !.polls = FALSE]]

StopStream == feed' = Stopped(feed) /\ active' = NoFeed

ArmGrace(V) ==
    graceTimers' = IF V = {} /\ graceTimers < MaxTimers THEN graceTimers + 1 ELSE graceTimers

-----------------------------------------------------------------------------
(* Requests.                                                               *)

\* A start or restart request arrives and awaits getDeviceStatus.
Ask(v, how) ==
    /\ v \notin gone /\ request[v] = "none" /\ request' = [request EXCEPT ![v] = how]
    /\ UNCHANGED <<feed, active, pending, gone, watched, graceTimers>>

\* Join the start in flight, or begin one, with no stream registered.
AwaitStart(v, F) ==
    /\ request' = [request EXCEPT ![v] = "waiting"]
    /\ IF pending # NoFeed THEN feed' = F /\ UNCHANGED pending
       ELSE \E f \in Feeds :
              /\ Spent(F[f]) /\ pending' = f
              /\ feed' = [F EXCEPT ![f] = [FreshFeed EXCEPT !.scrcpy = "boot"]]

\* Seeded bug: the restart stops the stream when it has awaited the start.
RestartStopsLate(v) ==
    /\ request[v] = "restart"
    /\ AwaitStart(v, feed)
    /\ UNCHANGED <<active, gone, watched, graceTimers>>

StartGoesOn(v) ==
    /\ request[v] = "start"
    /\ IF active = NoFeed THEN AwaitStart(v, feed) /\ UNCHANGED watched
       ELSE /\ feed' = [feed EXCEPT ![active].viewers = @ \cup {v}]
            /\ watched' = watched \cup {v}
            /\ request' = [request EXCEPT ![v] = "none"] /\ UNCHANGED pending
    /\ UNCHANGED <<active, gone, graceTimers>>

RestartGoesOn(v) ==
    /\ request[v] = "restart"
    /\ active' = NoFeed /\ AwaitStart(v, Stopped(feed))
    /\ UNCHANGED <<gone, watched, graceTimers>>

ViewerStops(v) ==
    /\ v \notin gone /\ active # NoFeed
    /\ feed' = [feed EXCEPT ![active].viewers = @ \ {v}]
    /\ ArmGrace(feed[active].viewers \ {v})
    /\ UNCHANGED <<active, pending, request, gone, watched>>

\* Seeded bug: the close handler arms no timer.
SocketClosesUntimed(v) ==
    /\ v \notin gone /\ gone' = gone \cup {v}
    /\ feed' = IF v \in watched /\ active # NoFeed
               THEN [feed EXCEPT ![active].viewers = @ \ {v}] ELSE feed
    /\ UNCHANGED <<active, pending, request, watched, graceTimers>>

\* The close handler, where one is installed by now, looks for the stream again.
SocketCloses(v) ==
    /\ v \notin gone /\ gone' = gone \cup {v}
    /\ IF v \in watched /\ active # NoFeed
       THEN /\ feed' = [feed EXCEPT ![active].viewers = @ \ {v}]
            /\ ArmGrace(feed[active].viewers \ {v})
       ELSE UNCHANGED <<feed, graceTimers>>
    /\ UNCHANGED <<active, pending, request, watched>>

GraceFires ==
    /\ graceTimers > 0 /\ graceTimers' = graceTimers - 1
    /\ IF active # NoFeed /\ feed[active].viewers = {} THEN StopStream
       ELSE UNCHANGED <<feed, active>>
    /\ UNCHANGED <<pending, request, gone, watched>>

\* The offline listener.
OfflineStops ==
    /\ active # NoFeed /\ StopStream
    /\ UNCHANGED <<pending, request, gone, watched, graceTimers>>

-----------------------------------------------------------------------------
(* Starts.                                                                 *)

Joiners == {v \in Viewers : request[v] = "waiting"}

NoneWaits == request' = [v \in Viewers |-> IF v \in Joiners THEN "none" ELSE request[v]]

\* tryStartScrcpy of f ends and leaves r: the first one ends the start, and those
\* who wait become viewers, whether their sockets are open or not.
LaunchEnds(f, r) ==
    IF f = pending
    THEN /\ feed' = [feed EXCEPT ![f] = [r EXCEPT !.viewers = Joiners, !.polls = r.scrcpy = "none"]]
         /\ active' = f /\ pending' = NoFeed /\ NoneWaits
         /\ watched' = watched \cup Joiners
    ELSE /\ feed' = [feed EXCEPT ![f] = r]
         /\ UNCHANGED <<active, pending, request, watched>>

\* The device's properties cannot be read.
StartThrows ==
    /\ pending # NoFeed /\ feed[pending].scrcpy = "boot"
    /\ feed' = [feed EXCEPT ![pending] = FreshFeed] /\ pending' = NoFeed /\ NoneWaits
    /\ UNCHANGED <<active, gone, watched, graceTimers>>

ScrcpyFails(f) ==
    /\ feed[f].scrcpy = "boot" /\ LaunchEnds(f, [feed[f] EXCEPT !.scrcpy = "none"])
    /\ UNCHANGED <<gone, graceTimers>>

ScrcpyAttaches(f) ==
    /\ feed[f].scrcpy = "boot"
    /\ feed' = [feed EXCEPT ![f].scrcpy = "attached"]
    /\ UNCHANGED <<active, pending, request, gone, watched, graceTimers>>

\* The control socket is connected, or not.
ScrcpyIsUp(f) ==
    /\ feed[f].scrcpy = "attached"
    /\ LaunchEnds(f, [feed[f] EXCEPT !.scrcpy = "up", !.handle = TRUE])
    /\ UNCHANGED <<gone, graceTimers>>

-----------------------------------------------------------------------------
(* The life of scrcpy.                                                     *)

\* The first data of a socket ends the poller; later data meets none.
FirstData(f) ==
    /\ feed[f].scrcpy \in {"attached", "up"} /\ feed[f].polls
    /\ feed' = [feed EXCEPT ![f].polls = FALSE]
    /\ UNCHANGED <<active, pending, request, gone, watched, graceTimers>>

\* A death before the handlers are installed is left out.
ScrcpyDies(f) ==
    /\ feed[f].scrcpy = "up"
    /\ feed' = [feed EXCEPT ![f].scrcpy = "closing", ![f].exit = TRUE]
    /\ UNCHANGED <<active, pending, request, gone, watched, graceTimers>>

\* triggerStreamReset: a tier is chosen, or a viewer is congested.  A reset that is
\* asked for while scrcpy is down is left out (a bound).
Reset ==
    /\ active # NoFeed /\ feed[active].scrcpy = "up"
    /\ feed' = [feed EXCEPT ![active] = [Killed(@) EXCEPT !.intentional = TRUE]]
    /\ UNCHANGED <<active, pending, request, gone, watched, graceTimers>>

\* attachScrcpyExitHandler.
ExitEvent(f) ==
    /\ feed[f].exit
    /\ feed' = [feed EXCEPT ![f].exit = FALSE, ![f].handle = FALSE,
                            ![f].polls = @ \/ (~feed[f].intentional /\ feed[f].viewers # {})]
    /\ UNCHANGED <<active, pending, request, gone, watched, graceTimers>>

Relaunched(r) == [r EXCEPT !.scrcpy = "timer"]

\* The socket's close handler.  A run of MIN_HEALTHY_RUNTIME_MS resets the count.
AfterClose(r, healthy) ==
    LET count == IF healthy THEN 0 ELSE r.restarts + 1 IN
    IF r.intentional THEN [Relaunched(r) EXCEPT !.intentional = FALSE]
    ELSE IF r.viewers = {} \/ ~r.handle \/ r.restarts >= MaxRestarts
    THEN [r EXCEPT !.scrcpy = "none", !.handle = FALSE]
    ELSE IF count >= MaxRestarts
    THEN [r EXCEPT !.scrcpy = "none", !.handle = FALSE, !.polls = TRUE, !.restarts = count]
    ELSE [Relaunched(r) EXCEPT !.handle = FALSE, !.restarts = count]

CloseEvent(f) ==
    /\ feed[f].scrcpy = "closing"
    /\ \E healthy \in BOOLEAN : feed' = [feed EXCEPT ![f] = AfterClose(@, healthy)]
    /\ UNCHANGED <<active, pending, request, gone, watched, graceTimers>>

\* After 500 or 1500 ms, when the exit event of the dead child has come (a bound).
RelaunchFires(f) ==
    /\ feed[f].scrcpy = "timer" /\ ~feed[f].exit /\ feed' = [feed EXCEPT ![f].scrcpy = "boot"]
    /\ UNCHANGED <<active, pending, request, gone, watched, graceTimers>>

-----------------------------------------------------------------------------
LiveNext ==
    \/ \E v \in Viewers : \/ \E how \in {"start", "restart"} : Ask(v, how)
                          \/ StartGoesOn(v) \/ RestartGoesOn(v)
                          \/ ViewerStops(v) \/ SocketCloses(v)
    \/ GraceFires \/ OfflineStops \/ StartThrows \/ Reset
    \/ \E f \in Feeds : \/ ScrcpyFails(f) \/ ScrcpyAttaches(f) \/ ScrcpyIsUp(f)
                        \/ FirstData(f) \/ ScrcpyDies(f) \/ ExitEvent(f)
                        \/ CloseEvent(f) \/ RelaunchFires(f)

LiveSpec == LiveInit /\ [][LiveNext]_liveVars

-----------------------------------------------------------------------------
(* Properties.                                                             *)

LiveTypeOK ==
    /\ feed \in [Feeds -> [viewers : SUBSET Viewers,
                           scrcpy : {"none", "boot", "attached", "up", "closing", "timer"},
                           handle : BOOLEAN, exit : BOOLEAN, polls : BOOLEAN,
                           intentional : BOOLEAN, restarts : 0..MaxRestarts]]
    /\ active \in Feeds \cup {NoFeed} /\ pending \in Feeds \cup {NoFeed}
    /\ request \in [Viewers -> {"none", "start", "restart", "waiting"}]
    /\ gone \subseteq Viewers /\ watched \subseteq Viewers
    /\ graceTimers \in 0..MaxTimers

\* A stream whose map of viewers is empty has a grace timer that will stop it, on
\* whichever path its last viewer left, and whatever timers have fired in vain before.
\* A viewer that was added after its socket had closed still counts as one.
UnwatchedIsTimed == active # NoFeed /\ feed[active].viewers = {} => graceTimers > 0

\* Of the starts, restarts, timers and stops that cross while a start is awaited, none
\* lets a second stream in: while one is being started, some viewer waits for it and
\* none is registered, so that the one that is registered in the end replaces none
\* whose scrcpy and poller nobody could stop.  And no viewer waits for a start that
\* has ended.
OneStreamAtOnce ==
    /\ pending # NoFeed => active = NoFeed
    /\ pending # NoFeed <=> Joiners # {}

\* stopStream clears scrcpyProcess first "so that async exit handlers see
\* scrcpyProcess=null and skip the restart logic": the handlers of a stream that was
\* stopped start neither a poller nor a relaunch.
StoppedStartsNothing ==
    [][\A f \in Feeds : ~InService(f) =>
         /\ feed'[f].polls => feed[f].polls
         /\ feed'[f].scrcpy = "timer" => feed[f].scrcpy = "timer"]_liveVars

=============================================================================
