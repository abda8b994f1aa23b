-------------------------- MODULE LiveStream_proof --------------------------
(***************************************************************************)
(* Theorems about LiveStream, for any viewers, streams and limits.         *)
(***************************************************************************)
EXTENDS LiveStream, TLAPS

LiveInv == LiveTypeOK /\ UnwatchedIsTimed /\ OneStreamAtOnce

FeedType == [viewers : SUBSET Viewers,
             scrcpy : {"none", "boot", "attached", "up", "closing", "timer"},
             handle : BOOLEAN, exit : BOOLEAN, polls : BOOLEAN,
             intentional : BOOLEAN, restarts : 0..MaxRestarts]

LEMMA FreshTyped == FreshFeed \in FeedType
<1>1. 0 \in 0..MaxRestarts
  BY LiveStreamAssumption DEF LiveStreamAssumption
<1> QED BY <1>1 DEF FreshFeed, FeedType

\* The steps of scrcpy change neither the viewers nor what is registered.
LEMMA ScrcpyKeeps ==
    ASSUME LiveInv, NEW f \in Feeds, NEW r \in FeedType, r.viewers = feed[f].viewers,
           feed' = [feed EXCEPT ![f] = r],
           UNCHANGED <<active, pending, request, gone, watched, graceTimers>>
    PROVE  LiveInv'
<1>1. LiveTypeOK'
  BY DEF LiveInv, LiveTypeOK, FeedType
<1>2. \A g \in Feeds : feed'[g].viewers = feed[g].viewers
  BY DEF LiveInv, LiveTypeOK
<1>3. UnwatchedIsTimed' /\ OneStreamAtOnce'
  BY <1>2 DEF LiveInv, LiveTypeOK, UnwatchedIsTimed, OneStreamAtOnce, Joiners
<1> QED BY <1>1, <1>3 DEF LiveInv

\* stopStream changes one object, and keeps the type of all.
LEMMA StoppedType ==
    ASSUME LiveTypeOK
    PROVE  Stopped(feed) \in [Feeds -> FeedType]
<1>1. feed \in [Feeds -> FeedType]
  BY DEF LiveTypeOK, FeedType
<1>2. \A r \in FeedType : [Killed(r) EXCEPT !.handle = FALSE, !.polls = FALSE] \in FeedType
  BY DEF FeedType, Killed
<1>3. active \in Feeds \cup {NoFeed}
  BY DEF LiveTypeOK
<1> QED BY <1>1, <1>2, <1>3 DEF Stopped

\* A start is joined or begun after stopStream or where nothing is registered.
LEMMA AwaitKeeps ==
    ASSUME LiveInv, NEW v \in Viewers, NEW F \in [Feeds -> FeedType], AwaitStart(v, F),
           active' = NoFeed, watched' = watched, gone' = gone, graceTimers' = graceTimers
    PROVE  LiveInv'
<1> USE LiveStreamAssumption DEF LiveStreamAssumption
<1>1. [FreshFeed EXCEPT !.scrcpy = "boot"] \in FeedType
  <2>1. FreshFeed \in FeedType
    BY FreshTyped
  <2> QED BY <2>1 DEF FeedType
<1>2. feed' \in [Feeds -> FeedType] /\ pending' \in Feeds \cup {NoFeed}
  BY <1>1 DEF AwaitStart, LiveInv, LiveTypeOK
<1>3. request' = [request EXCEPT ![v] = "waiting"]
  BY DEF AwaitStart
<1>4. LiveTypeOK'
  BY <1>2, <1>3 DEF LiveInv, LiveTypeOK, FeedType
<1>5. v \in Joiners'
  BY <1>3 DEF LiveInv, LiveTypeOK, Joiners
<1>6. pending' # NoFeed
  BY DEF AwaitStart
<1> QED BY <1>4, <1>5, <1>6 DEF LiveInv, UnwatchedIsTimed, OneStreamAtOnce

\* A launch that ends keeps its viewers, or begins with those who wait.
LEMMA LaunchKeeps ==
    ASSUME LiveInv, NEW f \in Feeds, NEW r \in FeedType, r.viewers = feed[f].viewers,
           LaunchEnds(f, r), gone' = gone, graceTimers' = graceTimers
    PROVE  LiveInv'
<1> USE LiveStreamAssumption DEF LiveStreamAssumption
<1>1. CASE f # pending
  BY <1>1, ScrcpyKeeps DEF LaunchEnds
<1>2. CASE f = pending
  <2> DEFINE s == [r EXCEPT !.viewers = Joiners, !.polls = r.scrcpy = "none"]
  <2>1. feed' = [feed EXCEPT ![f] = s] /\ active' = f /\ pending' = NoFeed
        /\ watched' = watched \cup Joiners
    BY <1>2 DEF LaunchEnds
  <2>2. s \in FeedType /\ s.viewers = Joiners
    <3>1. Joiners \subseteq Viewers
      BY DEF Joiners
    <3>2. (r.scrcpy = "none") \in BOOLEAN
      OBVIOUS
    <3> QED BY <3>1, <3>2 DEF FeedType
  <2>3. request' \in [Viewers -> {"none", "start", "restart", "waiting"}]
    BY <1>2 DEF LaunchEnds, NoneWaits, LiveInv, LiveTypeOK
  <2>4. LiveTypeOK'
    BY <2>1, <2>2, <2>3 DEF LiveInv, LiveTypeOK, FeedType, Joiners
  <2>5. feed'[f].viewers = Joiners /\ Joiners # {}
    BY <1>2, <2>1, <2>2 DEF LiveInv, LiveTypeOK, OneStreamAtOnce
  <2>6. Joiners' = {}
    BY <1>2 DEF LaunchEnds, NoneWaits, Joiners
  <2> QED BY <2>1, <2>4, <2>5, <2>6 DEF LiveInv, UnwatchedIsTimed, OneStreamAtOnce
<1> QED BY <1>1, <1>2

\* A viewer leaves the registered stream: an empty one gets its timer.
LEMMA LeaveKeeps ==
    ASSUME LiveInv, NEW v \in Viewers, active # NoFeed,
           feed' = [feed EXCEPT ![active].viewers = @ \ {v}],
           ArmGrace(feed[active].viewers \ {v}),
           UNCHANGED <<active, pending, request, watched>>, gone' \subseteq Viewers
    PROVE  LiveInv'
<1> USE LiveStreamAssumption DEF LiveStreamAssumption
<1>1. active \in Feeds /\ feed \in [Feeds -> FeedType]
  BY DEF LiveInv, LiveTypeOK, FeedType
<1>2. graceTimers' \in 0..MaxTimers
  BY DEF ArmGrace, LiveInv, LiveTypeOK
<1>3. [feed[active] EXCEPT !.viewers = @ \ {v}] \in FeedType
  BY <1>1 DEF FeedType
<1>4. feed' \in [Feeds -> FeedType] /\ feed'[active].viewers = feed[active].viewers \ {v}
  BY <1>1, <1>3
<1>5. LiveTypeOK'
  BY <1>2, <1>4 DEF LiveInv, LiveTypeOK, FeedType
<1>6. UnwatchedIsTimed'
  BY <1>4 DEF UnwatchedIsTimed, ArmGrace, LiveInv, LiveTypeOK
<1>7. OneStreamAtOnce'
  BY DEF LiveInv, OneStreamAtOnce, Joiners
<1> QED BY <1>5, <1>6, <1>7 DEF LiveInv

\* The registered stream is stopped, by a timer, the offline listener or nobody.
LEMMA StopKeeps ==
    ASSUME LiveInv, StopStream, UNCHANGED <<pending, request, gone, watched>>,
           graceTimers' \in 0..MaxTimers
    PROVE  LiveInv'
<1>1. LiveTypeOK'
  BY StoppedType DEF StopStream, LiveInv, LiveTypeOK, FeedType
<1> QED BY <1>1 DEF LiveInv, StopStream, UnwatchedIsTimed, OneStreamAtOnce, Joiners

-----------------------------------------------------------------------------
LEMMA LiveInitially == ASSUME LiveInit PROVE LiveInv
<1>1. feed \in [Feeds -> FeedType]
  BY FreshTyped DEF LiveInit
<1>2. LiveTypeOK
  BY <1>1, LiveStreamAssumption DEF LiveInit, LiveTypeOK, FeedType, LiveStreamAssumption
<1> QED BY <1>2 DEF LiveInit, LiveInv, UnwatchedIsTimed, OneStreamAtOnce, Joiners

\* Every request and timer keeps the invariant.
LEMMA RequestsKeep ==
    ASSUME LiveInv, NEW v \in Viewers,
           \/ \E how \in {"start", "restart"} : Ask(v, how)
           \/ StartGoesOn(v) \/ RestartGoesOn(v) \/ ViewerStops(v) \/ SocketCloses(v)
    PROVE  LiveInv'
<1>0. feed \in [Feeds -> FeedType]
  BY DEF LiveInv, LiveTypeOK, FeedType
<1>1. ASSUME NEW how \in {"start", "restart"}, Ask(v, how) PROVE LiveInv'
  <2>1. LiveTypeOK' /\ UnwatchedIsTimed'
    BY <1>1 DEF LiveInv, LiveTypeOK, UnwatchedIsTimed, Ask
  <2>2. Joiners' = Joiners
    BY <1>1 DEF Joiners, Ask, LiveInv, LiveTypeOK
  <2> QED BY <1>1, <2>1, <2>2 DEF LiveInv, OneStreamAtOnce, Ask
<1>2. CASE StartGoesOn(v)
  <2>1. CASE active = NoFeed
    BY <1>0, <1>2, <2>1, AwaitKeeps DEF StartGoesOn
  <2>2. CASE active # NoFeed
    <3>1. active \in Feeds /\ pending = NoFeed
      BY <2>2 DEF LiveInv, LiveTypeOK, OneStreamAtOnce
    <3>2. [feed[active] EXCEPT !.viewers = @ \cup {v}] \in FeedType
      BY <1>0, <3>1 DEF FeedType
    <3>3. feed' \in [Feeds -> FeedType] /\ v \in feed'[active].viewers
      BY <1>0, <1>2, <2>2, <3>1, <3>2 DEF StartGoesOn, FeedType
    <3>4. LiveTypeOK'
      BY <1>2, <2>2, <3>3 DEF StartGoesOn, LiveInv, LiveTypeOK, FeedType
    <3>5. Joiners' = Joiners
      BY <1>2, <2>2 DEF StartGoesOn, Joiners, LiveInv, LiveTypeOK
    <3> QED BY <1>2, <2>2, <3>1, <3>3, <3>4, <3>5 DEF StartGoesOn, LiveInv, UnwatchedIsTimed, OneStreamAtOnce
  <2> QED BY <2>1, <2>2
<1>3. CASE RestartGoesOn(v)
  BY <1>3, StoppedType, AwaitKeeps DEF RestartGoesOn, LiveInv
<1>4. CASE ViewerStops(v)
  BY <1>4, LeaveKeeps DEF ViewerStops, LiveInv, LiveTypeOK
<1>5. CASE SocketCloses(v)
  <2>1. CASE v \in watched /\ active # NoFeed
    BY <1>5, <2>1, LeaveKeeps DEF SocketCloses, LiveInv, LiveTypeOK
  <2>2. CASE ~(v \in watched /\ active # NoFeed)
    BY <1>5, <2>2 DEF SocketCloses, LiveInv, LiveTypeOK, UnwatchedIsTimed, OneStreamAtOnce, Joiners
  <2> QED BY <2>1, <2>2
<1> QED BY <1>1, <1>2, <1>3, <1>4, <1>5

\* Timers, the offline listener and a start that throws keep it.
LEMMA EventsKeep ==
    ASSUME LiveInv, GraceFires \/ OfflineStops \/ StartThrows
    PROVE  LiveInv'
<1>1. CASE GraceFires
  <2>1. graceTimers' \in 0..MaxTimers
    BY <1>1, LiveStreamAssumption DEF GraceFires, LiveInv, LiveTypeOK, LiveStreamAssumption
  <2>2. CASE active # NoFeed /\ feed[active].viewers = {}
    BY <1>1, <2>1, <2>2, StopKeeps DEF GraceFires
  <2>3. CASE ~(active # NoFeed /\ feed[active].viewers = {})
    BY <1>1, <2>1, <2>3
    DEF GraceFires, LiveInv, LiveTypeOK, UnwatchedIsTimed, OneStreamAtOnce, Joiners
  <2> QED BY <2>2, <2>3
<1>2. CASE OfflineStops
  BY <1>2, StopKeeps DEF OfflineStops, LiveInv, LiveTypeOK
<1>3. CASE StartThrows
  <2>1. feed' \in [Feeds -> FeedType]
    BY <1>3, FreshTyped DEF StartThrows, LiveInv, LiveTypeOK, FeedType
  <2>2. request' \in [Viewers -> {"none", "start", "restart", "waiting"}]
    BY <1>3 DEF StartThrows, NoneWaits, LiveInv, LiveTypeOK
  <2>3. LiveTypeOK'
    BY <1>3, <2>1, <2>2 DEF StartThrows, LiveInv, LiveTypeOK, FeedType
  <2>4. active' = NoFeed /\ pending' = NoFeed
    BY <1>3 DEF StartThrows, LiveInv, OneStreamAtOnce
  <2>5. Joiners' = {}
    BY <1>3 DEF StartThrows, NoneWaits, Joiners
  <2> QED BY <2>3, <2>4, <2>5 DEF LiveInv, UnwatchedIsTimed, OneStreamAtOnce
<1> QED BY <1>1, <1>2, <1>3

\* What a close event leaves behind is an object with the same viewers.
LEMMA AfterCloseType ==
    ASSUME NEW r \in FeedType, NEW healthy \in BOOLEAN
    PROVE  AfterClose(r, healthy) \in FeedType /\ AfterClose(r, healthy).viewers = r.viewers
<1> USE LiveStreamAssumption DEF LiveStreamAssumption
<1> DEFINE count == IF healthy THEN 0 ELSE r.restarts + 1
           gave == [r EXCEPT !.scrcpy = "none", !.handle = FALSE]
           poll == [r EXCEPT !.scrcpy = "none", !.handle = FALSE, !.polls = TRUE, !.restarts = count]
           again == [[r EXCEPT !.scrcpy = "timer"] EXCEPT !.handle = FALSE, !.restarts = count]
<1>1. [[r EXCEPT !.scrcpy = "timer"] EXCEPT !.intentional = FALSE] \in FeedType
      /\ [[r EXCEPT !.scrcpy = "timer"] EXCEPT !.intentional = FALSE].viewers = r.viewers
  BY DEF FeedType
<1>2. gave \in FeedType /\ gave.viewers = r.viewers
  BY DEF FeedType
<1>3. ASSUME r.restarts < MaxRestarts
      PROVE  poll \in FeedType /\ again \in FeedType
             /\ poll.viewers = r.viewers /\ again.viewers = r.viewers
  <2>1. count \in 0..MaxRestarts
    BY <1>3 DEF FeedType
  <2> HIDE DEF count
  <2> QED BY <2>1 DEF FeedType
<1>4. r.restarts >= MaxRestarts \/ r.restarts < MaxRestarts
  BY DEF FeedType
<1> QED BY <1>1, <1>2, <1>3, <1>4 DEF AfterClose, Relaunched

\* Every step of scrcpy, and a reset of it, keeps the invariant.
LEMMA ScrcpyStepsKeep ==
    ASSUME LiveInv, NEW f \in Feeds,
           \/ ScrcpyFails(f) \/ ScrcpyAttaches(f) \/ ScrcpyIsUp(f) \/ FirstData(f)
           \/ ScrcpyDies(f) \/ ExitEvent(f) \/ CloseEvent(f) \/ RelaunchFires(f)
    PROVE  LiveInv'
<1>0. feed \in [Feeds -> FeedType] /\ feed[f] \in FeedType
  BY DEF LiveInv, LiveTypeOK, FeedType
<1>1. CASE ScrcpyFails(f)
  <2> DEFINE r == [feed[f] EXCEPT !.scrcpy = "none"]
  <2>1. r \in FeedType /\ r.viewers = feed[f].viewers
    BY <1>0 DEF FeedType
  <2> QED BY <1>1, <2>1, LaunchKeeps DEF ScrcpyFails
<1>2. CASE ScrcpyAttaches(f)
  <2> DEFINE r == [feed[f] EXCEPT !.scrcpy = "attached"]
  <2>1. r \in FeedType /\ r.viewers = feed[f].viewers
    BY <1>0 DEF FeedType
  <2>2. feed' = [feed EXCEPT ![f] = r]
    BY <1>0, <1>2 DEF ScrcpyAttaches
  <2> QED BY <1>2, <2>1, <2>2, ScrcpyKeeps DEF ScrcpyAttaches
<1>3. CASE ScrcpyIsUp(f)
  <2> DEFINE r == [feed[f] EXCEPT !.scrcpy = "up", !.handle = TRUE]
  <2>1. r \in FeedType /\ r.viewers = feed[f].viewers
    BY <1>0 DEF FeedType
  <2> QED BY <1>3, <2>1, LaunchKeeps DEF ScrcpyIsUp
<1>4. CASE FirstData(f)
  <2> DEFINE r == [feed[f] EXCEPT !.polls = FALSE]
  <2>1. r \in FeedType /\ r.viewers = feed[f].viewers
    BY <1>0 DEF FeedType
  <2>2. feed' = [feed EXCEPT ![f] = r]
    BY <1>0, <1>4 DEF FirstData
  <2> QED BY <1>4, <2>1, <2>2, ScrcpyKeeps DEF FirstData
<1>5. CASE ScrcpyDies(f)
  <2> DEFINE r == [feed[f] EXCEPT !.scrcpy = "closing", !.exit = TRUE]
  <2>1. r \in FeedType /\ r.viewers = feed[f].viewers
    BY <1>0 DEF FeedType
  <2>2. feed' = [feed EXCEPT ![f] = r]
    BY <1>0, <1>5 DEF ScrcpyDies
  <2> QED BY <1>5, <2>1, <2>2, ScrcpyKeeps DEF ScrcpyDies
<1>6. CASE ExitEvent(f)
  <2> DEFINE p == feed[f].polls \/ (~feed[f].intentional /\ feed[f].viewers # {})
             r == [feed[f] EXCEPT !.exit = FALSE, !.handle = FALSE, !.polls = p]
  <2>1. p \in BOOLEAN
    BY <1>0 DEF FeedType
  <2>2. feed' = [feed EXCEPT ![f] = r]
    BY <1>0, <1>6 DEF ExitEvent
  <2> HIDE DEF p
  <2>3. r \in FeedType /\ r.viewers = feed[f].viewers
    BY <1>0, <2>1 DEF FeedType
  <2> QED BY <1>6, <2>2, <2>3, ScrcpyKeeps DEF ExitEvent
<1>7. CASE CloseEvent(f)
  <2>1. PICK healthy \in BOOLEAN : feed' = [feed EXCEPT ![f] = AfterClose(feed[f], healthy)]
    BY <1>0, <1>7 DEF CloseEvent
  <2> DEFINE r == AfterClose(feed[f], healthy)
  <2>2. r \in FeedType /\ r.viewers = feed[f].viewers
    BY <1>0, AfterCloseType
  <2> QED BY <1>7, <2>1, <2>2, ScrcpyKeeps DEF CloseEvent
<1>8. CASE RelaunchFires(f)
  <2> DEFINE r == [feed[f] EXCEPT !.scrcpy = "boot"]
  <2>1. r \in FeedType /\ r.viewers = feed[f].viewers
    BY <1>0 DEF FeedType
  <2>2. feed' = [feed EXCEPT ![f] = r]
    BY <1>0, <1>8 DEF RelaunchFires
  <2> QED BY <1>8, <2>1, <2>2, ScrcpyKeeps DEF RelaunchFires
<1> QED BY <1>1, <1>2, <1>3, <1>4, <1>5, <1>6, <1>7, <1>8

LEMMA ResetKeeps == ASSUME LiveInv, Reset PROVE LiveInv'
<1>1. active \in Feeds /\ feed \in [Feeds -> FeedType] /\ feed[active] \in FeedType
  BY DEF LiveInv, LiveTypeOK, FeedType, Reset
<1> DEFINE r == [Killed(feed[active]) EXCEPT !.intentional = TRUE]
<1>2. Killed(feed[active]) \in FeedType /\ Killed(feed[active]).viewers = feed[active].viewers
  BY <1>1 DEF Killed, FeedType
<1>3. r \in FeedType /\ r.viewers = feed[active].viewers
  BY <1>2 DEF FeedType
<1>4. feed' = [feed EXCEPT ![active] = r]
  BY <1>1 DEF Reset
<1> QED BY <1>1, <1>3, <1>4, ScrcpyKeeps DEF Reset

\* LiveInv is an inductive invariant.
LEMMA LiveInvariant == LiveSpec => []LiveInv
<1>1. LiveInit => LiveInv
  BY LiveInitially
<1>2. LiveInv /\ [LiveNext]_liveVars => LiveInv'
  <2> SUFFICES ASSUME LiveInv, [LiveNext]_liveVars PROVE LiveInv'
    OBVIOUS
  <2>1. CASE UNCHANGED liveVars
    BY <2>1 DEF liveVars, LiveInv, LiveTypeOK, UnwatchedIsTimed, OneStreamAtOnce, Joiners
  <2>2. CASE LiveNext
    BY <2>2, RequestsKeep, EventsKeep, ResetKeeps, ScrcpyStepsKeep DEF LiveNext
  <2> QED BY <2>1, <2>2
<1> QED BY <1>1, <1>2, PTL DEF LiveSpec

\* For any viewers, streams and limits: whenever nobody watches the registered stream,
\* one of the grace timers in flight is there to stop it (live-stream.ts 1611-1680).
THEOREM UnwatchedStreamsAreTimed == LiveSpec => []UnwatchedIsTimed
<1>1. LiveInv => UnwatchedIsTimed
  BY DEF LiveInv
<1> QED BY <1>1, LiveInvariant, PTL

\* For any viewers, streams and limits: whichever requests, stops and timers cross
\* while a stream is being started, no stream is registered beside it, and somebody
\* waits for it (live-stream.ts 1571-1584 and 1774-1786).
THEOREM OneStreamIsStarted == LiveSpec => []OneStreamAtOnce
<1>1. LiveInv => OneStreamAtOnce
  BY DEF LiveInv
<1> QED BY <1>1, LiveInvariant, PTL
=============================================================================
