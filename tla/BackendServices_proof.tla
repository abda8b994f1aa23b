------------------------ MODULE BackendServices_proof ------------------------
(***************************************************************************)
(* The services as the runs move them.  A behaviour of BackendServices is  *)
(* one of each service, so that what is proved of a service alone holds of *)
(* all of them side by side.  The proofs about notifications and discovery *)
(* are short and stand here.                                               *)
(***************************************************************************)
EXTENDS BackendServices, AdbSession_proof, AdbPairing_proof, AdbListeners_proof,
        InterceptHold_proof, LiveStream_proof, TLAPS

-----------------------------------------------------------------------------
(* Notifications: none is dispatched twice, for any events, channels and   *)
(* number of retries.                                                      *)

\* An event is dispatched once at most because it is in one place: not emitted
\* yet, in the table, in a flush that goes on, or gone.
OnePlace ==
    \A e \in Events :
        /\ dispatched[e] <= 1
        /\ e \in rows \cup flushing => dispatched[e] = 0
        /\ e \in flushing => e \notin rows
        /\ e \notin emitted => dispatched[e] = 0

NotificationInv == NotificationTypeOK /\ OnePlace

\* Dispatch keeps the types, and counts each of its events once.
LEMMA DispatchCounts ==
    ASSUME NotificationInv, NEW E \in SUBSET Events, Dispatch(E)
    PROVE  /\ attempts' \in [Events -> [Channels -> 0 .. MaxRetries]]
           /\ dispatched' \in [Events -> Nat]
           /\ \A e \in Events :
                 dispatched'[e] = IF e \in E THEN dispatched[e] + 1 ELSE dispatched[e]
  BY NotificationAssumption DEF NotificationInv, NotificationTypeOK, Dispatch

LEMMA NoAttemptsType == NoAttempts \in [Events -> [Channels -> 0 .. MaxRetries]]
  <1>1. [c \in Channels |-> 0] \in [Channels -> 0 .. MaxRetries]
    BY NotificationAssumption
  <1> QED BY <1>1 DEF NoAttempts

\* A flush moves rows out of the table, and none is there and in the flush.
LEMMA FlushMoves ==
    ASSUME NotificationInv, NEW R \in SUBSET rows, FlushQueue(R),
           UNCHANGED <<quiet, subscribed, emitted, history>>,
           up' \in BOOLEAN, flushTimer' \in BOOLEAN
    PROVE  NotificationInv'
  BY DEF FlushQueue, NoDispatch, NotificationInv, NotificationTypeOK, OnePlace

\* The events wait, are sent and are forgotten in one place at a time, however the
\* timer, a restart and the queue page cross.
THEOREM NotificationInvHolds == NotificationSpec => []NotificationInv
  <1>1. NotificationInit => NotificationInv
    <2> SUFFICES ASSUME NotificationInit PROVE NotificationTypeOK /\ OnePlace
      BY DEF NotificationInv
    <2>1. attempts \in [Events -> [Channels -> 0 .. MaxRetries]]
      BY NoAttemptsType DEF NotificationInit
    <2>2. dispatched \in [Events -> Nat] /\ OnePlace
      BY DEF NotificationInit, OnePlace
    <2>3. /\ quiet \in BOOLEAN /\ up \in BOOLEAN /\ flushTimer \in BOOLEAN
          /\ subscribed \subseteq Channels /\ emitted \subseteq Events
          /\ rows \subseteq emitted /\ flushing \subseteq emitted
          /\ history \subseteq [event : Events, channel : Channels, success : BOOLEAN]
      BY DEF NotificationInit
    <2> QED BY <2>1, <2>2, <2>3 DEF NotificationTypeOK
  <1>2. NotificationInv /\ [NotificationNext]_notificationVars => NotificationInv'
    <2> SUFFICES ASSUME NotificationInv, [NotificationNext]_notificationVars
                 PROVE  NotificationInv'
      OBVIOUS
    <2> USE DEF NotificationInv, NotificationTypeOK, OnePlace
    <2>1. ASSUME NEW e \in Events, Emit(e) PROVE NotificationInv'
      <3>0. e \notin emitted /\ emitted' = emitted \cup {e} /\ flushing = {}
            /\ UNCHANGED <<quiet, subscribed, up, flushing, history>>
        BY <2>1 DEF Emit, Ready
      <3>1. CASE Dispatch({e}) /\ UNCHANGED <<rows, flushTimer>>
        BY <3>0, <3>1, DispatchCounts
      <3>2. CASE NoDispatch /\ rows' = (rows \ SameSource(e)) \cup {e} /\ flushTimer' = TRUE
        BY <3>0, <3>2 DEF SameSource, NoDispatch
      <3>3. CASE NoDispatch /\ UNCHANGED <<rows, flushTimer>>
        BY <3>0, <3>3 DEF NoDispatch
      <3> QED BY <2>1, <3>1, <3>2, <3>3 DEF Emit
    <2>2. ASSUME NEW e \in Events, DiscardQueued(e) PROVE NotificationInv'
      BY <2>2 DEF DiscardQueued, NoDispatch
    <2>3. ASSUME NEW R \in {{r} : r \in rows} \cup {rows}, SendQueued(R)
          PROVE NotificationInv'
      <3>1. R \in SUBSET rows OBVIOUS
      <3> QED BY <2>3, <3>1, FlushMoves DEF SendQueued
    <2>4. CASE FlushTimerFires
      <3>1. CASE quiet
        BY <2>4, <3>1 DEF FlushTimerFires, NoDispatch
      <3>2. CASE ~quiet
        <4>1. FlushQueue(rows) /\ flushTimer' = FALSE
              /\ UNCHANGED <<quiet, subscribed, emitted, up, history>>
          BY <2>4, <3>2 DEF FlushTimerFires
        <4>2. rows \in SUBSET rows /\ up' \in BOOLEAN
          BY <4>1
        <4> QED BY <4>1, <4>2, FlushMoves
      <3> QED BY <3>1, <3>2
    <2>5. ASSUME NEW e \in Events, NEW c \in Channels, NEW success \in BOOLEAN,
                 Attempt(e, c, success)
          PROVE NotificationInv'
      <3>1. attempts' \in [Events -> [Channels -> 0 .. MaxRetries]]
        BY <2>5, NotificationAssumption DEF Attempt
      <3>2. history' \subseteq [event : Events, channel : Channels, success : BOOLEAN]
        BY <2>5 DEF Attempt
      <3> QED BY <2>5, <3>1, <3>2 DEF Attempt
    <2>6. CASE Crash
      BY <2>6, NoAttemptsType DEF Crash
    <2>7. CASE StartUp
      <3>1. up' = TRUE /\ ScheduleFlush /\ UNCHANGED <<quiet, subscribed, emitted, history>>
        BY <2>7 DEF StartUp
      <3>2. CASE flushTimer \/ rows = {} \/ quiet
        BY <3>1, <3>2 DEF ScheduleFlush, NoDispatch
      <3>3. CASE ~(flushTimer \/ rows = {} \/ quiet)
        <4>1. FlushQueue(rows) /\ flushTimer' \in BOOLEAN
          BY <3>1, <3>3 DEF ScheduleFlush
        <4>2. rows \in SUBSET rows /\ up' \in BOOLEAN
          BY <3>1
        <4> QED BY <3>1, <4>1, <4>2, FlushMoves
      <3> QED BY <3>2, <3>3
    <2>8. CASE QuietHoursChange
      BY <2>8 DEF QuietHoursChange
    <2>9. ASSUME NEW c \in Channels, Subscribe(c) PROVE NotificationInv'
      BY <2>9 DEF Subscribe
    <2>10. ASSUME NEW e \in Events, DispatchFlushed(e) PROVE NotificationInv'
      <3>1. /\ e \in flushing /\ flushing' = flushing \ {e} /\ Dispatch({e})
            /\ UNCHANGED <<quiet, subscribed, emitted, up, rows, flushTimer, history>>
        BY <2>10 DEF DispatchFlushed
      <3>2. /\ attempts' \in [Events -> [Channels -> 0 .. MaxRetries]]
            /\ dispatched' \in [Events -> Nat]
            /\ \A x \in Events :
                  dispatched'[x] = IF x = e THEN dispatched[x] + 1 ELSE dispatched[x]
        BY <3>1, DispatchCounts
      <3>3. NotificationTypeOK'
        BY <3>1, <3>2
      <3>4. OnePlace'
        BY <3>1, <3>2
      <3> QED BY <3>3, <3>4
    <2>11. CASE UNCHANGED notificationVars
      BY <2>11 DEF notificationVars
    <2> QED
      BY <2>1, <2>2, <2>3, <2>4, <2>5, <2>6, <2>7, <2>8, <2>9, <2>10, <2>11
      DEF NotificationNext
  <1> QED BY <1>1, <1>2, PTL DEF NotificationSpec

\* The variables have their types.
THEOREM NotificationTypes == NotificationSpec => []NotificationTypeOK
  BY NotificationInvHolds, PTL DEF NotificationInv

\* No event is sent twice, and one that was sent is not in the table.
THEOREM NotificationSentOnce == NotificationSpec => []SentOnce
  <1>1. NotificationInv => SentOnce
    BY DEF NotificationInv, OnePlace, SentOnce
  <1> QED BY <1>1, NotificationInvHolds, PTL

-----------------------------------------------------------------------------
(* Discovery.                                                              *)

PlugStates == {"away", "unready", "device"}

\* A poll holds the list that it was given, and from then on the devices that it has
\* still to look at, and the one whose root check it awaits.
PollType ==
    [stage : {"idle"}]
    \cup [stage : {"listing"}, seen : [Phones -> PlugStates]]
    \cup [stage : {"scanning"}, seen : [Phones -> PlugStates], todo : SUBSET Phones]
    \cup [stage : {"checking"}, seen : [Phones -> PlugStates], todo : SUBSET Phones,
          at : Phones, known : BOOLEAN, cameOnline : BOOLEAN]

DiscoveryInv == DiscoveryTypeOK /\ poll \in [Polls -> PollType]

\* A poll of each stage has the fields of the stage.
LEMMA PollFields ==
    ASSUME NEW r \in PollType
    PROVE  /\ r.stage \in {"idle", "listing", "scanning", "checking"}
           /\ r.stage \in {"listing", "scanning", "checking"} => r.seen \in [Phones -> PlugStates]
           /\ r.stage \in {"scanning", "checking"} => r.todo \in SUBSET Phones
           /\ r.stage = "checking" =>
                 r.at \in Phones /\ r.known \in BOOLEAN /\ r.cameOnline \in BOOLEAN
  BY DEF PollType

\* A step of one poll leaves it a poll.
LEMMA PollReplaced ==
    ASSUME poll \in [Polls -> PollType], NEW p \in Polls, NEW r \in PollType,
           poll' = [poll EXCEPT ![p] = r]
    PROVE  /\ poll' \in [Polls -> PollType]
           /\ \A q \in Polls : poll'[q].stage \in {"idle", "listing", "scanning", "checking"}
  <1>1. poll' \in [Polls -> PollType] OBVIOUS
  <1> QED BY <1>1, PollFields

\* The polls keep their shape however they overlap, and the variables their types.
THEOREM DiscoveryTypes == DiscoverySpec => []DiscoveryTypeOK
  <1>1. DiscoveryInit => DiscoveryInv
    <2> SUFFICES ASSUME DiscoveryInit PROVE DiscoveryInv
      OBVIOUS
    <2>1. NoPollYet \in PollType
      BY DEF PollType, NoPollYet
    <2>2. poll \in [Polls -> PollType]
      BY <2>1 DEF DiscoveryInit
    <2>3. \A p \in Polls : poll[p].stage \in {"idle", "listing", "scanning", "checking"}
      BY <2>2, PollFields
    <2> QED BY <2>2, <2>3 DEF DiscoveryInit, DiscoveryInv, DiscoveryTypeOK
  <1>2. DiscoveryInv /\ [DiscoveryNext]_discoveryVars => DiscoveryInv'
    <2> SUFFICES ASSUME DiscoveryInv, [DiscoveryNext]_discoveryVars PROVE DiscoveryInv'
      OBVIOUS
    <2> USE DEF DiscoveryInv, DiscoveryTypeOK
    <2>1. CASE StartPolling
      BY <2>1 DEF StartPolling
    <2>2. ASSUME NEW p \in Polls, PollStarts(p) PROVE DiscoveryInv'
      <3>1. [stage |-> "listing", seen |-> plugged] \in PollType
        BY DEF PollType, PlugStates
      <3> QED BY <2>2, <3>1, PollReplaced DEF PollStarts
    <2>3. ASSUME NEW p \in Polls, ListArrives(p) PROVE DiscoveryInv'
      <3> DEFINE r == [stage |-> "scanning", seen |-> poll[p].seen,
                       todo |-> {d \in Phones : poll[p].seen[d] # "away"}]
      <3>1. poll[p].seen \in [Phones -> PlugStates]
        BY <2>3, PollFields DEF ListArrives
      <3>2. r \in PollType
        BY <3>1 DEF PollType
      <3>3. poll' = [poll EXCEPT ![p] = r]
        BY <2>3 DEF ListArrives
      <3> QED BY <2>3, <3>2, <3>3, PollReplaced DEF ListArrives
    <2>4. ASSUME NEW p \in Polls, NEW d \in Phones, Scan(p, d) PROVE DiscoveryInv'
      <3> DEFINE came == poll[p].seen[d] = "device" /\ d \notin onlineDevices
                 r == [stage |-> "scanning", seen |-> poll[p].seen, todo |-> poll[p].todo \ {d}]
                 c == [stage |-> "checking", seen |-> poll[p].seen, todo |-> poll[p].todo \ {d},
                       at |-> d, known |-> deviceRows[d] # "none", cameOnline |-> came]
      <3>1. /\ poll[p].stage = "scanning" /\ poll[p] \in PollType
            /\ poll[p].seen \in [Phones -> PlugStates] /\ poll[p].todo \in SUBSET Phones
        BY <2>4, PollFields DEF Scan
      <3>2. r \in PollType /\ c \in PollType
        BY <3>1 DEF PollType
      <3>3. onlineDevices' \subseteq Phones /\ UNCHANGED <<plugged, deviceRows, polling>>
        BY <2>4 DEF Scan
      <3>4. CASE deviceRows[d] = "rooted"
        <4>1. poll' = [poll EXCEPT ![p].todo = @ \ {d}]
          BY <2>4, <3>4 DEF Scan
        <4>2. [poll[p] EXCEPT !.todo = @ \ {d}] = r
          <5> DEFINE Scanning == [stage : {"scanning"}, seen : [Phones -> PlugStates],
                                  todo : SUBSET Phones]
          <5>1. poll[p] \in Scanning
            BY <3>1 DEF PollType
          <5>2. ASSUME NEW x \in Scanning, NEW T
                PROVE  [x EXCEPT !.todo = T] = [stage |-> "scanning", seen |-> x.seen, todo |-> T]
            OBVIOUS
          <5> QED BY <5>1, <5>2
        <4>3. poll' = [poll EXCEPT ![p] = r]
          BY <4>1, <4>2
        <4>4. running' = running /\ heard' \in [Phones -> {"online", "offline"}]
          BY <2>4, <3>4 DEF Scan, NotifyOnline
        <4> QED BY <3>2, <3>3, <4>3, <4>4, PollReplaced
      <3>5. CASE deviceRows[d] # "rooted"
        <4>1. poll' = [poll EXCEPT ![p] = c] /\ running' = NoPoll /\ heard' = heard
          BY <2>4, <3>5 DEF Scan
        <4> QED BY <3>2, <3>3, <4>1, PollReplaced
      <3> QED BY <3>4, <3>5
    <2>5. ASSUME NEW p \in Polls, Checked(p) PROVE DiscoveryInv'
      <3> DEFINE r == [stage |-> "scanning", seen |-> poll[p].seen, todo |-> poll[p].todo]
      <3>1. /\ poll[p].seen \in [Phones -> PlugStates] /\ poll[p].todo \in SUBSET Phones
            /\ poll[p].at \in Phones
        BY <2>5, PollFields DEF Checked
      <3>2. r \in PollType /\ NoPollYet \in PollType
        BY <3>1 DEF PollType, NoPollYet
      <3>3. UNCHANGED <<plugged, onlineDevices, polling>>
        BY <2>5 DEF Checked
      <3>4. CASE poll' = [poll EXCEPT ![p] = NoPollYet] /\ UNCHANGED <<deviceRows, running, heard>>
        BY <3>2, <3>3, <3>4, PollReplaced
      <3>5. ASSUME NEW found \in {"plain", "rooted"},
                   deviceRows' = [deviceRows EXCEPT ![poll[p].at] =
                          IF poll[p].known /\ (@ = "none" \/ found = "plain") THEN @ ELSE found],
                   NotifyOnline(poll[p].at, poll[p].cameOnline), running' = p,
                   poll' = [poll EXCEPT ![p] =
                        [stage |-> "scanning", seen |-> @.seen, todo |-> @.todo]]
            PROVE  DiscoveryInv'
        <4>1. deviceRows' \in [Phones -> {"none", "plain", "rooted"}]
          BY <3>1, <3>5
        <4>2. heard' \in [Phones -> {"online", "offline"}]
          BY <3>1, <3>5 DEF NotifyOnline
        <4>3. poll' = [poll EXCEPT ![p] = r]
          BY <3>5
        <4> QED BY <3>2, <3>3, <3>5, <4>1, <4>2, <4>3, PollReplaced
      <3> QED BY <2>5, <3>4, <3>5 DEF Checked
    <2>6. ASSUME NEW p \in Polls, PollEnds(p) PROVE DiscoveryInv'
      <3>1. NoPollYet \in PollType
        BY DEF PollType, NoPollYet
      <3>2. onlineDevices' \subseteq Phones /\ heard' \in [Phones -> {"online", "offline"}]
        BY <2>6 DEF PollEnds
      <3> QED BY <2>6, <3>1, <3>2, PollReplaced DEF PollEnds
    <2>7. ASSUME NEW d \in Phones, NEW how \in PlugStates, PluggedChanges(d, how)
          PROVE  DiscoveryInv'
      BY <2>7 DEF PluggedChanges, PlugStates
    <2>8. ASSUME NEW d \in Phones, ForgetDevice(d) PROVE DiscoveryInv'
      BY <2>8 DEF ForgetDevice
    <2>9. CASE UNCHANGED discoveryVars
      BY <2>9 DEF discoveryVars
    <2> QED
      BY <2>1, <2>2, <2>3, <2>4, <2>5, <2>6, <2>7, <2>8, <2>9
         DEF DiscoveryNext, PollStep, PlugStates
  <1>3. DiscoveryInv => DiscoveryTypeOK
    BY DEF DiscoveryInv
  <1> QED BY <1>1, <1>2, <1>3, PTL DEF DiscoverySpec

-----------------------------------------------------------------------------
(* All of them.                                                            *)

AllServices ==
    /\ AdbSpec /\ PairingSpec /\ ListenersSpec /\ HoldSpec
    /\ DiscoverySpec /\ NotificationSpec /\ LiveSpec

\* A behaviour of the composition is a behaviour of every service: in a step of one
\* the others stutter.
THEOREM EveryServiceIsImplemented == ServicesSpec => AllServices
  <1>1. ServicesInit => /\ AdbInit /\ PairingInit /\ ListenersInit /\ HoldInit
                        /\ DiscoveryInit /\ NotificationInit /\ LiveInit
    BY DEF ServicesInit
  <1>2. [ServicesNext]_servicesVars =>
          /\ [AdbNext]_adbVars /\ [PairingNext]_pairingVars
          /\ [ListenersNext]_listenerVars /\ [HoldNext]_holdVars
          /\ [DiscoveryNext]_discoveryVars /\ [NotificationNext]_notificationVars
          /\ [LiveNext]_liveVars
    BY DEF ServicesNext, servicesVars
  <1> QED
    BY <1>1, <1>2, PTL DEF ServicesSpec, AllServices, AdbSpec, PairingSpec, ListenersSpec,
          HoldSpec, DiscoverySpec, NotificationSpec, LiveSpec

\* The variables of every service keep their types, and no behaviour changes the
\* service that it moves.
THEOREM ServicesTypes == ServicesSpec => []ServicesTypeOK
  <1>1. ServicesInit => service \in Services
    BY DEF ServicesInit
  <1>2. service \in Services /\ [ServicesNext]_servicesVars => (service \in Services)'
    BY DEF ServicesNext, servicesVars
  <1>3. ServicesSpec => [](service \in Services)
    BY <1>1, <1>2, PTL DEF ServicesSpec
  <1>4. LiveSpec => []LiveTypeOK
    <2>1. LiveInv => LiveTypeOK
      BY DEF LiveInv
    <2> QED BY <2>1, LiveInvariant, PTL
  <1> QED
    BY <1>3, <1>4, EveryServiceIsImplemented, SessionKeepsTypes, PairingTypes, ListenersTypesHold,
       HoldTypesHold, DiscoveryTypes, NotificationTypes, PTL DEF AllServices, ServicesTypeOK

\* The invariants of the services, together.
ServicesSafe ==
    /\ NoSocketLeak /\ NothingAfterClose /\ OneUnacknowledged
    /\ AuthenticatedIsApproved /\ WaitingIsListed /\ AskedOnce /\ PreAuthExact
    /\ SilentWhenOff /\ ShownPortServes
    /\ QueuesFollow /\ SentOnce /\ UnwatchedIsTimed /\ OneStreamAtOnce

\* What was proved of each service holds in the behaviours that are checked, and there
\* the session is still a byte stream.
THEOREM ServicesStaySafe ==
    ServicesSpec => []ServicesSafe /\ ImplementsByteStream
  BY EveryServiceIsImplemented, SessionLeaksNoSocket, SessionClosesLast, SessionKeepsFlowControl,
     SessionIsByteStream, PairingAuthenticates, PairingLists, PairingAsksOnce, PairingCounts,
     OffMeansSilent, ShownPortsServe, QueuesAlwaysFollow, NotificationSentOnce,
     UnwatchedStreamsAreTimed, OneStreamIsStarted, PTL
     DEF AllServices, ServicesSafe

=============================================================================
