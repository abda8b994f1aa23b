-------------------------- MODULE DeviceDiscovery --------------------------
(***************************************************************************)
(* Discovery of Android devices (device-manager.ts): an interval starts    *)
(* polls, each works through a list of devices it was given earlier, and   *)
(* awaits a root check for every device that is not known to be rooted, so *)
(* that polls overlap and act on lists of different ages.                  *)
(*                                                                         *)
(* JavaScript code runs without interruption from one await to the next:   *)
(* `running' is the poll that does.                                        *)
(***************************************************************************)
EXTENDS Naturals, FiniteSets

CONSTANTS Phones, Polls,  \* a poll is a slot: as many overlap as there are
          NoPoll

ASSUME DiscoveryAssumption == NoPoll \notin Polls

VARIABLES
    plugged,   \* what adb says of each device: "away", "unready" or "device"; a
               \* provider that fails to list its devices says they are away
    onlineDevices,  \* this.onlineDevices
    deviceRows,     \* the devices table: "none", "plain" or "rooted"
    poll,      \* the polls
    polling,   \* pollTimer
    running,   \* the poll between two awaits
    heard      \* what the online and offline listeners were told last

discoveryVars == <<plugged, onlineDevices, deviceRows, poll, polling, running, heard>>

NoPollYet == [stage |-> "idle"]

DiscoveryInit ==
    /\ plugged = [d \in Phones |-> "away"] /\ onlineDevices = {}
    /\ deviceRows = [d \in Phones |-> "none"]
    /\ poll = [p \in Polls |-> NoPollYet] /\ polling = FALSE
    /\ running = NoPoll /\ heard = [d \in Phones |-> "offline"]

-----------------------------------------------------------------------------
StartPolling ==
    /\ ~polling /\ polling' = TRUE
    /\ UNCHANGED <<plugged, onlineDevices, deviceRows, poll, running, heard>>

\* The interval fires and the devices are listed; the answer is on its way.
PollStarts(p) ==
    /\ polling /\ running = NoPoll /\ poll[p].stage = "idle"
    /\ poll' = [poll EXCEPT ![p] = [stage |-> "listing", seen |-> plugged]]
    /\ UNCHANGED <<plugged, onlineDevices, deviceRows, polling, running, heard>>

ListArrives(p) ==
    /\ running = NoPoll /\ running' = p /\ poll[p].stage = "listing"
    /\ poll' = [poll EXCEPT ![p] =
                  [stage |-> "scanning", seen |-> @.seen,
                   todo |-> {d \in Phones : @.seen[d] # "away"}]]
    /\ UNCHANGED <<plugged, onlineDevices, deviceRows, polling, heard>>

NotifyOnline(d, cameOnline) ==
    heard' = IF cameOnline THEN [heard EXCEPT ![d] = "online"] ELSE heard

\* The loop body of reconcileDiscovered up to the root check, which a device that
\* is known to be rooted does not need.
Scan(p, d) ==
    /\ running = p /\ poll[p].stage = "scanning" /\ d \in poll[p].todo
    /\ LET ready == poll[p].seen[d] = "device"
           cameOnline == ready /\ d \notin onlineDevices
       IN /\ onlineDevices' = IF ready THEN onlineDevices \cup {d} ELSE onlineDevices \ {d}
          /\ IF deviceRows[d] = "rooted"
             THEN /\ NotifyOnline(d, cameOnline)
                  /\ poll' = [poll EXCEPT ![p].todo = @ \ {d}]
                  /\ UNCHANGED running
             ELSE /\ poll' = [poll EXCEPT ![p] =
                                [stage |-> "checking", seen |-> @.seen, todo |-> @.todo \ {d},
                                 at |-> d, known |-> deviceRows[d] # "none", cameOnline |-> cameOnline]]
                  /\ running' = NoPoll /\ UNCHANGED heard
    /\ UNCHANGED <<plugged, deviceRows, polling>>

\* checkRooted answers.  A new device is inserted, which throws when another poll
\* was faster: the poll ends.  A known one is updated, if its row still exists.
Checked(p) ==
    /\ running = NoPoll /\ poll[p].stage = "checking"
    /\ LET d == poll[p].at IN
       \/ /\ ~poll[p].known /\ deviceRows[d] # "none"
          /\ poll' = [poll EXCEPT ![p] = NoPollYet] /\ UNCHANGED <<deviceRows, running, heard>>
       \/ /\ poll[p].known \/ deviceRows[d] = "none"
          /\ \E found \in {"plain", "rooted"} :
               deviceRows' = [deviceRows EXCEPT ![d] =
                          IF poll[p].known /\ (@ = "none" \/ found = "plain") THEN @ ELSE found]
          /\ NotifyOnline(d, poll[p].cameOnline) /\ running' = p
          /\ poll' = [poll EXCEPT ![p] =
                        [stage |-> "scanning", seen |-> @.seen, todo |-> @.todo]]
    /\ UNCHANGED <<plugged, onlineDevices, polling>>

\* Seeded bug: a device is missed only while it is listed and not ready.
NotSeenIfUnready(p) == {d \in Phones : poll[p].seen[d] = "unready"}

NotSeen(p) == {d \in Phones : poll[p].seen[d] = "away"}

\* Devices that are online and not on the list are marked offline.
PollEnds(p) ==
    /\ running = p /\ running' = NoPoll /\ poll[p].stage = "scanning" /\ poll[p].todo = {}
    /\ LET gone == onlineDevices \cap NotSeen(p) IN
       /\ onlineDevices' = onlineDevices \ gone
       /\ heard' = [d \in Phones |-> IF d \in gone THEN "offline" ELSE heard[d]]
    /\ poll' = [poll EXCEPT ![p] = NoPollYet]
    /\ UNCHANGED <<plugged, deviceRows, polling>>

PluggedChanges(d, how) ==
    /\ plugged[d] # how /\ plugged' = [plugged EXCEPT ![d] = how]
    /\ UNCHANGED <<onlineDevices, deviceRows, poll, polling, running, heard>>

\* The row is deleted on request, whether the device is online or not.
ForgetDevice(d) ==
    /\ running = NoPoll /\ deviceRows[d] # "none" /\ deviceRows' = [deviceRows EXCEPT ![d] = "none"]
    /\ UNCHANGED <<plugged, onlineDevices, poll, polling, running, heard>>

-----------------------------------------------------------------------------
PollStep(p) ==
    \/ ListArrives(p) \/ Checked(p) \/ PollEnds(p)
    \/ \E d \in Phones : Scan(p, d)

DiscoveryNext ==
    \/ StartPolling
    \/ \E p \in Polls : PollStarts(p) \/ PollStep(p)
    \/ \E d \in Phones : \/ \E how \in {"away", "unready", "device"} : PluggedChanges(d, how)
                         \/ ForgetDevice(d)

DiscoverySpec == DiscoveryInit /\ [][DiscoveryNext]_discoveryVars

\* Awaited commands have time limits, the interval starts polls for ever, and the
\* event loop starves no callback while others keep it busy.
DiscoveryFairness ==
    \A p \in Polls : SF_discoveryVars(PollStarts(p)) /\ SF_discoveryVars(PollStep(p))

-----------------------------------------------------------------------------
(* Properties.                                                             *)

DiscoveryTypeOK ==
    /\ plugged \in [Phones -> {"away", "unready", "device"}]
    /\ onlineDevices \subseteq Phones
    /\ deviceRows \in [Phones -> {"none", "plain", "rooted"}]
    /\ \A p \in Polls : poll[p].stage \in {"idle", "listing", "scanning", "checking"}
    /\ polling \in BOOLEAN /\ running \in Polls \cup {NoPoll}
    /\ heard \in [Phones -> {"online", "offline"}]

\* While the server polls, a device that stays where it is ends up online exactly
\* if adb says that it is ready, however old lists and overlapping polls cross.
OnlineSettles ==
    \A d \in Phones :
        /\ <>[](polling /\ plugged[d] = "device") => <>[](d \in onlineDevices)
        /\ <>[](polling /\ plugged[d] # "device") => <>[](d \notin onlineDevices)

\* The listeners are told of every transition: of online to offline at once, and a
\* device that goes offline is not left announced as online.
OfflineIsTold ==
    [][\A d \in onlineDevices : d \notin onlineDevices' => heard'[d] = "offline"]_discoveryVars

=============================================================================
