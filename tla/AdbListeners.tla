---------------------------- MODULE AdbListeners ----------------------------
(***************************************************************************)
(* Which ports the ADB proxy listens on (adb-proxy-service.ts,             *)
(* port-allocator.ts, listener.ts).  Changes of the settings, of a device  *)
(* and of the presence run one at a time through serialised(), while the   *)
(* directory, a forget of the device and stop() do not wait for them.      *)
(* What one change does for several devices runs concurrently.             *)
(***************************************************************************)
EXTENDS Naturals, Sequences, FiniteSets, SequencesExt

CONSTANTS Droids,      \* the Android devices
          PortRanges,  \* the ranges that the settings may hold, sets of ports
          NewRanges,   \* those that an operator sets
          Installations, \* bound: the devices that are there at first, and the range
          Held,        \* ports that another program holds
          Faulty,      \* ports on which listen() may fail for another reason
          Leaving,     \* devices that come and go, and may be forgotten
          Edited,      \* devices that the operator edits
          MaxQueued,   \* bound: requests wait until fewer changes are queued
          MaxOvertaken, \* bound: stop() waits until no more changes than that are queued
          Nothing

ASSUME ListenersAssumption ==
    /\ IsFiniteSet(Droids)
    /\ PortRanges # {} /\ \A r \in PortRanges : r \subseteq Nat /\ r # {}
    /\ NewRanges \subseteq PortRanges
    /\ Installations \subseteq [devices : SUBSET Droids, range : PortRanges]
    /\ Nothing \notin Nat /\ Leaving \cup Edited \subseteq Droids
    /\ MaxQueued \in Nat /\ MaxOvertaken \in Nat

VARIABLES
    enabled,   \* settings.enabled
    range,     \* settings.portStart .. portEnd
    serving,   \* this.started
    present,   \* what directory.listOnlineAndroid() lists
    onl,       \* this.online
    known,     \* devices with a row in the devices table
    row,       \* the port in adb_proxy_devices, Nothing without a row
    proxied,   \* its "enabled" column; a new row is enabled
    failure,   \* deviceErrors
    socket,    \* each device's listener: "none", "bound" (registered) or "closing"
    at,        \* the port of that socket
    starting,  \* stage of the device's listenFor, with the port that it binds
    stopping,  \* stage of each device's stopDevice, by its caller
    changes,   \* the serialised changes; the first one is running
    overlooked \* history variable: see Overlooked

settingVars == <<enabled, range, serving>>
presenceVars == <<present, onl, known>>
rowVars == <<row, proxied>>
socketVars == <<failure, socket, at, starting>>
serviceVars == <<settingVars, presenceVars, rowVars, socketVars, stopping, changes>>
listenerVars == <<serviceVars, overlooked>>

Callers == {"change", "handover", "stop"}

NotStarting == [stage |-> "none", port |-> Nothing]
At(stage, p) == [stage |-> stage, port |-> p]

\* A change of a device (or Nothing), with its ports; its stage, and the devices
\* that are left to it in that stage.
Change(kind, d, ports) ==
    [kind |-> kind, dev |-> d, ports |-> ports, stage |-> "queued", left |-> {}]
SetDeviceKinds == {"port", "enable", "disable"}

\* begin: the directory has been read, and the listeners are about to start when
\* the proxy was on.
ListenersInit ==
    /\ enabled \in BOOLEAN /\ serving = TRUE
    /\ \E i \in Installations : range = i.range /\ present = i.devices
    /\ onl = present /\ known = present
    /\ row = [d \in Droids |-> Nothing] /\ proxied = [d \in Droids |-> TRUE]
    /\ failure = [d \in Droids |-> "none"]
    /\ socket = [d \in Droids |-> "none"] /\ at = [d \in Droids |-> Nothing]
    /\ starting = [d \in Droids |-> IF enabled /\ d \in present THEN At("row", Nothing)
                                    ELSE NotStarting]
    /\ stopping = [w \in Callers |-> [d \in Droids |-> "none"]]
    /\ changes = IF enabled THEN <<[Change("on", Nothing, {}) EXCEPT !.stage = "start"]>> ELSE <<>>
    /\ overlooked = {}

Listening == {d \in Droids : socket[d] = "bound"}
Rowless == {d \in Droids : row[d] = Nothing}
Starting == {d \in Droids : starting[d] # NotStarting}
Free == range \ {row[d] : d \in Droids}
Lowest(S) == CHOOSE p \in S : \A q \in S : p <= q

-----------------------------------------------------------------------------
(* startDevice, listenFor and stopDevice.                                  *)

\* startDevice, for the devices of S, while the setting is on: one with neither a
\* port row nor a device row waits for the presence tick.
Starts(S, on) ==
    LET wanted == {d \in S : serving /\ on /\ d \notin Listening \cup Starting}
        asks == {d \in wanted : d \notin Rowless \/ d \in known}
    IN /\ starting' = [d \in Droids |-> IF d \in asks THEN At("row", Nothing) ELSE starting[d]]
       /\ failure' = [d \in Droids |-> IF d \in wanted \ asks THEN "none" ELSE failure[d]]

Stops(w, S) ==
    stopping' = [stopping EXCEPT ![w] = [d \in Droids |-> IF d \in S THEN "waits" ELSE @[d]]]

NewRow(d) == row' = [row EXCEPT ![d] = Lowest(Free)] /\ UNCHANGED proxied

\* The rest of listenFor when ensureRow has failed, and when it returned row d.
NoRow(d, why) ==
    /\ starting' = [starting EXCEPT ![d] = NotStarting]
    /\ failure' = [failure EXCEPT ![d] = why]
RowFound(d) ==
    IF proxied[d] THEN /\ starting' = [starting EXCEPT ![d] = At("binding", row'[d])]
                        /\ UNCHANGED failure
                   ELSE NoRow(d, "none")

\* Seeded bug: the port of a device whose own listener is being started is taken.
ReclaimableAnytime == {d \in Droids : d \notin onl /\ row[d] \in range /\ proxied[d]}

\* reclaimStalest; which of them is the oldest is left open.
Reclaimable == {d \in Droids : d \notin onl \cup Starting /\ row[d] \in range /\ proxied[d]}

Reclaim(v) ==
    /\ row' = [row EXCEPT ![v] = Nothing]
    /\ Stops("handover", {v})

\* One allocation at a time; the order of those that wait is left open.
HandedOver == \A v \in Droids : stopping["handover"][v] = "none"

EnsureRow(d) ==
    /\ starting[d].stage = "row" /\ HandedOver
    /\ \/ row[d] # Nothing /\ UNCHANGED <<rowVars, stopping>> /\ RowFound(d)
       \/ row[d] = Nothing /\ Free # {} /\ d \in known
             /\ NewRow(d) /\ UNCHANGED stopping /\ RowFound(d)
       \/ row[d] = Nothing /\ Free # {} /\ d \notin known
             /\ NoRow(d, "error") /\ UNCHANGED <<rowVars, stopping>>
       \/ row[d] = Nothing /\ Free = {} /\ Reclaimable = {}
             /\ NoRow(d, "range-full") /\ UNCHANGED <<rowVars, stopping>>
       \/ row[d] = Nothing /\ Free = {}
             /\ \E v \in Reclaimable : Reclaim(v) /\ UNCHANGED proxied
             /\ starting' = [starting EXCEPT ![d] = At("handover", Nothing)]
             /\ UNCHANGED failure
    /\ UNCHANGED <<settingVars, presenceVars, socket, at, changes>>

\* The listener of the device that lost its port is closed; ensure runs again.
HandoverEnds(d) ==
    /\ starting[d].stage = "handover" /\ HandedOver
    /\ IF row[d] = Nothing /\ (Free = {} \/ d \notin known)
       THEN NoRow(d, IF Free = {} THEN "range-full" ELSE "error") /\ UNCHANGED rowVars
       ELSE (IF row[d] = Nothing THEN NewRow(d) ELSE UNCHANGED rowVars) /\ RowFound(d)
    /\ UNCHANGED <<settingVars, presenceVars, socket, at, stopping, changes>>

InUse(p) == p \in Held \/ \E o \in Droids : at[o] = p

\* listen() resolved; the service may be off or stopped by now.
BindSucceeds(d) ==
    /\ starting[d].stage = "binding"
    /\ ~InUse(starting[d].port)
    /\ at' = [at EXCEPT ![d] = starting[d].port]
    /\ IF serving /\ enabled
       THEN /\ socket' = [socket EXCEPT ![d] = "bound"]
            /\ NoRow(d, "none")
       ELSE /\ socket' = [socket EXCEPT ![d] = "closing"]
            /\ starting' = [starting EXCEPT ![d] = At("undo", Nothing)] /\ UNCHANGED failure
    /\ UNCHANGED <<settingVars, presenceVars, rowVars, stopping, changes>>

\* EADDRINUSE, or another error.
BindFails(d) ==
    /\ starting[d].stage = "binding"
    /\ \/ InUse(starting[d].port) /\ NoRow(d, "port-in-use")
       \/ starting[d].port \in Faulty /\ NoRow(d, "error")
    /\ UNCHANGED <<settingVars, presenceVars, rowVars, socket, at, stopping, changes>>

\* stopDevice, when the bind in flight that it waits for has ended.
StopProceeds(w, d) ==
    /\ stopping[w][d] = "waits" /\ d \notin Starting
    /\ failure' = [failure EXCEPT ![d] = "none"]
    /\ socket' = [socket EXCEPT ![d] = IF @ = "bound" THEN "closing" ELSE @]
    /\ stopping' = [stopping EXCEPT ![w][d] = IF d \in Listening THEN "closing" ELSE "none"]
    /\ UNCHANGED <<settingVars, presenceVars, rowVars, at, starting, changes>>

SocketClosed(d) ==
    /\ socket[d] = "closing"
    /\ socket' = [socket EXCEPT ![d] = "none"] /\ at' = [at EXCEPT ![d] = Nothing]
    /\ starting' = [starting EXCEPT ![d] = IF @.stage = "undo" THEN NotStarting ELSE @]
    /\ stopping' = [w \in Callers |->
                       [stopping[w] EXCEPT ![d] = IF @ = "closing" THEN "none" ELSE @]]
    /\ UNCHANGED <<settingVars, presenceVars, rowVars, failure, changes>>

-----------------------------------------------------------------------------
(* The serialised changes.  A change whose devices have all stopped and    *)
(* started goes on.                                                        *)

Current == Head(changes)
AtRest == (\A d \in Droids : stopping["change"][d] = "none") /\ Starting = {}
Turn(kinds, stage) ==
    changes # <<>> /\ Current.kind \in kinds /\ Current.stage = stage /\ AtRest

Stage(q, stage, left) == [q EXCEPT ![1].stage = stage, ![1].left = left]
Done == changes' = Tail(changes)

\* online(d) is queued for the devices of S (bound: once each).
WithOnline(q, S) ==
    LET new == {d \in S : ~\E i \in DOMAIN q : /\ q[i].kind = "online" /\ q[i].dev = d
                                               /\ q[i].stage = "queued"}
    IN q \o [i \in 1 .. Cardinality(new) |-> Change("online", SetToSeq(new)[i], {})]

\* updateSettings: the settings are written, then listeners stopped or started.
TurnOff ==
    /\ Turn({"off"}, "queued") /\ enabled' = FALSE
    /\ Stops("change", IF enabled THEN Listening \cup Starting ELSE {})
    /\ changes' = Stage(changes, IF enabled THEN "stop" ELSE "start", {})
    /\ UNCHANGED <<range, serving, presenceVars, rowVars, socketVars>>

TurnOn ==
    /\ Turn({"on"}, "queued") /\ enabled' = TRUE
    /\ onl' = IF enabled THEN onl ELSE present
    /\ Starts(IF enabled THEN {} ELSE onl', TRUE)
    /\ changes' = WithOnline(Stage(changes, "start", {}), onl' \ onl)
    /\ UNCHANGED <<range, serving, present, known, rowVars, socket, at, stopping>>

NewRange ==
    /\ Turn({"range"}, "queued") /\ range' = Current.ports
    /\ Starts(IF range' # range THEN onl ELSE {}, enabled)
    /\ changes' = Stage(changes, "start", {})
    /\ UNCHANGED <<enabled, serving, presenceVars, rowVars, socket, at, stopping>>

\* Another bindHost.
Rebind ==
    /\ Turn({"rebind"}, "queued")
    /\ Stops("change", IF enabled THEN Listening ELSE {})
    /\ changes' = Stage(changes, IF enabled THEN "stop" ELSE "start", IF enabled THEN onl ELSE {})
    /\ UNCHANGED <<settingVars, presenceVars, rowVars, socketVars>>

\* stopAllDevices ends with deviceErrors.clear(); Rebind starts all devices again.
AllStopped ==
    /\ Turn({"off", "rebind"}, "stop")
    /\ IF Current.kind = "rebind" /\ serving
       THEN starting' = [d \in Droids |-> IF d \in onl /\ (d \notin Rowless \/ d \in known)
                                          THEN At("row", Nothing) ELSE NotStarting]
       ELSE UNCHANGED starting
    /\ failure' = [d \in Droids |-> "none"]
    /\ changes' = Stage(changes, "start", {})
    /\ UNCHANGED <<settingVars, presenceVars, rowVars, socket, at, stopping>>

OnlineChange ==
    /\ Turn({"online"}, "queued") /\ Starts({Current.dev}, enabled)
    /\ changes' = Stage(changes, "start", {})
    /\ UNCHANGED <<settingVars, presenceVars, rowVars, socket, at, stopping>>

\* Seeded bugs: only a new port stops the listener, or only the switch does.
StopsIfMoved(moves) == moves # {}
StopsIfDisabled(moves) == Current.kind = "disable"

StopsDevice(moves) == Current.kind = "disable" \/ moves # {}

\* setDevice: its row, which may have to be handed over first, and its patch.  A
\* port is refused when it is out of range or another device's.
DeviceChange ==
    /\ Turn(SetDeviceKinds, "queued") \/ Turn(SetDeviceKinds, "handover")
    /\ HandedOver
    /\ LET d == Current.dev IN
       \/ /\ d \in Rowless /\ Free = {} /\ Current.stage = "queued" /\ d \in known
          /\ \E v \in Reclaimable : Reclaim(v)
          /\ changes' = Stage(changes, "handover", {}) /\ UNCHANGED proxied
       \/ /\ \/ d \notin known
             \/ d \in Rowless /\ Free = {} /\ (Current.stage = "handover" \/ Reclaimable = {})
          /\ Done /\ UNCHANGED <<rowVars, stopping>>
       \/ /\ d \in known /\ (d \notin Rowless \/ Free # {})
          /\ LET p == IF d \in Rowless THEN Lowest(Free) ELSE row[d]
                 moves == {q \in Current.ports : q # p /\ q \in Free}
                 refused == Current.ports \ (moves \cup {p}) # {}
             IN /\ \E q \in IF moves = {} THEN {p} ELSE moves : row' = [row EXCEPT ![d] = q]
                /\ proxied' = [proxied EXCEPT ![d] = CASE Current.kind = "enable" -> TRUE
                                                       [] Current.kind = "disable" -> FALSE
                                                       [] OTHER -> @]
                /\ Stops("change", IF StopsDevice(moves) THEN {d} ELSE {})
                /\ IF refused THEN Done ELSE changes' = Stage(changes, "restart", {})
    /\ UNCHANGED <<settingVars, presenceVars, socketVars>>

DeviceRestart ==
    /\ Turn(SetDeviceKinds, "restart") /\ Starts({Current.dev}, enabled)
    /\ changes' = Stage(changes, "start", {})
    /\ UNCHANGED <<settingVars, presenceVars, rowVars, socket, at, stopping>>

\* retryBlocked: four loops, each over its devices (but for orphans, those that
\* are online) when it begins.
Orphans == Listening \cap Rowless

\* Seeded bug: the tick passes over a device without a row.
UnlistedNever == {}

Unlisted == {d \in Droids : /\ d \notin Listening \cup Starting /\ failure[d] = "none"
                            /\ d \in Rowless /\ d \in known}

Starved == {d \in Droids : failure[d] = "range-full" /\ Free # {}}
Blocked == {d \in Droids : failure[d] = "port-in-use"}

Loop(stage) == CASE stage = "orphans" -> Orphans [] stage = "unlisted" -> onl \cap Unlisted
                 [] stage = "starved" -> onl \cap Starved
                 [] stage = "blocked" -> onl \cap Blocked [] OTHER -> {}
LoopAfter == [queued |-> "orphans", orphans |-> "unlisted", unlisted |-> "starved",
              starved |-> "blocked", blocked |-> "start"]

RetryStep ==
    /\ \E stage \in DOMAIN LoopAfter : Turn({"retry"}, stage)
    /\ IF Current.left = {}
       THEN LET next == LoopAfter[Current.stage] IN
            /\ changes' = Stage(changes, next, Loop(next))
            /\ UNCHANGED <<socketVars, stopping>>
       ELSE \E d \in Current.left :
               /\ changes' = Stage(changes, Current.stage, Current.left \ {d})
               /\ IF Current.stage = "orphans"
                  THEN Stops("change", {d}) /\ UNCHANGED socketVars
                  ELSE Starts({d}, enabled) /\ UNCHANGED <<socket, at, stopping>>
    /\ UNCHANGED <<settingVars, presenceVars, rowVars>>

ChangeEnds ==
    /\ changes # <<>> /\ Current.stage = "start" /\ AtRest /\ Done
    /\ UNCHANGED <<settingVars, presenceVars, rowVars, socketVars, stopping>>

-----------------------------------------------------------------------------
(* What does not wait: requests, the directory, the tick, forget, stop.    *)
(* What comes after stop() has begun is left out (a bound).                *)

QueueChange(kind, d, ports) ==
    /\ serving /\ Len(changes) < MaxQueued
    /\ changes' = Append(changes, Change(kind, d, ports))
    /\ UNCHANGED <<settingVars, presenceVars, rowVars, socketVars, stopping>>

UpdateSettings ==
    \/ \E kind \in {"off", "on", "rebind"} : QueueChange(kind, Nothing, {})
    \/ \E r \in NewRanges \ {range} : QueueChange("range", Nothing, r)

SetDevice(d) ==
    /\ d \in Edited
    /\ \/ \E kind \in {"enable", "disable"} : QueueChange(kind, d, {})
       \/ \E p \in UNION PortRanges : QueueChange("port", d, {p})

\* The directory announces a device that it lists now, or has missed the event.
DeviceAppears(d, announced) ==
    /\ serving /\ d \in Leaving \ present /\ present' = present \cup {d}
    /\ IF announced
       THEN /\ onl' = onl \cup {d}
            /\ changes' = IF enabled THEN WithOnline(changes, {d}) ELSE changes
       ELSE UNCHANGED <<onl, changes>>
    /\ UNCHANGED <<settingVars, known, rowVars, socketVars, stopping>>

DeviceVanishes(d, announced) ==
    /\ serving /\ d \in present \cap Leaving /\ present' = present \ {d}
    /\ onl' = IF announced THEN onl \ {d} ELSE onl
    /\ UNCHANGED <<settingVars, known, rowVars, socketVars, stopping, changes>>

\* reconcile: refreshOnline, then retryBlocked when there is something to retry.
Reconcile ==
    /\ serving /\ enabled
    /\ onl' = present
    /\ LET q == WithOnline(changes, present \ onl)
           retry == Orphans \cup ((Unlisted \cup Starved \cup Blocked) \cap present) # {}
           queued == \E i \in DOMAIN q : q[i].kind = "retry" /\ q[i].stage = "queued"
       IN changes' = IF retry /\ ~queued THEN Append(q, Change("retry", Nothing, {})) ELSE q
    /\ UNCHANGED <<settingVars, present, known, rowVars, socketVars, stopping>>

\* forgetDevice deletes the device and its port row; the next poll of a device
\* that is present adds it again.
Forget(d) ==
    /\ serving /\ d \in Leaving \cap known /\ known' = known \ {d}
    /\ row' = [row EXCEPT ![d] = Nothing] /\ proxied' = [proxied EXCEPT ![d] = TRUE]
    /\ UNCHANGED <<settingVars, present, onl, socketVars, stopping, changes>>

Polled(d) ==
    /\ serving /\ d \in present \ known /\ known' = known \cup {d}
    /\ UNCHANGED <<settingVars, present, onl, rowVars, socketVars, stopping, changes>>

StopService ==
    /\ serving /\ serving' = FALSE /\ Len(changes) <= MaxOvertaken
    /\ Stops("stop", Listening \cup Starting)
    /\ UNCHANGED <<enabled, range, presenceVars, rowVars, socketVars, changes>>

-----------------------------------------------------------------------------
DeviceStep(d) ==
    \/ EnsureRow(d) \/ HandoverEnds(d) \/ BindSucceeds(d) \/ BindFails(d)
    \/ SocketClosed(d) \/ \E w \in Callers : StopProceeds(w, d)

ChangeStep ==
    \/ TurnOff \/ TurnOn \/ NewRange \/ Rebind \/ AllStopped \/ OnlineChange
    \/ DeviceChange \/ DeviceRestart
    \/ RetryStep \/ ChangeEnds

\* An edit that makes the row of a device beside the listener of an earlier row, or
\* whose port is then refused, does not start it: it is overlooked until some other
\* change does.  No code reads this variable.
Overlooked ==
    overlooked' = {d \in Droids \ (Starting \cup Starting') :
                      d \in overlooked \cup Rowless /\ d \notin Rowless'}

ServiceStep ==
    \/ \E d \in Droids : DeviceStep(d) \/ SetDevice(d) \/ Forget(d) \/ Polled(d)
    \/ \E d \in Droids, announced \in BOOLEAN :
          DeviceAppears(d, announced) \/ DeviceVanishes(d, announced)
    \/ UpdateSettings \/ ChangeStep \/ Reconcile \/ StopService

ListenersNext == ServiceStep /\ Overlooked

ListenersSpec == ListenersInit /\ [][ListenersNext]_listenerVars

\* Binding and closing a server end; the tick comes every five seconds.
ListenersFairness ==
    /\ \A d \in Droids : WF_serviceVars(DeviceStep(d))
    /\ WF_serviceVars(ChangeStep) /\ WF_serviceVars(Reconcile)
    /\ \A d \in Droids : WF_serviceVars(Polled(d))

-----------------------------------------------------------------------------
(* Properties.                                                             *)

ServiceTypeOK ==
    /\ enabled \in BOOLEAN /\ serving \in BOOLEAN /\ range \in PortRanges
    /\ present \subseteq Droids /\ onl \subseteq Droids /\ known \subseteq Droids
    /\ row \in [Droids -> Nat \cup {Nothing}] /\ at \in [Droids -> Nat \cup {Nothing}]
    /\ proxied \in [Droids -> BOOLEAN]
    /\ failure \in [Droids -> {"none", "port-in-use", "range-full", "error"}]
    /\ socket \in [Droids -> {"none", "bound", "closing"}]

ListenersTypeOK == ServiceTypeOK /\ overlooked \subseteq Droids

Settled == changes = <<>> /\ \A w \in Callers, d \in Droids : stopping[w][d] = "none"

\* Once the changes have run, no port is left bound that should not be: none
\* while the proxy is off or stopped, also when stop() overtook the changes, and
\* none of a device that was switched off.
SilentWhenOff ==
    Settled => \A d \in Droids : socket[d] # "none" => serving /\ enabled /\ proxied[d]

\* A device that is online, and of which no failure is shown, is served at the
\* port that is shown for it, as soon as the changes have run: whatever was forgotten,
\* handed over, edited or missed before.  The exception is a device without a row that
\* was edited before the tick looked at it: setDevice gives it a fresh row and starts
\* nothing, when a listener of its old row is still there or when it refuses the port,
\* and a tick looks for devices without a row.
ShownPortServes ==
    Settled /\ AtRest /\ serving /\ enabled =>
        \A d \in onl \ (Rowless \cup overlooked) :
            proxied[d] /\ failure[d] = "none" => at[d] = row[d]

\* No change waits for ever for a bind, for a close, or for the port of a device
\* that itself waits for a port.
ChangesProceed == []<>AtRest

\* A device that stays online, known and switched on is listened for in the end,
\* or shows why not, although no event may tell of it and its port may be held by
\* the listener of a device that is offline or forgotten.  The exception is a device
\* that stays overlooked: an edit made its row, and nothing has started it since.
ListensInTheEnd ==
    \A d \in Droids :
        <>[](serving /\ enabled /\ d \in (present \cap known) \ overlooked /\ proxied[d])
            => []<>(d \in Listening \/ failure[d] # "none")

=============================================================================
