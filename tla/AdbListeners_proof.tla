------------------------- MODULE AdbListeners_proof -------------------------
(***************************************************************************)
(* The listeners of the ADB proxy: types, silence once it is off, and that *)
(* a device is served at the port that is shown for it.                    *)
(***************************************************************************)
EXTENDS AdbListeners, FiniteSetTheorems, NaturalsInduction, WellFoundedInduction, TLAPS

-----------------------------------------------------------------------------
(* The inductive invariant.                                                *)

Ports == Nat \cup {Nothing}
StartStages == {"none", "row", "handover", "binding", "undo"}
StartRecords == [stage : StartStages, port : Ports]
ChangeKinds == {"off", "on", "range", "rebind", "online", "retry"} \cup SetDeviceKinds
ChangeStages == {"queued", "start", "stop", "handover", "restart",
                 "orphans", "unlisted", "starved", "blocked"}
ChangeRecords ==
    {c \in [kind : ChangeKinds, dev : Droids \cup {Nothing}, ports : SUBSET Nat,
            stage : ChangeStages, left : SUBSET Droids] :
        c.kind = "range" => c.ports \in PortRanges}

StageTypes ==
    /\ starting \in [Droids -> StartRecords]
    /\ \A d \in Droids : starting[d].stage = "none" => starting[d] = NotStarting
    /\ stopping \in [Callers -> [Droids -> {"none", "waits", "closing"}]]

\* Only the change at the head has begun.
QueueTyped(q) ==
    /\ q \in Seq(ChangeRecords)
    /\ \A i \in 2 .. Len(q) : q[i].stage = "queued"

\* Whatever listens or starts while the service is stopped, or the proxy is off,
\* is about to be stopped by the call that stopped the service or turned it off.
StoppedWithService ==
    ~serving => \A d \in Listening \cup Starting : stopping["stop"][d] = "waits"
StoppedWithSetting ==
    ~enabled => \A d \in Listening \cup Starting : stopping["change"][d] = "waits"
NoStopYet == serving => \A d \in Droids : stopping["stop"][d] = "none"

\* A socket that closes is awaited by somebody.
ClosingIsAwaited ==
    \A d \in Droids : socket[d] = "closing" =>
        starting[d].stage = "undo" \/ \E w \in Callers : stopping[w][d] = "closing"

\* A listener is undone only when the proxy went off during its bind.
UndoneWhenOff == \A d \in Droids : starting[d].stage = "undo" => ~(serving /\ enabled)

\* A device that is switched off is not bound, and stops if it listens.
SwitchedOffStops ==
    \A d \in Droids : ~proxied[d] =>
        /\ starting[d].stage \notin {"binding", "undo"}
        /\ d \in Listening => stopping["change"][d] = "waits"

\* stopAllDevices for a new bind host runs while the proxy is on.
RebindIsOn ==
    changes # <<>> /\ Current.kind = "rebind" /\ Current.stage = "stop" => enabled

ListenersInv ==
    /\ ServiceTypeOK /\ StageTypes /\ QueueTyped(changes)
    /\ StoppedWithService /\ StoppedWithSetting /\ NoStopYet
    /\ ClosingIsAwaited /\ UndoneWhenOff /\ SwitchedOffStops /\ RebindIsOn

-----------------------------------------------------------------------------
(* Ports and queued changes.                                               *)

LEMMA LeastPort ==
    ASSUME NEW S \in SUBSET Nat, S # {}
    PROVE  Lowest(S) \in S
<1> DEFINE R == {ss \in Nat \X Nat : ss[1] < ss[2]}
<1>1. IsWellFoundedOn(R, Nat)
      BY NatLessThanWellFounded DEF OpToRel
<1>2. PICK n \in S : \A m \in S : ~ (<<m, n>> \in R)
      BY <1>1, WFMin
<1>3. \A m \in S : m \in Nat /\ n \in Nat /\ ~(m < n)
      BY <1>2
<1>4. \A m \in S : n <= m
      BY <1>3
<1> QED
    BY <1>4 DEF Lowest

LEMMA FreeIsPorts ==
    ASSUME range \in PortRanges
    PROVE  /\ Free \subseteq Nat
           /\ Free # {} => Lowest(Free) \in Nat
<1>1. Free \subseteq Nat
      BY ListenersAssumption DEF Free
<1> QED
    BY <1>1, LeastPort

LEMMA ListedOnce ==
    ASSUME NEW S \in SUBSET Droids
    PROVE  /\ Cardinality(S) \in Nat
           /\ \A i \in 1 .. Cardinality(S) : SetToSeq(S)[i] \in S
<1>1. IsFiniteSet(S)
      BY ListenersAssumption, FS_Subset
<1>2. Cardinality(S) \in Nat /\ ExistsBijection(1 .. Cardinality(S), S)
      BY <1>1, FS_CardinalityType
<1>3. \E f \in [1 .. Cardinality(S) -> S] : IsInjective(f)
      BY <1>2 DEF ExistsBijection, Bijection, Injection, IsInjective
<1>4. SetToSeq(S) \in [1 .. Cardinality(S) -> S]
      BY <1>3 DEF SetToSeq
<1> QED
    BY <1>2, <1>4

\* What a step makes of the queue: the same head, or none that is in stopAllDevices.
Continues(q, r) ==
    /\ QueueTyped(r)
    /\ r # <<>> /\ Head(r).stage = "stop" => q # <<>> /\ Head(r) = Head(q)

LEMMA NewChange ==
    ASSUME NEW kind \in ChangeKinds, NEW d \in Droids \cup {Nothing}, NEW p \in SUBSET Nat,
           kind = "range" => p \in PortRanges
    PROVE  /\ Change(kind, d, p) \in ChangeRecords
           /\ Change(kind, d, p).stage = "queued"
    BY DEF Change, ChangeRecords, ChangeStages

LEMMA QueueAppended ==
    ASSUME NEW q, QueueTyped(q), NEW c \in ChangeRecords, c.stage = "queued"
    PROVE  Continues(q, Append(q, c))
    BY DEF QueueTyped, Continues

LEMMA QueueShifted ==
    ASSUME NEW q, QueueTyped(q), q # <<>>
    PROVE  Continues(q, Tail(q))
    BY DEF QueueTyped, Continues

LEMMA QueueKept ==
    ASSUME NEW q, QueueTyped(q)
    PROVE  Continues(q, q)
    BY DEF Continues

LEMMA QueueStaged ==
    ASSUME NEW q, QueueTyped(q), q # <<>>,
           NEW stage \in ChangeStages, NEW left \in SUBSET Droids
    PROVE  /\ QueueTyped(Stage(q, stage, left)) /\ Stage(q, stage, left) # <<>>
           /\ Head(Stage(q, stage, left)).kind = Head(q).kind
           /\ Head(Stage(q, stage, left)).stage = stage
<1>1. q \in Seq(ChangeRecords) /\ Len(q) \in Nat /\ 1 \in 1 .. Len(q) /\ q[1] \in ChangeRecords
      BY DEF QueueTyped
<1> DEFINE c == [q[1] EXCEPT !.stage = stage, !.left = left]
<1>2. c \in ChangeRecords /\ c.kind = q[1].kind /\ c.stage = stage
      BY <1>1 DEF ChangeRecords
<1>3. Stage(q, stage, left) = [q EXCEPT ![1] = c]
      BY <1>1 DEF Stage
<1> HIDE DEF c
<1>4. [q EXCEPT ![1] = c] \in Seq(ChangeRecords) /\ Len([q EXCEPT ![1] = c]) = Len(q)
      BY <1>1, <1>2
<1> QED
    BY <1>1, <1>2, <1>3, <1>4 DEF QueueTyped

LEMMA QueueJoined ==
    ASSUME NEW q, QueueTyped(q), NEW n \in Nat, NEW s \in [1 .. n -> ChangeRecords],
           \A i \in 1 .. n : s[i].stage = "queued"
    PROVE  Continues(q, q \o s)
<1>1. s \in Seq(ChangeRecords) /\ Len(s) = n
      OBVIOUS
<1>2. q \in Seq(ChangeRecords) /\ q \o s \in Seq(ChangeRecords) /\ Len(q \o s) = Len(q) + n
      BY <1>1 DEF QueueTyped
<1>3. \A i \in 1 .. Len(q \o s) : (q \o s)[i] = IF i <= Len(q) THEN q[i] ELSE s[i - Len(q)]
      BY <1>1, <1>2
<1>4. \A i \in 2 .. Len(q \o s) : (q \o s)[i].stage = "queued"
  <2>1. TAKE i \in 2 .. Len(q \o s)
  <2>2. CASE i <= Len(q)
        BY <1>2, <1>3, <2>2 DEF QueueTyped
  <2>3. CASE ~(i <= Len(q))
    <3>1. i - Len(q) \in 1 .. n
          BY <1>2, <2>3
    <3> QED
        BY <1>2, <1>3, <2>3, <3>1
  <2> QED
      BY <2>2, <2>3
<1>5. ASSUME q \o s # <<>>, Head(q \o s).stage = "stop"
      PROVE  q # <<>> /\ Head(q \o s) = Head(q)
  <2>1. Len(q \o s) > 0 /\ Head(q \o s) = (q \o s)[1]
        BY <1>2, <1>5
  <2>2. CASE q = <<>>
    <3>1. 1 \in 1 .. n /\ (q \o s)[1] = s[1]
          BY <1>2, <1>3, <2>1, <2>2
    <3> QED
        BY <1>5, <2>1, <3>1
  <2>3. CASE q # <<>>
        BY <1>2, <1>3, <2>1, <2>3
  <2> QED
      BY <2>2, <2>3
<1> QED
    BY <1>2, <1>4, <1>5 DEF Continues, QueueTyped

LEMMA QueueWithOnline ==
    ASSUME NEW q, QueueTyped(q), NEW S \in SUBSET Droids
    PROVE  Continues(q, WithOnline(q, S))
<1> DEFINE new == {d \in S : ~\E i \in DOMAIN q : /\ q[i].kind = "online" /\ q[i].dev = d
                                                  /\ q[i].stage = "queued"}
           s == [i \in 1 .. Cardinality(new) |-> Change("online", SetToSeq(new)[i], {})]
<1>1. new \in SUBSET Droids
      OBVIOUS
<1>2. WithOnline(q, S) = q \o s
      BY DEF WithOnline
<1> HIDE DEF new
<1>3. Cardinality(new) \in Nat /\ \A i \in 1 .. Cardinality(new) : SetToSeq(new)[i] \in Droids
      BY <1>1, ListedOnce
<1>4. \A i \in 1 .. Cardinality(new) : /\ s[i] \in ChangeRecords /\ s[i].stage = "queued"
  <2>1. TAKE i \in 1 .. Cardinality(new)
  <2>2. Change("online", SetToSeq(new)[i], {}) \in ChangeRecords
        /\ Change("online", SetToSeq(new)[i], {}).stage = "queued"
        BY <1>3, NewChange DEF ChangeKinds
  <2> QED
      BY <2>2
<1>5. s \in [1 .. Cardinality(new) -> ChangeRecords]
      BY <1>4
<1> HIDE DEF s
<1> QED
    BY <1>2, <1>3, <1>4, <1>5, QueueJoined

LEMMA ContinuesTwice ==
    ASSUME NEW q, NEW r, NEW t, Continues(q, r), Continues(r, t)
    PROVE  Continues(q, t)
    BY DEF Continues

-----------------------------------------------------------------------------
(* startDevice, listenFor and stopDevice.                                  *)

\* What a step of listenFor makes of its stage: a bind only of a device that is
\* switched on.
Advances(d) ==
    /\ failure' \in [Droids -> {"none", "port-in-use", "range-full", "error"}]
    /\ \E r \in StartRecords :
          /\ starting' = [starting EXCEPT ![d] = r]
          /\ r = NotStarting \/ r.stage = "handover" \/ (r.stage = "binding" /\ proxied[d])

\* What an allocation makes of the rows.
Allocates ==
    row' \in [Droids -> Ports] /\ proxied' = proxied

LEMMA NoRowAdvances ==
    ASSUME ListenersInv, NEW d \in Droids, NEW why \in {"none", "port-in-use", "range-full", "error"},
           NoRow(d, why)
    PROVE  Advances(d)
<1>1. NotStarting \in StartRecords
      BY DEF NotStarting, StartRecords, StartStages, Ports
<1> QED
    BY <1>1 DEF ListenersInv, ServiceTypeOK, Advances, NoRow

LEMMA RowFoundAdvances ==
    ASSUME ListenersInv, NEW d \in Droids, RowFound(d), Allocates
    PROVE  Advances(d)
<1>1. CASE proxied[d]
  <2>1. At("binding", row'[d]) \in StartRecords /\ At("binding", row'[d]).stage = "binding"
        BY DEF Allocates, At, StartRecords, StartStages
  <2>2. starting' = [starting EXCEPT ![d] = At("binding", row'[d])] /\ failure' = failure
        BY <1>1 DEF RowFound
  <2> QED
      BY <1>1, <2>1, <2>2 DEF ListenersInv, ServiceTypeOK, Advances
<1>2. CASE ~proxied[d]
      BY <1>2, NoRowAdvances DEF RowFound
<1> QED
    BY <1>1, <1>2

LEMMA NewRowAllocates ==
    ASSUME ListenersInv, NEW d \in Droids, NewRow(d), Free # {}
    PROVE  Allocates
<1>1. Lowest(Free) \in Nat
      BY FreeIsPorts DEF ListenersInv, ServiceTypeOK
<1> QED
    BY <1>1 DEF ListenersInv, ServiceTypeOK, NewRow, Allocates, Ports, rowVars

LEMMA SameRowAllocates ==
    ASSUME ListenersInv, UNCHANGED rowVars
    PROVE  Allocates
    BY DEF ListenersInv, ServiceTypeOK, Allocates, Ports, rowVars

LEMMA ReclaimAllocates ==
    ASSUME ListenersInv, NEW v \in Droids, Reclaim(v), UNCHANGED proxied
    PROVE  Allocates
    BY DEF ListenersInv, ServiceTypeOK, Allocates, Ports, Reclaim

\* Stops, as the invariant sees it.
LEMMA StopsTyped ==
    ASSUME ListenersInv, NEW w \in Callers, NEW S \in SUBSET Droids, Stops(w, S)
    PROVE  /\ stopping' \in [Callers -> [Droids -> {"none", "waits", "closing"}]]
           /\ \A d \in Droids : stopping'[w][d] = IF d \in S THEN "waits" ELSE stopping[w][d]
           /\ \A u \in Callers \ {w} : stopping'[u] = stopping[u]
    BY DEF ListenersInv, StageTypes, Stops

LEMMA AllocationKeeps ==
    ASSUME ListenersInv, NEW d \in Droids, starting[d].stage \in {"row", "handover"},
           Allocates, Advances(d), UNCHANGED <<settingVars, presenceVars, socket, at, changes>>,
           stopping' \in [Callers -> [Droids -> {"none", "waits", "closing"}]],
           \A w \in {"change", "stop"} : stopping'[w] = stopping[w],
           \A o \in Droids : stopping["handover"][o] = "closing" =>
                                 stopping'["handover"][o] = "closing"
    PROVE  ListenersInv'
<1>0. PICK r \in StartRecords :
         /\ starting' = [starting EXCEPT ![d] = r]
         /\ r = NotStarting \/ r.stage = "handover" \/ (r.stage = "binding" /\ proxied[d])
      BY DEF Advances
<1>1. ServiceTypeOK'
      BY DEF ListenersInv, ServiceTypeOK, Allocates, Advances, Ports, settingVars, presenceVars
<1>2. starting' \in [Droids -> StartRecords] /\ NotStarting.stage = "none"
      BY <1>0 DEF ListenersInv, StageTypes, NotStarting
<1>3. \A o \in Droids \ {d} : starting'[o] = starting[o]
      BY <1>0 DEF ListenersInv, StageTypes
<1>4. starting'[d] = r /\ d \in Starting
      BY <1>0 DEF ListenersInv, StageTypes, Starting, NotStarting
<1>5. StageTypes'
      BY <1>0, <1>2, <1>3, <1>4 DEF ListenersInv, StageTypes
<1>6. Starting' \subseteq Starting /\ Listening' = Listening
      BY <1>3, <1>4 DEF Starting, Listening
<1>7. (StoppedWithService /\ StoppedWithSetting /\ NoStopYet)'
      BY <1>6 DEF ListenersInv, StoppedWithService, StoppedWithSetting, NoStopYet, settingVars
<1>8. ClosingIsAwaited'
      BY <1>3, <1>0 DEF ListenersInv, ClosingIsAwaited, Callers
<1>9. (UndoneWhenOff /\ SwitchedOffStops)'
      BY <1>0, <1>2, <1>3, <1>4, <1>6
      DEF ListenersInv, UndoneWhenOff, SwitchedOffStops, settingVars, Allocates
<1>10. (QueueTyped(changes) /\ RebindIsOn)'
      BY DEF ListenersInv, RebindIsOn, Current, settingVars
<1> QED
    BY <1>1, <1>5, <1>7, <1>8, <1>9, <1>10 DEF ListenersInv

LEMMA EnsureRowKeeps ==
    ASSUME ListenersInv, NEW d \in Droids, EnsureRow(d)
    PROVE  ListenersInv'
<1>1. Allocates /\ Advances(d)
  <2>1. CASE row[d] # Nothing /\ UNCHANGED <<rowVars, stopping>> /\ RowFound(d)
        BY <2>1, SameRowAllocates, RowFoundAdvances
  <2>2. CASE Free # {} /\ NewRow(d) /\ RowFound(d)
        BY <2>2, NewRowAllocates, RowFoundAdvances
  <2>3. CASE (NoRow(d, "error") \/ NoRow(d, "range-full")) /\ UNCHANGED rowVars
        BY <2>3, SameRowAllocates, NoRowAdvances
  <2>4. CASE \E v \in Reclaimable : /\ Reclaim(v) /\ UNCHANGED <<proxied, failure>>
                                    /\ starting' = [starting EXCEPT ![d] = At("handover", Nothing)]
    <3>1. At("handover", Nothing) \in StartRecords /\ At("handover", Nothing).stage = "handover"
          BY DEF At, StartRecords, StartStages, Ports
    <3>2. Advances(d)
          BY <2>4, <3>1 DEF ListenersInv, ServiceTypeOK, Advances
    <3> QED
        BY <2>4, <3>2, ReclaimAllocates DEF Reclaimable
  <2> QED
      BY <2>1, <2>2, <2>3, <2>4 DEF EnsureRow
<1>2. \/ stopping' = stopping
      \/ \E v \in Reclaimable : Stops("handover", {v})
      BY DEF EnsureRow, Reclaim
<1>3. /\ stopping' \in [Callers -> [Droids -> {"none", "waits", "closing"}]]
      /\ \A w \in {"change", "stop"} : stopping'[w] = stopping[w]
  <2>1. CASE stopping' = stopping
        BY <2>1 DEF ListenersInv, StageTypes
  <2>2. CASE \E v \in Reclaimable : Stops("handover", {v})
    <3>1. PICK v \in Reclaimable : Stops("handover", {v})
          BY <2>2
    <3>2. {v} \in SUBSET Droids /\ "handover" \in Callers
          /\ {"change", "stop"} = Callers \ {"handover"}
          BY <3>1 DEF Reclaimable, Callers
    <3> QED
        BY <3>1, <3>2, StopsTyped
  <2> QED
      BY <1>2, <2>1, <2>2
<1>4. HandedOver
      BY DEF EnsureRow
<1> QED
    BY <1>1, <1>3, <1>4, AllocationKeeps DEF EnsureRow, HandedOver

LEMMA HandoverEndsKeeps ==
    ASSUME ListenersInv, NEW d \in Droids, HandoverEnds(d)
    PROVE  ListenersInv'
<1>1. Allocates /\ Advances(d)
  <2>1. CASE row[d] = Nothing /\ (Free = {} \/ d \notin known)
        BY <2>1, SameRowAllocates, NoRowAdvances DEF HandoverEnds
  <2>2. CASE row[d] = Nothing /\ Free # {} /\ d \in known
        BY <2>2, NewRowAllocates, RowFoundAdvances DEF HandoverEnds
  <2>3. CASE row[d] # Nothing
        BY <2>3, SameRowAllocates, RowFoundAdvances DEF HandoverEnds
  <2> QED
      BY <2>1, <2>2, <2>3
<1> QED
    BY <1>1, AllocationKeeps DEF HandoverEnds, ListenersInv, StageTypes

LEMMA BindSucceedsKeeps ==
    ASSUME ListenersInv, NEW d \in Droids, BindSucceeds(d)
    PROVE  ListenersInv'
<1>0. /\ at' \in [Droids -> Ports] /\ d \in Starting
      /\ UNCHANGED <<settingVars, presenceVars, rowVars, stopping, changes>>
      BY DEF ListenersInv, ServiceTypeOK, StageTypes, StartRecords, BindSucceeds, Ports, Starting,
             NotStarting
<1>1. (QueueTyped(changes) /\ RebindIsOn)'
      BY <1>0 DEF ListenersInv, RebindIsOn, Current, settingVars
<1>2. proxied[d] = TRUE
      BY DEF ListenersInv, SwitchedOffStops, BindSucceeds, ServiceTypeOK
<1>3. CASE serving /\ enabled
  <2>1. socket' = [socket EXCEPT ![d] = "bound"] /\ starting' = [starting EXCEPT ![d] = NotStarting]
        /\ failure' = [failure EXCEPT ![d] = "none"]
        BY <1>3 DEF BindSucceeds, NoRow
  <2>2. NotStarting \in StartRecords /\ NotStarting.stage = "none"
        BY DEF NotStarting, StartRecords, StartStages, Ports
  <2>3. (ServiceTypeOK /\ StageTypes)'
        BY <1>0, <2>1, <2>2
        DEF ListenersInv, ServiceTypeOK, StageTypes, Ports, settingVars, presenceVars, rowVars
  <2>4. (StoppedWithService /\ StoppedWithSetting /\ NoStopYet)'
        BY <1>0, <1>3 DEF ListenersInv, StoppedWithService, StoppedWithSetting, NoStopYet, settingVars
  <2>5. (ClosingIsAwaited /\ UndoneWhenOff /\ SwitchedOffStops)'
        BY <1>0, <1>2, <2>1, <2>2 DEF ListenersInv, ServiceTypeOK, StageTypes, ClosingIsAwaited,
           UndoneWhenOff, SwitchedOffStops, settingVars, rowVars, Listening
  <2> QED
      BY <1>1, <2>3, <2>4, <2>5 DEF ListenersInv
<1>4. CASE ~(serving /\ enabled)
  <2>1. /\ socket' = [socket EXCEPT ![d] = "closing"] /\ failure' = failure
        /\ starting' = [starting EXCEPT ![d] = At("undo", Nothing)]
        BY <1>4 DEF BindSucceeds
  <2>2. At("undo", Nothing) \in StartRecords /\ At("undo", Nothing).stage = "undo"
        BY DEF At, StartRecords, StartStages, Ports
  <2>3. (ServiceTypeOK /\ StageTypes)'
        BY <1>0, <2>1, <2>2
        DEF ListenersInv, ServiceTypeOK, StageTypes, Ports, settingVars, presenceVars, rowVars
  <2>4. Starting' \subseteq Starting /\ Listening' \subseteq Listening
        BY <1>0, <2>1 DEF ListenersInv, ServiceTypeOK, StageTypes, Starting, Listening
  <2>5. (StoppedWithService /\ StoppedWithSetting /\ NoStopYet)'
        BY <1>0, <2>4 DEF ListenersInv, StoppedWithService, StoppedWithSetting, NoStopYet, settingVars
  <2>6. (ClosingIsAwaited /\ UndoneWhenOff /\ SwitchedOffStops)'
        BY <1>0, <1>2, <1>4, <2>1, <2>2, <2>4 DEF ListenersInv, ServiceTypeOK, StageTypes,
           ClosingIsAwaited, UndoneWhenOff, SwitchedOffStops, settingVars, rowVars
  <2> QED
      BY <1>1, <2>3, <2>5, <2>6 DEF ListenersInv
<1> QED
    BY <1>3, <1>4

LEMMA BindFailsKeeps ==
    ASSUME ListenersInv, NEW d \in Droids, BindFails(d)
    PROVE  ListenersInv'
<1>1. NotStarting \in StartRecords /\ NotStarting.stage = "none"
      BY DEF NotStarting, StartRecords, StartStages, Ports
<1>2. (ServiceTypeOK /\ StageTypes)'
      BY <1>1 DEF ListenersInv, ServiceTypeOK, StageTypes, BindFails, NoRow, settingVars,
                  presenceVars, rowVars
<1>3. Starting' \subseteq Starting /\ Listening' = Listening
      BY DEF ListenersInv, StageTypes, BindFails, NoRow, Starting, Listening
<1>4. (StoppedWithService /\ StoppedWithSetting /\ NoStopYet)'
      BY <1>3 DEF ListenersInv, BindFails, StoppedWithService, StoppedWithSetting, NoStopYet,
                  settingVars
<1>5. (ClosingIsAwaited /\ UndoneWhenOff /\ SwitchedOffStops)'
      BY <1>1, <1>3 DEF ListenersInv, StageTypes, BindFails, NoRow, ClosingIsAwaited, UndoneWhenOff,
                  SwitchedOffStops, settingVars, rowVars
<1>6. (QueueTyped(changes) /\ RebindIsOn)'
      BY DEF ListenersInv, BindFails, RebindIsOn, Current, settingVars
<1> QED
    BY <1>2, <1>4, <1>5, <1>6 DEF ListenersInv

LEMMA StopProceedsKeeps ==
    ASSUME ListenersInv, NEW d \in Droids, NEW w \in Callers, StopProceeds(w, d)
    PROVE  ListenersInv'
<1> DEFINE next == IF d \in Listening THEN "closing" ELSE "none"
<1>1. /\ stopping' = [stopping EXCEPT ![w][d] = next] /\ next \in {"none", "waits", "closing"}
      /\ failure' = [failure EXCEPT ![d] = "none"] /\ d \notin Starting
      /\ socket' = [socket EXCEPT ![d] = IF @ = "bound" THEN "closing" ELSE @]
      /\ UNCHANGED <<settingVars, presenceVars, rowVars, at, starting, changes>>
      /\ d \in Listening => next = "closing"
      /\ stopping[w][d] = "waits"
      BY DEF StopProceeds
<1> HIDE DEF next
<1>2. /\ stopping' \in [Callers -> [Droids -> {"none", "waits", "closing"}]]
      /\ \A u \in Callers, o \in Droids :
            stopping'[u][o] = IF u = w /\ o = d THEN next ELSE stopping[u][o]
      BY <1>1 DEF ListenersInv, StageTypes
<1>3. /\ socket' \in [Droids -> {"none", "bound", "closing"}]
      /\ \A o \in Droids \ {d} : socket'[o] = socket[o]
      /\ socket'[d] = "closing" => d \in Listening \/ socket[d] = "closing"
      /\ socket'[d] # "bound"
      BY <1>1 DEF ListenersInv, ServiceTypeOK, Listening
<1>4. (ServiceTypeOK /\ StageTypes)'
      BY <1>1, <1>2, <1>3 DEF ListenersInv, ServiceTypeOK, StageTypes, settingVars, presenceVars,
                              rowVars
<1>5. Starting' = Starting /\ Listening' = Listening \ {d}
      BY <1>1, <1>3 DEF Starting, Listening
<1>6. (StoppedWithService /\ StoppedWithSetting)'
      BY <1>1, <1>2, <1>5 DEF ListenersInv, StoppedWithService, StoppedWithSetting, settingVars,
                              Callers, Starting, Listening
<1>7. NoStopYet'
      BY <1>1, <1>2 DEF ListenersInv, NoStopYet, settingVars, Callers
<1>8. ClosingIsAwaited'
      BY <1>1, <1>2, <1>3 DEF ListenersInv, ClosingIsAwaited
<1>9. (UndoneWhenOff /\ SwitchedOffStops)'
      BY <1>1, <1>2, <1>5 DEF ListenersInv, UndoneWhenOff, SwitchedOffStops, settingVars, rowVars,
                              Callers, Listening
<1>10. (QueueTyped(changes) /\ RebindIsOn)'
      BY <1>1 DEF ListenersInv, RebindIsOn, Current, settingVars
<1> QED
    BY <1>4, <1>6, <1>7, <1>8, <1>9, <1>10 DEF ListenersInv

LEMMA SocketClosedKeeps ==
    ASSUME ListenersInv, NEW d \in Droids, SocketClosed(d)
    PROVE  ListenersInv'
<1>0. UNCHANGED <<settingVars, presenceVars, rowVars, failure, changes>>
      BY DEF SocketClosed
<1>1. /\ socket' \in [Droids -> {"none", "bound", "closing"}] /\ at' \in [Droids -> Ports]
      /\ socket'[d] = "none" /\ \A o \in Droids \ {d} : socket'[o] = socket[o]
      /\ socket[d] = "closing"
      BY DEF ListenersInv, ServiceTypeOK, SocketClosed, Ports
<1>2. /\ starting' \in [Droids -> StartRecords]
      /\ \A o \in Droids \ {d} : starting'[o] = starting[o]
      /\ starting'[d] \in {starting[d], NotStarting} /\ starting'[d].stage # "undo"
      BY DEF ListenersInv, StageTypes, SocketClosed, StartRecords, StartStages, NotStarting, Ports
<1>3. /\ stopping' \in [Callers -> [Droids -> {"none", "waits", "closing"}]]
      /\ \A w \in Callers : \A o \in Droids \ {d} : stopping'[w][o] = stopping[w][o]
      /\ \A w \in Callers : stopping'[w][d] = IF stopping[w][d] = "closing" THEN "none"
                                             ELSE stopping[w][d]
      BY DEF ListenersInv, StageTypes, SocketClosed
<1>4. (ServiceTypeOK /\ StageTypes)'
      BY <1>0, <1>1, <1>2, <1>3 DEF ListenersInv, ServiceTypeOK, StageTypes, settingVars,
                              presenceVars, rowVars, Ports, NotStarting
<1>5. /\ Starting' \subseteq Starting /\ Listening' = Listening
      /\ Listening \cup Starting \subseteq Droids
      BY <1>1, <1>2 DEF Starting, Listening
<1>6. (StoppedWithService /\ StoppedWithSetting /\ NoStopYet)'
      BY <1>0, <1>3, <1>5 DEF ListenersInv, StoppedWithService, StoppedWithSetting, NoStopYet,
                              settingVars, Callers
<1>7. ClosingIsAwaited'
      BY <1>1, <1>2, <1>3 DEF ListenersInv, ClosingIsAwaited
<1>8. (UndoneWhenOff /\ SwitchedOffStops)'
      BY <1>0, <1>1, <1>2, <1>3, <1>5 DEF ListenersInv, UndoneWhenOff, SwitchedOffStops, settingVars,
                              rowVars, Callers, Listening, NotStarting
<1>9. (QueueTyped(changes) /\ RebindIsOn)'
      BY <1>0 DEF ListenersInv, RebindIsOn, Current, settingVars
<1> QED
    BY <1>4, <1>6, <1>7, <1>8, <1>9 DEF ListenersInv

-----------------------------------------------------------------------------
(* The serialised changes.                                                 *)

\* What a change may do while its devices rest: start some of them, and stop some,
\* among them whatever it turns or switches off.
Runs ==
    /\ AtRest /\ UNCHANGED <<serving, present, known, socket, at>>
    /\ enabled' \in BOOLEAN /\ range' \in PortRanges /\ onl' \subseteq Droids
    /\ row' \in [Droids -> Ports] /\ proxied' \in [Droids -> BOOLEAN]
    /\ failure' \in [Droids -> {"none", "port-in-use", "range-full", "error"}]
    /\ starting' \in [Droids -> StartRecords]
    /\ \A d \in Droids : \/ starting'[d] = NotStarting
                         \/ starting'[d].stage = "row" /\ serving /\ enabled'
    /\ stopping' \in [Callers -> [Droids -> {"none", "waits", "closing"}]]
    /\ stopping'["stop"] = stopping["stop"]
    /\ \A d \in Droids : stopping["handover"][d] = "closing" =>
                           stopping'["handover"][d] = "closing"
    /\ \A d \in Listening : ~enabled' \/ ~proxied'[d] => stopping'["change"][d] = "waits"

LEMMA WhenAtRest ==
    ASSUME ListenersInv, AtRest
    PROVE  /\ \A d \in Droids : starting[d] = NotStarting /\ stopping["change"][d] = "none"
           /\ Starting = {} /\ Listening \subseteq Droids
           /\ \A d \in Listening : enabled /\ proxied[d]
    BY DEF ListenersInv, AtRest, Starting, Listening, StoppedWithSetting, SwitchedOffStops

LEMMA ChangeRuns ==
    ASSUME ListenersInv, Runs, QueueTyped(changes'), RebindIsOn'
    PROVE  ListenersInv'
<1>0. NotStarting \in StartRecords /\ NotStarting.stage = "none"
      BY DEF NotStarting, StartRecords, StartStages, Ports
<1>1. (ServiceTypeOK /\ StageTypes)'
      BY <1>0 DEF ListenersInv, ServiceTypeOK, StageTypes, Runs, Ports
<1>2. /\ \A d \in Droids : starting[d] = NotStarting /\ stopping["change"][d] = "none"
      /\ Starting = {} /\ Listening' = Listening /\ Listening \subseteq Droids
      BY WhenAtRest DEF Runs, Listening
<1>3. \A d \in Starting' : d \in Droids /\ serving /\ enabled'
      BY DEF Runs, Starting
<1>4. StoppedWithService'
      BY <1>2, <1>3 DEF ListenersInv, StoppedWithService, Runs
<1>5. StoppedWithSetting'
      BY <1>2, <1>3 DEF StoppedWithSetting, Runs
<1>6. NoStopYet'
      BY DEF ListenersInv, NoStopYet, Runs
<1>7. ClosingIsAwaited'
      BY <1>0, <1>2 DEF ListenersInv, ClosingIsAwaited, Runs, Callers
<1>8. (UndoneWhenOff /\ SwitchedOffStops)'
      BY <1>0, <1>2 DEF UndoneWhenOff, SwitchedOffStops, Runs
<1>9. QueueTyped(changes)'
      OBVIOUS
<1> QED
    BY <1>1, <1>4, <1>5, <1>6, <1>7, <1>8, <1>9 DEF ListenersInv

\* What the next stage of a change makes of the queue.
LEMMA StageReached ==
    ASSUME ListenersInv, changes # <<>>,
           NEW stage \in ChangeStages \ {"stop"}, NEW left \in SUBSET Droids,
           changes' = Stage(changes, stage, left)
    PROVE  QueueTyped(changes') /\ RebindIsOn'
    BY QueueStaged DEF ListenersInv, RebindIsOn, Current

LEMMA QueueContinues ==
    ASSUME ListenersInv, Continues(changes, changes'), UNCHANGED enabled
    PROVE  QueueTyped(changes') /\ RebindIsOn'
    BY DEF ListenersInv, RebindIsOn, Current, Continues

\* The devices that a change may start, and may stop.
StartsSome ==
    /\ failure' \in [Droids -> {"none", "port-in-use", "range-full", "error"}]
    /\ starting' \in [Droids -> StartRecords]
    /\ \A d \in Droids : \/ starting'[d] = NotStarting
                         \/ starting'[d].stage = "row" /\ serving /\ enabled'

LEMMA RowStage ==
    /\ At("row", Nothing) \in StartRecords /\ At("row", Nothing).stage = "row"
    /\ NotStarting \in StartRecords
    BY DEF At, NotStarting, StartRecords, StartStages, Ports

LEMMA StartsIfEnabled ==
    ASSUME ListenersInv, AtRest, NEW S, Starts(S, enabled), UNCHANGED enabled
    PROVE  StartsSome
    BY WhenAtRest, RowStage DEF ListenersInv, ServiceTypeOK, StageTypes, Starts, StartsSome

LEMMA StartsWhenOn ==
    ASSUME ListenersInv, AtRest, NEW S, Starts(S, TRUE), enabled' = TRUE
    PROVE  StartsSome
    BY WhenAtRest, RowStage DEF ListenersInv, ServiceTypeOK, StageTypes, Starts, StartsSome

LEMMA StartsNone ==
    ASSUME ListenersInv, AtRest, UNCHANGED <<failure, starting>>
    PROVE  StartsSome
    BY WhenAtRest DEF ListenersInv, ServiceTypeOK, StageTypes, StartsSome

StopsSome(S) ==
    /\ stopping' \in [Callers -> [Droids -> {"none", "waits", "closing"}]]
    /\ stopping'["stop"] = stopping["stop"]
    /\ stopping'["handover"] = stopping["handover"]
    /\ \A d \in S : stopping'["change"][d] = "waits"

LEMMA ChangeStops ==
    ASSUME ListenersInv, NEW S \in SUBSET Droids, Stops("change", S)
    PROVE  StopsSome(S)
<1>1. "change" \in Callers /\ Callers \ {"change"} = {"stop", "handover"}
      BY DEF Callers
<1> QED
    BY <1>1, StopsTyped DEF StopsSome

LEMMA StopsNone ==
    ASSUME ListenersInv, UNCHANGED stopping
    PROVE  StopsSome({})
    BY DEF ListenersInv, StageTypes, StopsSome

LEMMA TurnOffKeeps ==
    ASSUME ListenersInv, TurnOff
    PROVE  ListenersInv'
<1> DEFINE S == IF enabled THEN Listening \cup Starting ELSE {}
<1>1. /\ AtRest /\ changes # <<>> /\ enabled' = FALSE /\ Stops("change", S)
      /\ UNCHANGED <<range, serving, presenceVars, rowVars, socketVars>>
      /\ changes' = Stage(changes, IF enabled THEN "stop" ELSE "start", {})
      /\ Current.kind = "off"
      BY DEF TurnOff, Turn
<1>2. S \in SUBSET Droids /\ Listening \subseteq S
      BY <1>1, WhenAtRest
<1> HIDE DEF S
<1>3. StopsSome(S)
      BY <1>1, <1>2, ChangeStops
<1>4. StartsSome
      BY <1>1, StartsNone DEF socketVars
<1>5. Runs
      BY <1>1, <1>2, <1>3, <1>4
      DEF ListenersInv, ServiceTypeOK, Runs, StartsSome, StopsSome, presenceVars, rowVars,
          socketVars, Ports
<1>6. QueueTyped(changes') /\ changes' # <<>> /\ Head(changes').kind = "off"
  <2>1. CASE enabled
        BY <1>1, <2>1, QueueStaged DEF ListenersInv, ChangeStages, Current
  <2>2. CASE ~enabled
        BY <1>1, <2>2, QueueStaged DEF ListenersInv, ChangeStages, Current
  <2> QED
      BY <2>1, <2>2
<1>7. RebindIsOn'
      BY <1>6 DEF RebindIsOn, Current
<1> QED
    BY <1>5, <1>6, <1>7, ChangeRuns

LEMMA TurnOnKeeps ==
    ASSUME ListenersInv, TurnOn
    PROVE  ListenersInv'
<1> DEFINE S == IF enabled THEN {} ELSE onl'
<1>1. /\ AtRest /\ changes # <<>> /\ enabled' = TRUE /\ Starts(S, TRUE)
      /\ onl' = IF enabled THEN onl ELSE present
      /\ changes' = WithOnline(Stage(changes, "start", {}), onl' \ onl)
      /\ UNCHANGED <<range, serving, present, known, rowVars, socket, at, stopping>>
      BY DEF TurnOn, Turn
<1>2. onl' \subseteq Droids
      BY <1>1 DEF ListenersInv, ServiceTypeOK
<1> HIDE DEF S
<1>3. StartsSome
      BY <1>1, StartsWhenOn
<1>4. StopsSome({})
      BY <1>1, StopsNone
<1>5. Runs
      BY <1>1, <1>2, <1>3, <1>4, WhenAtRest
      DEF ListenersInv, ServiceTypeOK, Runs, StartsSome, StopsSome, rowVars, Ports
<1>6. QueueTyped(Stage(changes, "start", {})) /\ Stage(changes, "start", {}) # <<>>
      /\ Head(Stage(changes, "start", {})).stage = "start"
      BY <1>1, QueueStaged DEF ListenersInv, ChangeStages
<1>7. onl' \ onl \in SUBSET Droids
      BY <1>2
<1>8. QueueTyped(changes')
      BY <1>1, <1>6, <1>7, QueueWithOnline DEF Continues
<1>9. RebindIsOn'
      BY <1>1 DEF RebindIsOn
<1> QED
    BY <1>5, <1>8, <1>9, ChangeRuns

LEMMA NewRangeKeeps ==
    ASSUME ListenersInv, NewRange
    PROVE  ListenersInv'
<1> DEFINE S == IF range' # range THEN onl ELSE {}
<1>1. /\ AtRest /\ changes # <<>> /\ range' = Current.ports /\ Current.kind = "range"
      /\ Starts(S, enabled) /\ changes' = Stage(changes, "start", {})
      /\ UNCHANGED <<enabled, serving, presenceVars, rowVars, socket, at, stopping>>
      BY DEF NewRange, Turn
<1>2. range' \in PortRanges
      BY <1>1 DEF ListenersInv, QueueTyped, ChangeRecords, Current
<1> HIDE DEF S
<1>3. StartsSome
      BY <1>1, StartsIfEnabled
<1>4. StopsSome({})
      BY <1>1, StopsNone
<1>5. Runs
      BY <1>1, <1>2, <1>3, <1>4, WhenAtRest
      DEF ListenersInv, ServiceTypeOK, Runs, StartsSome, StopsSome, presenceVars, rowVars, Ports
<1> QED
    BY <1>1, <1>5, StageReached, ChangeRuns DEF ChangeStages

LEMMA RebindKeeps ==
    ASSUME ListenersInv, Rebind
    PROVE  ListenersInv'
<1> DEFINE S == IF enabled THEN Listening ELSE {}
           left == IF enabled THEN onl ELSE {}
<1>1. /\ AtRest /\ changes # <<>> /\ Stops("change", S)
      /\ changes' = Stage(changes, IF enabled THEN "stop" ELSE "start", left)
      /\ UNCHANGED <<settingVars, presenceVars, rowVars, socketVars>>
      BY DEF Rebind, Turn
<1>2. S \in SUBSET Droids /\ left \in SUBSET Droids
      BY <1>1, WhenAtRest DEF ListenersInv, ServiceTypeOK
<1> HIDE DEF S, left
<1>3. StopsSome(S)
      BY <1>1, <1>2, ChangeStops
<1>4. StartsSome
      BY <1>1, StartsNone DEF socketVars
<1>5. Runs
      BY <1>1, <1>3, <1>4, WhenAtRest
      DEF ListenersInv, ServiceTypeOK, Runs, StartsSome, StopsSome, settingVars, presenceVars,
          rowVars, socketVars, Ports
<1>6. QueueTyped(changes') /\ RebindIsOn'
  <2>1. CASE enabled
    <3>1. QueueTyped(changes')
          BY <1>1, <1>2, <2>1, QueueStaged DEF ListenersInv, ChangeStages
    <3> QED
        BY <1>1, <2>1, <3>1 DEF RebindIsOn, settingVars
  <2>2. CASE ~enabled
        BY <1>1, <1>2, <2>2, StageReached DEF ChangeStages
  <2> QED
      BY <2>1, <2>2
<1> QED
    BY <1>5, <1>6, ChangeRuns

LEMMA AllStoppedKeeps ==
    ASSUME ListenersInv, AllStopped
    PROVE  ListenersInv'
<1>1. /\ AtRest /\ changes # <<>> /\ changes' = Stage(changes, "start", {})
      /\ Current.stage = "stop" /\ failure' = [d \in Droids |-> "none"]
      /\ UNCHANGED <<settingVars, presenceVars, rowVars, socket, at, stopping>>
      BY DEF AllStopped, Turn
<1>2. StartsSome
  <2>1. CASE Current.kind = "rebind" /\ serving
    <3>1. enabled = TRUE /\ enabled' = enabled
          BY <1>1, <2>1 DEF ListenersInv, RebindIsOn, ServiceTypeOK, settingVars
    <3>2. starting' = [d \in Droids |-> IF d \in onl /\ (d \notin Rowless \/ d \in known)
                                        THEN At("row", Nothing) ELSE NotStarting]
          BY <2>1 DEF AllStopped
    <3> QED
        BY <1>1, <2>1, <3>1, <3>2, RowStage DEF StartsSome
  <2>2. CASE ~(Current.kind = "rebind" /\ serving)
    <3>1. starting' = starting
          BY <2>2 DEF AllStopped
    <3> QED
        BY <1>1, <3>1, WhenAtRest DEF ListenersInv, StageTypes, StartsSome
  <2> QED
      BY <2>1, <2>2
<1>3. StopsSome({})
      BY <1>1, StopsNone
<1>4. Runs
      BY <1>1, <1>2, <1>3, WhenAtRest
      DEF ListenersInv, ServiceTypeOK, Runs, StartsSome, StopsSome, settingVars, presenceVars,
          rowVars, Ports
<1> QED
    BY <1>1, <1>4, StageReached, ChangeRuns DEF ChangeStages

\* A change that starts the devices of S and goes on.
LEMMA StartingKeeps ==
    ASSUME ListenersInv, AtRest, changes # <<>>, NEW S, Starts(S, enabled),
           NEW stage \in ChangeStages \ {"stop"}, NEW left \in SUBSET Droids,
           changes' = Stage(changes, stage, left),
           UNCHANGED <<settingVars, presenceVars, rowVars, socket, at, stopping>>
    PROVE  ListenersInv'
<1>1. StartsSome
      BY StartsIfEnabled DEF settingVars
<1>2. StopsSome({})
      BY StopsNone
<1>3. Runs
      BY <1>1, <1>2, WhenAtRest
      DEF ListenersInv, ServiceTypeOK, Runs, StartsSome, StopsSome, settingVars, presenceVars,
          rowVars, Ports
<1> QED
    BY <1>3, StageReached, ChangeRuns

LEMMA OnlineChangeKeeps ==
    ASSUME ListenersInv, OnlineChange
    PROVE  ListenersInv'
    BY StartingKeeps DEF OnlineChange, Turn, ChangeStages

LEMMA DeviceRestartKeeps ==
    ASSUME ListenersInv, DeviceRestart
    PROVE  ListenersInv'
    BY StartingKeeps DEF DeviceRestart, Turn, ChangeStages

LEMMA ChangeEndsKeeps ==
    ASSUME ListenersInv, ChangeEnds
    PROVE  ListenersInv'
<1>1. /\ AtRest /\ changes # <<>> /\ changes' = Tail(changes)
      /\ UNCHANGED <<settingVars, presenceVars, rowVars, socketVars, stopping>>
      BY DEF ChangeEnds, Done
<1>2. StartsSome /\ StopsSome({})
      BY <1>1, StartsNone, StopsNone DEF socketVars
<1>3. Runs
      BY <1>1, <1>2, WhenAtRest
      DEF ListenersInv, ServiceTypeOK, Runs, StartsSome, StopsSome, settingVars, presenceVars,
          rowVars, socketVars, Ports
<1>4. Continues(changes, changes')
      BY <1>1, QueueShifted DEF ListenersInv
<1> QED
    BY <1>1, <1>3, <1>4, QueueContinues, ChangeRuns DEF settingVars

LEMMA RetryStepKeeps ==
    ASSUME ListenersInv, RetryStep
    PROVE  ListenersInv'
<1>1. /\ AtRest /\ changes # <<>> /\ Current.stage \in DOMAIN LoopAfter
      /\ UNCHANGED <<settingVars, presenceVars, rowVars>>
      BY DEF RetryStep, Turn
<1>2. Current.left \in SUBSET Droids
      BY <1>1 DEF ListenersInv, QueueTyped, ChangeRecords, Current
<1>3. CASE Current.left = {}
  <2> DEFINE next == LoopAfter[Current.stage]
  <2>1. next \in ChangeStages \ {"stop"}
        BY <1>1 DEF LoopAfter, ChangeStages
  <2> HIDE DEF next
  <2>2. Loop(next) \in SUBSET Droids
        BY WhenAtRest, <1>1 DEF Loop, Orphans, Unlisted, Starved, Blocked
  <2>3. changes' = Stage(changes, next, Loop(next)) /\ UNCHANGED <<socketVars, stopping>>
        BY <1>3 DEF RetryStep, next
  <2>4. StartsSome /\ StopsSome({})
        BY <1>1, <2>3, StartsNone, StopsNone DEF socketVars
  <2>5. Runs
        BY <1>1, <2>3, <2>4, WhenAtRest
        DEF ListenersInv, ServiceTypeOK, Runs, StartsSome, StopsSome, settingVars, presenceVars,
            rowVars, socketVars, Ports
  <2> QED
      BY <1>1, <2>1, <2>2, <2>3, <2>5, StageReached, ChangeRuns
<1>4. CASE Current.left # {}
  <2>1. PICK d \in Current.left :
           /\ changes' = Stage(changes, Current.stage, Current.left \ {d})
           /\ IF Current.stage = "orphans"
              THEN Stops("change", {d}) /\ UNCHANGED socketVars
              ELSE Starts({d}, enabled) /\ UNCHANGED <<socket, at, stopping>>
        BY <1>4 DEF RetryStep
  <2>2. /\ Current.stage \in ChangeStages \ {"stop"}
        /\ {d} \in SUBSET Droids /\ Current.left \ {d} \in SUBSET Droids
        BY <1>1, <1>2 DEF LoopAfter, ChangeStages
  <2>3. CASE Current.stage = "orphans"
    <3>1. StartsSome /\ StopsSome({d})
          BY <1>1, <2>1, <2>2, <2>3, StartsNone, ChangeStops DEF socketVars
    <3>2. Runs
          BY <1>1, <2>1, <2>3, <3>1, WhenAtRest
          DEF ListenersInv, ServiceTypeOK, Runs, StartsSome, StopsSome, settingVars,
              presenceVars, rowVars, socketVars, Ports
    <3> QED
        BY <1>1, <2>1, <2>2, <3>2, StageReached, ChangeRuns
  <2>4. CASE Current.stage # "orphans"
        BY <1>1, <2>1, <2>2, <2>4, StartingKeeps
  <2> QED
      BY <2>3, <2>4
<1> QED
    BY <1>3, <1>4

\* setDevice: of the devices that listen, only the one that it switches off stops
\* being switched on, and that one it stops.
LEMMA DeviceChangeKeeps ==
    ASSUME ListenersInv, DeviceChange
    PROVE  ListenersInv'
<1> DEFINE d == Current.dev
<1>1. /\ AtRest /\ changes # <<>> /\ HandedOver
      /\ Current.kind \in SetDeviceKinds
      /\ UNCHANGED <<settingVars, presenceVars, socketVars>>
      BY DEF DeviceChange, Turn
<1>2. StartsSome
      BY <1>1, StartsNone DEF socketVars
<1>3. Continues(changes, Tail(changes))
      BY <1>1, QueueShifted DEF ListenersInv
<1>4. CASE /\ \E v \in Reclaimable : Reclaim(v)
           /\ changes' = Stage(changes, "handover", {}) /\ UNCHANGED proxied
  <2>1. PICK v \in Reclaimable : Reclaim(v)
        BY <1>4
  <2>2. v \in Droids /\ "handover" \in Callers /\ {v} \in SUBSET Droids
        /\ {"change", "stop"} = Callers \ {"handover"}
        BY <2>1 DEF Reclaimable, Callers
  <2>3. /\ stopping' \in [Callers -> [Droids -> {"none", "waits", "closing"}]]
        /\ stopping'["stop"] = stopping["stop"] /\ stopping'["change"] = stopping["change"]
        BY <2>1, <2>2, StopsTyped DEF Reclaim
  <2>4. Allocates
        BY <1>4, <2>1, <2>2, ReclaimAllocates
  <2>5. Runs
        BY <1>1, <1>2, <2>3, <2>4, WhenAtRest
        DEF ListenersInv, ServiceTypeOK, Runs, StartsSome, Allocates, HandedOver, settingVars,
            presenceVars, socketVars
  <2> QED
      BY <1>1, <1>4, <2>5, StageReached, ChangeRuns DEF ChangeStages
<1>5. CASE Done /\ UNCHANGED <<rowVars, stopping>>
  <2>1. StopsSome({})
        BY <1>5, StopsNone
  <2>2. Runs
        BY <1>1, <1>2, <1>5, <2>1, WhenAtRest
        DEF ListenersInv, ServiceTypeOK, Runs, StartsSome, StopsSome, settingVars, presenceVars,
            rowVars, socketVars, Ports
  <2>3. QueueTyped(changes') /\ RebindIsOn'
        BY <1>1, <1>3, <1>5, QueueContinues DEF Done, settingVars
  <2> QED
      BY <2>2, <2>3, ChangeRuns
<1>6. CASE /\ d \in known /\ (d \notin Rowless \/ Free # {})
           /\ LET p == IF d \in Rowless THEN Lowest(Free) ELSE row[d]
                  moves == {q \in Current.ports : q # p /\ q \in Free}
                  refused == Current.ports \ (moves \cup {p}) # {}
              IN /\ \E q \in IF moves = {} THEN {p} ELSE moves : row' = [row EXCEPT ![d] = q]
                 /\ proxied' = [proxied EXCEPT ![d] = CASE Current.kind = "enable" -> TRUE
                                                        [] Current.kind = "disable" -> FALSE
                                                        [] OTHER -> @]
                 /\ Stops("change", IF StopsDevice(moves) THEN {d} ELSE {})
                 /\ IF refused THEN Done ELSE changes' = Stage(changes, "restart", {})
  <2> DEFINE p == IF d \in Rowless THEN Lowest(Free) ELSE row[d]
             moves == {q \in Current.ports : q # p /\ q \in Free}
             S == IF StopsDevice(moves) THEN {d} ELSE {}
  <2>1. d \in Droids
        BY <1>6 DEF ListenersInv, ServiceTypeOK
  <2>2. p \in Ports /\ Free \subseteq Nat
        BY <1>6, <2>1, FreeIsPorts DEF ListenersInv, ServiceTypeOK, Ports
  <2>3. moves \subseteq Ports
        BY <2>2 DEF Ports
  <2>4. PICK q \in IF moves = {} THEN {p} ELSE moves : row' = [row EXCEPT ![d] = q]
        BY <1>6
  <2>5. row' \in [Droids -> Ports]
        BY <2>1, <2>2, <2>3, <2>4 DEF ListenersInv, ServiceTypeOK, Ports
  <2>6. Stops("change", S) /\ (Current.kind = "disable" => S = {d}) /\ S \in SUBSET Droids
        BY <1>6, <2>1 DEF StopsDevice
  <2>7. changes' = Tail(changes) \/ changes' = Stage(changes, "restart", {})
        BY <1>6 DEF Done
  <2>8. /\ proxied' \in [Droids -> BOOLEAN]
        /\ \A o \in Droids \ {d} : proxied'[o] = proxied[o]
        /\ Current.kind # "disable" => (proxied[d] => proxied'[d])
    <3>1. CASE Current.kind = "enable"
      <4>1. proxied' = [proxied EXCEPT ![d] = TRUE]
            BY <1>6, <3>1
      <4> QED
          BY <2>1, <4>1 DEF ListenersInv, ServiceTypeOK
    <3>2. CASE Current.kind = "disable"
      <4>1. proxied' = [proxied EXCEPT ![d] = FALSE]
            BY <1>6, <3>2
      <4> QED
          BY <2>1, <3>2, <4>1 DEF ListenersInv, ServiceTypeOK
    <3>3. CASE Current.kind = "port"
      <4>1. proxied' = [proxied EXCEPT ![d] = @]
            BY <1>6, <3>3
      <4> QED
          BY <2>1, <4>1 DEF ListenersInv, ServiceTypeOK
    <3> QED
        BY <1>1, <3>1, <3>2, <3>3 DEF SetDeviceKinds
  <2> HIDE DEF S, moves, p, d
  <2>9. StopsSome(S)
        BY <2>6, ChangeStops
  <2>10. \A o \in Listening : ~enabled' \/ ~proxied'[o] => stopping'["change"][o] = "waits"
    <3>1. TAKE o \in Listening
    <3>2. o \in Droids /\ enabled /\ proxied[o] /\ enabled' = enabled
          BY <1>1, WhenAtRest DEF settingVars
    <3>3. ASSUME ~proxied'[o] PROVE o = d /\ Current.kind = "disable"
          BY <2>8, <3>2, <3>3
    <3> QED
        BY <2>6, <2>9, <3>2, <3>3 DEF StopsSome
  <2>11. Runs
        BY <1>1, <1>2, <2>5, <2>8, <2>9, <2>10
        DEF ListenersInv, ServiceTypeOK, Runs, StartsSome, StopsSome, settingVars, presenceVars,
            socketVars
  <2>12. QueueTyped(changes') /\ RebindIsOn'
    <3>1. CASE changes' = Tail(changes)
      <4>1. Continues(changes, changes') /\ UNCHANGED enabled
            BY <1>1, <1>3, <3>1 DEF settingVars
      <4> QED
          BY <4>1, QueueContinues
    <3>2. CASE changes' = Stage(changes, "restart", {})
      <4>1. "restart" \in ChangeStages \ {"stop"} /\ {} \in SUBSET Droids
            BY DEF ChangeStages
      <4> QED
          BY <1>1, <3>2, <4>1, StageReached
    <3> QED
        BY <2>7, <3>1, <3>2
  <2> QED
      BY <2>11, <2>12, ChangeRuns
<1>7. \/ /\ \E v \in Reclaimable : Reclaim(v)
         /\ changes' = Stage(changes, "handover", {}) /\ UNCHANGED proxied
      \/ Done /\ UNCHANGED <<rowVars, stopping>>
      \/ /\ d \in known /\ (d \notin Rowless \/ Free # {})
         /\ LET p == IF d \in Rowless THEN Lowest(Free) ELSE row[d]
                moves == {q \in Current.ports : q # p /\ q \in Free}
                refused == Current.ports \ (moves \cup {p}) # {}
            IN /\ \E q \in IF moves = {} THEN {p} ELSE moves : row' = [row EXCEPT ![d] = q]
               /\ proxied' = [proxied EXCEPT ![d] = CASE Current.kind = "enable" -> TRUE
                                                      [] Current.kind = "disable" -> FALSE
                                                      [] OTHER -> @]
               /\ Stops("change", IF StopsDevice(moves) THEN {d} ELSE {})
               /\ IF refused THEN Done ELSE changes' = Stage(changes, "restart", {})
      BY Zenon DEF DeviceChange
<1> QED
    BY <1>4, <1>5, <1>6, <1>7

-----------------------------------------------------------------------------
(* What does not wait.                                                     *)

\* A step that touches neither the settings nor a socket, and switches no device
\* off.
LEMMA QuietKeeps ==
    ASSUME ListenersInv, UNCHANGED <<settingVars, socketVars, stopping>>,
           present' \subseteq Droids, onl' \subseteq Droids, known' \subseteq Droids,
           row' \in [Droids -> Ports], proxied' \in [Droids -> BOOLEAN],
           \A d \in Droids : proxied[d] => proxied'[d],
           Continues(changes, changes')
    PROVE  ListenersInv'
<1>1. (ServiceTypeOK /\ StageTypes)'
      BY DEF ListenersInv, ServiceTypeOK, StageTypes, settingVars, socketVars, Ports
<1>2. (StoppedWithService /\ StoppedWithSetting /\ NoStopYet)'
      BY DEF ListenersInv, StoppedWithService, StoppedWithSetting, NoStopYet, Listening, Starting,
             settingVars, socketVars
<1>3. (ClosingIsAwaited /\ UndoneWhenOff /\ SwitchedOffStops)'
      BY DEF ListenersInv, ClosingIsAwaited, UndoneWhenOff, SwitchedOffStops, Listening,
             settingVars, socketVars
<1>4. (QueueTyped(changes) /\ RebindIsOn)'
      BY QueueContinues DEF settingVars
<1> QED
    BY <1>1, <1>2, <1>3, <1>4 DEF ListenersInv

\* A step that leaves also the rows alone.
LEMMA PresenceKeeps ==
    ASSUME ListenersInv, UNCHANGED <<settingVars, rowVars, socketVars, stopping>>,
           present' \subseteq Droids, onl' \subseteq Droids, known' \subseteq Droids,
           Continues(changes, changes')
    PROVE  ListenersInv'
<1>1. row' \in [Droids -> Ports] /\ proxied' \in [Droids -> BOOLEAN]
      /\ \A d \in Droids : proxied[d] => proxied'[d]
      BY DEF ListenersInv, ServiceTypeOK, rowVars, Ports
<1> QED
    BY <1>1, QuietKeeps

LEMMA QueueChangeKeeps ==
    ASSUME ListenersInv, NEW kind \in ChangeKinds, NEW d \in Droids \cup {Nothing},
           NEW ports \in SUBSET Nat, kind = "range" => ports \in PortRanges,
           QueueChange(kind, d, ports)
    PROVE  ListenersInv'
<1>1. Continues(changes, changes')
      BY NewChange, QueueAppended DEF ListenersInv, QueueChange
<1> QED
    BY <1>1, PresenceKeeps DEF ListenersInv, ServiceTypeOK, QueueChange, presenceVars

LEMMA UpdateSettingsKeeps ==
    ASSUME ListenersInv, UpdateSettings
    PROVE  ListenersInv'
<1>1. ASSUME NEW kind \in {"off", "on", "rebind"}, QueueChange(kind, Nothing, {})
      PROVE  ListenersInv'
  <2>1. kind \in ChangeKinds /\ kind # "range"
        BY DEF ChangeKinds
  <2> QED
      BY <1>1, <2>1, QueueChangeKeeps
<1>2. ASSUME NEW r \in NewRanges, QueueChange("range", Nothing, r)
      PROVE  ListenersInv'
  <2>1. "range" \in ChangeKinds /\ r \in PortRanges /\ r \in SUBSET Nat
        BY ListenersAssumption DEF ChangeKinds
  <2> QED
      BY <1>2, <2>1, QueueChangeKeeps
<1> QED
    BY <1>1, <1>2 DEF UpdateSettings

LEMMA SetDeviceKeeps ==
    ASSUME ListenersInv, NEW d \in Droids, SetDevice(d)
    PROVE  ListenersInv'
<1>1. ASSUME NEW kind \in {"enable", "disable"}, QueueChange(kind, d, {})
      PROVE  ListenersInv'
  <2>1. kind \in ChangeKinds /\ kind # "range"
        BY DEF ChangeKinds, SetDeviceKinds
  <2> QED
      BY <1>1, <2>1, QueueChangeKeeps
<1>2. ASSUME NEW p \in UNION PortRanges, QueueChange("port", d, {p})
      PROVE  ListenersInv'
  <2>1. "port" \in ChangeKinds /\ {p} \in SUBSET Nat
        BY ListenersAssumption DEF ChangeKinds, SetDeviceKinds
  <2> QED
      BY <1>2, <2>1, QueueChangeKeeps
<1> QED
    BY <1>1, <1>2 DEF SetDevice

LEMMA DeviceAppearsKeeps ==
    ASSUME ListenersInv, NEW d \in Droids, NEW announced \in BOOLEAN, DeviceAppears(d, announced)
    PROVE  ListenersInv'
<1>1. Continues(changes, changes')
  <2>1. CASE changes' = changes
        BY <2>1, QueueKept DEF ListenersInv
  <2>2. CASE changes' = WithOnline(changes, {d})
        BY <2>2, QueueWithOnline DEF ListenersInv
  <2> QED
      BY <2>1, <2>2 DEF DeviceAppears
<1>2. present' \subseteq Droids /\ onl' \subseteq Droids /\ known' \subseteq Droids
      BY DEF ListenersInv, ServiceTypeOK, DeviceAppears
<1> QED
    BY <1>1, <1>2, PresenceKeeps DEF DeviceAppears

LEMMA DeviceVanishesKeeps ==
    ASSUME ListenersInv, NEW d \in Droids, NEW announced \in BOOLEAN, DeviceVanishes(d, announced)
    PROVE  ListenersInv'
<1>1. Continues(changes, changes')
      BY QueueKept DEF ListenersInv, DeviceVanishes
<1>2. present' \subseteq Droids /\ onl' \subseteq Droids /\ known' \subseteq Droids
      BY DEF ListenersInv, ServiceTypeOK, DeviceVanishes
<1> QED
    BY <1>1, <1>2, PresenceKeeps DEF DeviceVanishes

LEMMA ReconcileKeeps ==
    ASSUME ListenersInv, Reconcile
    PROVE  ListenersInv'
<1> DEFINE q == WithOnline(changes, present \ onl)
           c == Change("retry", Nothing, {})
<1>1. changes' = q \/ changes' = Append(q, c)
      BY DEF Reconcile
<1>2. Continues(changes, q)
      BY QueueWithOnline DEF ListenersInv, ServiceTypeOK
<1>3. c \in ChangeRecords /\ c.stage = "queued"
      BY NewChange DEF ChangeKinds
<1> HIDE DEF q, c
<1>4. Continues(changes, changes')
  <2>1. QueueTyped(q)
        BY <1>2 DEF Continues
  <2>2. Continues(q, Append(q, c))
        BY <1>3, <2>1, QueueAppended
  <2>3. Continues(changes, Append(q, c))
        BY <1>2, <2>2, ContinuesTwice
  <2> QED
      BY <1>1, <1>2, <2>3
<1>5. present' \subseteq Droids /\ onl' \subseteq Droids /\ known' \subseteq Droids
      BY DEF ListenersInv, ServiceTypeOK, Reconcile
<1> QED
    BY <1>4, <1>5, PresenceKeeps DEF Reconcile

LEMMA ForgetKeeps ==
    ASSUME ListenersInv, NEW d \in Droids, Forget(d)
    PROVE  ListenersInv'
<1>1. Continues(changes, changes')
      BY QueueKept DEF ListenersInv, Forget
<1>2. /\ present' \subseteq Droids /\ onl' \subseteq Droids /\ known' \subseteq Droids
      /\ row' \in [Droids -> Ports] /\ proxied' \in [Droids -> BOOLEAN]
      /\ \A o \in Droids : proxied[o] => proxied'[o]
      BY DEF ListenersInv, ServiceTypeOK, Forget, Ports
<1> QED
    BY <1>1, <1>2, QuietKeeps DEF Forget

LEMMA PolledKeeps ==
    ASSUME ListenersInv, NEW d \in Droids, Polled(d)
    PROVE  ListenersInv'
<1>1. Continues(changes, changes')
      BY QueueKept DEF ListenersInv, Polled
<1>2. present' \subseteq Droids /\ onl' \subseteq Droids /\ known' \subseteq Droids
      BY DEF ListenersInv, ServiceTypeOK, Polled
<1> QED
    BY <1>1, <1>2, PresenceKeeps DEF Polled

LEMMA StopServiceKeeps ==
    ASSUME ListenersInv, StopService
    PROVE  ListenersInv'
<1> DEFINE S == Listening \cup Starting
<1>1. /\ serving /\ serving' = FALSE /\ Stops("stop", S)
      /\ UNCHANGED <<enabled, range, presenceVars, rowVars, socketVars, changes>>
      BY DEF StopService
<1>2. /\ S \in SUBSET Droids /\ Listening' \cup Starting' = S
      /\ Listening' = Listening /\ S = Listening \cup Starting
      BY <1>1 DEF Listening, Starting, socketVars
<1> HIDE DEF S
<1>3. /\ stopping' \in [Callers -> [Droids -> {"none", "waits", "closing"}]]
      /\ \A d \in S : stopping'["stop"][d] = "waits"
      /\ stopping'["change"] = stopping["change"] /\ stopping'["handover"] = stopping["handover"]
  <2>1. "stop" \in Callers /\ Callers \ {"stop"} = {"change", "handover"}
        BY DEF Callers
  <2> QED
      BY <1>1, <1>2, <2>1, StopsTyped
<1>4. (ServiceTypeOK /\ StageTypes)'
      BY <1>1, <1>3 DEF ListenersInv, ServiceTypeOK, StageTypes, presenceVars, rowVars, socketVars
<1>5. (StoppedWithService /\ NoStopYet)'
      BY <1>1, <1>2, <1>3 DEF StoppedWithService, NoStopYet
<1>6. StoppedWithSetting'
      BY <1>1, <1>2, <1>3 DEF ListenersInv, StoppedWithSetting
<1>7. ClosingIsAwaited'
      BY <1>1, <1>3 DEF ListenersInv, ClosingIsAwaited, NoStopYet, socketVars, Callers
<1>8. (UndoneWhenOff /\ SwitchedOffStops)'
      BY <1>1, <1>2, <1>3 DEF ListenersInv, UndoneWhenOff, SwitchedOffStops, rowVars, socketVars
<1>9. (QueueTyped(changes) /\ RebindIsOn)'
      BY <1>1 DEF ListenersInv, RebindIsOn, Current
<1> QED
    BY <1>4, <1>5, <1>6, <1>7, <1>8, <1>9 DEF ListenersInv

-----------------------------------------------------------------------------
(* The invariant, types and silence, in every state.                       *)

LEMMA ListenersBegin ==
    ASSUME ListenersInit
    PROVE  ListenersInv
<1> DEFINE c == [Change("on", Nothing, {}) EXCEPT !.stage = "start"]
<1>1. c \in ChangeRecords /\ c.stage = "start" /\ c.kind = "on"
      BY DEF Change, ChangeRecords, ChangeStages, ChangeKinds
<1>2. changes = <<c>> \/ changes = <<>>
      BY DEF ListenersInit
<1> HIDE DEF c
<1>3. QueueTyped(changes) /\ RebindIsOn
  <2>1. CASE changes = <<>>
        BY <2>1 DEF QueueTyped, RebindIsOn
  <2>2. CASE changes = <<c>>
    <3>1. <<c>> \in Seq(ChangeRecords) /\ Len(<<c>>) = 1 /\ Head(<<c>>) = c
          BY <1>1
    <3> QED
        BY <1>1, <2>2, <3>1 DEF QueueTyped, RebindIsOn, Current
  <2> QED
      BY <1>2, <2>1, <2>2
<1>4. \A d \in Droids : \/ starting[d] = NotStarting
                        \/ starting[d] = At("row", Nothing) /\ enabled
      BY DEF ListenersInit
<1>5. NotStarting.stage = "none" /\ At("row", Nothing).stage = "row"
      BY DEF NotStarting, At
<1>6. ServiceTypeOK /\ StageTypes
      BY RowStage, <1>5, ListenersAssumption DEF ListenersInit, ServiceTypeOK, StageTypes, Callers
<1>7. StoppedWithService /\ StoppedWithSetting /\ NoStopYet
      BY <1>4 DEF ListenersInit, StoppedWithService, StoppedWithSetting, NoStopYet, Callers,
                  Listening, Starting
<1>8. ClosingIsAwaited /\ UndoneWhenOff /\ SwitchedOffStops
      BY <1>4, <1>5 DEF ListenersInit, ClosingIsAwaited, UndoneWhenOff, SwitchedOffStops
<1> QED
    BY <1>3, <1>6, <1>7, <1>8 DEF ListenersInv

LEMMA ListenersStep ==
    ASSUME ListenersInv, [ServiceStep]_serviceVars
    PROVE  ListenersInv'
<1>1. ASSUME NEW d \in Droids, DeviceStep(d)
      PROVE  ListenersInv'
      BY <1>1, EnsureRowKeeps, HandoverEndsKeeps, BindSucceedsKeeps, BindFailsKeeps,
         SocketClosedKeeps, StopProceedsKeeps DEF DeviceStep
<1>2. ASSUME ChangeStep
      PROVE  ListenersInv'
      BY <1>2, TurnOffKeeps, TurnOnKeeps, NewRangeKeeps, RebindKeeps, AllStoppedKeeps,
         OnlineChangeKeeps, DeviceChangeKeeps, DeviceRestartKeeps, RetryStepKeeps, ChangeEndsKeeps
      DEF ChangeStep
<1>3. ASSUME NEW d \in Droids, SetDevice(d) \/ Forget(d) \/ Polled(d)
      PROVE  ListenersInv'
      BY <1>3, SetDeviceKeeps, ForgetKeeps, PolledKeeps
<1>4. ASSUME NEW d \in Droids, NEW announced \in BOOLEAN,
             DeviceAppears(d, announced) \/ DeviceVanishes(d, announced)
      PROVE  ListenersInv'
      BY <1>4, DeviceAppearsKeeps, DeviceVanishesKeeps
<1>5. ASSUME UNCHANGED serviceVars
      PROVE  ListenersInv'
  <2>1. Continues(changes, changes')
        BY <1>5, QueueKept DEF ListenersInv, serviceVars
  <2> QED
      BY <1>5, <2>1, PresenceKeeps
      DEF serviceVars, presenceVars, ListenersInv, ServiceTypeOK
<1> QED
    BY <1>1, <1>2, <1>3, <1>4, <1>5, UpdateSettingsKeeps, ReconcileKeeps, StopServiceKeeps
    DEF ServiceStep

\* Every state of the listeners satisfies the inductive invariant.
THEOREM ListenersInvHolds == ListenersSpec => []ListenersInv
<1>1. [ListenersNext]_listenerVars => [ServiceStep]_serviceVars
      BY DEF ListenersNext, listenerVars
<1> QED
    BY <1>1, ListenersBegin, ListenersStep, PTL DEF ListenersSpec

\* The variables of the listeners have their types: a device has a port or none,
\* and the range is always one that the settings may hold.
THEOREM ListenersTypesHold == ListenersSpec => []ListenersTypeOK
<1>1. ListenersInit => overlooked \subseteq Droids
      BY DEF ListenersInit
<1>2. overlooked \subseteq Droids /\ [ListenersNext]_listenerVars => (overlooked \subseteq Droids)'
      BY DEF ListenersNext, Overlooked, listenerVars
<1>3. ListenersInv => ServiceTypeOK
      BY DEF ListenersInv
<1>4. ServiceTypeOK /\ overlooked \subseteq Droids => ListenersTypeOK
      BY DEF ListenersTypeOK
<1> QED
    BY <1>1, <1>2, <1>3, <1>4, ListenersInvHolds, PTL DEF ListenersSpec

\* No port stays bound once the changes have run when the proxy is off or stopped,
\* or when the device was switched off: a bind in flight is undone, and a stop
\* waits for it.
THEOREM OffMeansSilent == ListenersSpec => []SilentWhenOff
<1>1. ASSUME ListenersInv, Settled, NEW d \in Droids, socket[d] # "none"
      PROVE  serving /\ enabled /\ proxied[d]
  <2>1. /\ socket[d] \in {"bound", "closing"}
        /\ \A w \in Callers : stopping[w][d] = "none"
        /\ {"stop", "change"} \subseteq Callers
        BY <1>1 DEF ListenersInv, ServiceTypeOK, Settled, Callers
  <2>2. ASSUME d \in Listening \cup Starting
        PROVE  serving /\ enabled
        BY <1>1, <2>1, <2>2 DEF ListenersInv, StoppedWithService, StoppedWithSetting
  <2>3. socket[d] # "closing"
    <3>1. SUFFICES ASSUME socket[d] = "closing" PROVE FALSE
          OBVIOUS
    <3>2. starting[d].stage = "undo"
          BY <1>1, <2>1, <3>1 DEF ListenersInv, ClosingIsAwaited
    <3>3. d \in Starting
          BY <3>2 DEF Starting, NotStarting
    <3> QED
        BY <1>1, <2>2, <3>2, <3>3 DEF ListenersInv, UndoneWhenOff
  <2>4. d \in Listening
        BY <2>1, <2>3 DEF Listening
  <2>5. proxied[d]
        BY <1>1, <2>1, <2>4 DEF ListenersInv, SwitchedOffStops
  <2> QED
      BY <2>2, <2>4, <2>5
<1>2. ListenersInv => SilentWhenOff
      BY <1>1 DEF SilentWhenOff
<1> QED
    BY <1>2, ListenersInvHolds, PTL

-----------------------------------------------------------------------------
(* The port that is shown.                                                 *)

\* Which queued change starts a device, and which changes an operator may make.
Tells(q, d) ==
    \E i \in DOMAIN q : q[i].kind = "online" /\ q[i].dev = d /\ q[i].stage = "queued"
Edit(c) ==
    c.kind \in SetDeviceKinds =>
        IF c.kind = "port" THEN \E p \in Nat : c.ports = {p} ELSE c.ports = {}
Edits(q) == \A i \in DOMAIN q : Edit(q[i])

\* What a step beside the change at the head makes of the queue.
Extends(q, r) ==
    /\ Continues(q, r) /\ Edits(r)
    /\ q # <<>> => r # <<>> /\ Head(r) = Head(q)
    /\ q = <<>> /\ r # <<>> => Head(r).stage = "queued"
    /\ \A d \in Droids : Tells(q, d) => Tells(r, d)

LEMMA ListedAll ==
    ASSUME NEW S \in SUBSET Droids, NEW d \in S
    PROVE  \E i \in 1 .. Cardinality(S) : SetToSeq(S)[i] = d
<1> DEFINE n == Cardinality(S)
           f == SetToSeq(S)
           T == {f[i] : i \in 1 .. n}
<1>1. IsFiniteSet(S) /\ n \in Nat
      BY ListenersAssumption, FS_Subset, FS_CardinalityType
<1>2. ExistsBijection(1 .. n, S)
      BY <1>1, FS_CardinalityType
<1>3. \E g \in [1 .. n -> S] : IsInjective(g)
      BY <1>2 DEF ExistsBijection, Bijection, Injection, IsInjective
<1>4. f \in [1 .. n -> S] /\ IsInjective(f)
      BY <1>3 DEF SetToSeq
<1> HIDE DEF f, n
<1>5. T \in SUBSET S /\ f \in Bijection(1 .. n, T)
      BY <1>4 DEF Bijection, Injection, Surjection, IsInjective
<1>6. IsFiniteSet(1 .. n) /\ Cardinality(1 .. n) = n
      BY <1>1, FS_Interval
<1>7. Cardinality(T) = n
      BY <1>5, <1>6, FS_Bijection DEF ExistsBijection
<1>8. T = S
      BY <1>1, <1>5, <1>7, FS_Subset DEF n
<1> QED
    BY <1>8 DEF f, n

LEMMA AppendTells ==
    ASSUME NEW q \in Seq(ChangeRecords), NEW c \in ChangeRecords, NEW d, Tells(q, d)
    PROVE  Tells(Append(q, c), d)
    BY DEF Tells

LEMMA ChangeAdded ==
    ASSUME NEW q, QueueTyped(q), Edits(q), NEW c \in ChangeRecords, c.stage = "queued", Edit(c)
    PROVE  Extends(q, Append(q, c))
<1>1. q \in Seq(ChangeRecords) /\ Continues(q, Append(q, c))
      BY QueueAppended DEF QueueTyped
<1>2. \A d \in Droids : Tells(q, d) => Tells(Append(q, c), d)
      BY <1>1, AppendTells
<1>3. Edits(Append(q, c))
      BY <1>1 DEF Edits
<1>4. /\ q # <<>> => Append(q, c) # <<>> /\ Head(Append(q, c)) = Head(q)
      /\ q = <<>> => Head(Append(q, c)) = c
      BY <1>1
<1> QED
    BY <1>1, <1>2, <1>3, <1>4 DEF Extends

LEMMA OnlineAdded ==
    ASSUME NEW q, QueueTyped(q), Edits(q), NEW S \in SUBSET Droids
    PROVE  /\ Extends(q, WithOnline(q, S))
           /\ \A d \in S : Tells(WithOnline(q, S), d)
<1> DEFINE new == {d \in S : ~\E i \in DOMAIN q : /\ q[i].kind = "online" /\ q[i].dev = d
                                                  /\ q[i].stage = "queued"}
           n == Cardinality(new)
           s == [i \in 1 .. n |-> Change("online", SetToSeq(new)[i], {})]
           r == q \o s
<1>1. new \in SUBSET Droids /\ new = {d \in S : ~Tells(q, d)}
      BY DEF Tells
<1>2. WithOnline(q, S) = r
      BY DEF WithOnline
<1> HIDE DEF new
<1>3. n \in Nat /\ \A i \in 1 .. n : SetToSeq(new)[i] \in Droids
      BY <1>1, ListedOnce
<1>4. \A d \in new : \E i \in 1 .. n : SetToSeq(new)[i] = d
      BY <1>1, ListedAll
<1> HIDE DEF n
<1>5. \A i \in 1 .. n : /\ s[i] \in ChangeRecords /\ s[i].kind = "online" /\ s[i].stage = "queued"
                        /\ s[i].dev = SetToSeq(new)[i]
  <2>1. ASSUME NEW i \in 1 .. n
        PROVE  Change("online", SetToSeq(new)[i], {}) \in ChangeRecords
        BY <1>3, NewChange DEF ChangeKinds
  <2> QED
      BY <2>1 DEF Change
<1>6. s \in Seq(ChangeRecords) /\ Len(s) = n /\ q \in Seq(ChangeRecords)
  <2>1. s \in [1 .. n -> ChangeRecords]
        BY <1>5
  <2> QED
      BY <1>3, <2>1 DEF QueueTyped
<1> HIDE DEF s
<1>7. /\ r \in Seq(ChangeRecords) /\ Len(r) = Len(q) + n
      /\ \A i \in 1 .. Len(q) : i \in DOMAIN r /\ r[i] = q[i]
      /\ \A i \in 1 .. n : Len(q) + i \in DOMAIN r /\ r[Len(q) + i] = s[i]
      BY <1>3, <1>6
<1>8. \A i \in DOMAIN r : \/ i \in DOMAIN q /\ r[i] = q[i]
                          \/ \E j \in 1 .. n : r[i] = s[j]
  <2>1. ASSUME NEW i \in DOMAIN r
        PROVE  \/ i \in DOMAIN q /\ r[i] = q[i]
               \/ \E j \in 1 .. n : r[i] = s[j]
    <3>1. i \in 1 .. Len(r)
          BY <1>7, <2>1
    <3>2. CASE i <= Len(q)
          BY <1>6, <1>7, <3>1, <3>2
    <3>3. CASE ~(i <= Len(q))
      <4>1. i - Len(q) \in 1 .. n /\ i = Len(q) + (i - Len(q))
            BY <1>3, <1>6, <1>7, <3>1, <3>3
      <4> QED
          BY <1>7, <4>1
    <3> QED
        BY <3>2, <3>3
  <2> QED
      BY <2>1
<1>9. Continues(q, r)
      BY <1>2, QueueWithOnline
<1>10. /\ q # <<>> => r # <<>> /\ Head(r) = Head(q)
       /\ q = <<>> /\ r # <<>> => Head(r).stage = "queued"
       BY <1>3, <1>5, <1>6, <1>7, <1>8
<1>11. ASSUME NEW d \in Droids, Tells(q, d)
       PROVE  Tells(r, d)
       BY <1>6, <1>7, <1>11 DEF Tells
<1>12. Edits(r)
       BY <1>5, <1>8 DEF Edits, Edit, SetDeviceKinds
<1>13. ASSUME NEW d \in S
       PROVE  Tells(r, d)
  <2>1. CASE d \in new
        BY <1>4, <1>5, <1>7, <2>1 DEF Tells
  <2>2. CASE d \notin new
        BY <1>1, <1>11, <2>2
  <2> QED
      BY <2>1, <2>2
<1> HIDE DEF r
<1> QED
    BY <1>2, <1>9, <1>10, <1>11, <1>12, <1>13 DEF Extends

\* The next stage of the change at the head, and the end of that change, take no
\* other change away.
LEMMA StageTells ==
    ASSUME NEW q, QueueTyped(q), Edits(q), q # <<>>,
           NEW stage \in ChangeStages, NEW left \in SUBSET Droids
    PROVE  /\ Edits(Stage(q, stage, left))
           /\ Head(Stage(q, stage, left)).dev = Head(q).dev
           /\ Head(Stage(q, stage, left)).left = left
           /\ \A d \in Droids : Tells(q, d) /\ ~(Head(q).kind = "online" /\ Head(q).dev = d)
                                  => Tells(Stage(q, stage, left), d)
<1>1. q \in Seq(ChangeRecords) /\ Len(q) \in Nat /\ 1 \in 1 .. Len(q) /\ q[1] \in ChangeRecords
      BY DEF QueueTyped
<1> DEFINE c == [q[1] EXCEPT !.stage = stage, !.left = left]
           r == [q EXCEPT ![1] = c]
<1>2. /\ c \in ChangeRecords /\ c.kind = q[1].kind /\ c.dev = q[1].dev /\ c.ports = q[1].ports
      /\ c.left = left
      BY <1>1 DEF ChangeRecords
<1>3. Stage(q, stage, left) = r
      BY <1>1 DEF Stage
<1> HIDE DEF c
<1>4. r \in Seq(ChangeRecords) /\ DOMAIN r = DOMAIN q /\ r[1] = c
      /\ \A i \in DOMAIN q : i # 1 => r[i] = q[i]
      BY <1>1, <1>2
<1>5. Head(r) = c /\ Head(q) = q[1]
      BY <1>1, <1>4
<1> HIDE DEF r
<1>6. Edits(r)
      BY <1>1, <1>2, <1>4 DEF Edits, Edit
<1>7. ASSUME NEW d \in Droids, Tells(q, d), ~(Head(q).kind = "online" /\ Head(q).dev = d)
      PROVE  Tells(r, d)
      BY <1>4, <1>5, <1>7 DEF Tells
<1> QED
    BY <1>2, <1>3, <1>5, <1>6, <1>7

LEMMA TailTells ==
    ASSUME NEW q, QueueTyped(q), Edits(q), q # <<>>
    PROVE  /\ Edits(Tail(q))
           /\ \A d \in Droids : Tells(q, d) /\ ~(Head(q).kind = "online" /\ Head(q).stage = "queued")
                                  => Tells(Tail(q), d)
<1>1. /\ q \in Seq(ChangeRecords) /\ Len(q) \in Nat /\ Len(q) > 0 /\ Head(q) = q[1]
      /\ Len(Tail(q)) = Len(q) - 1
      /\ \A i \in 1 .. Len(Tail(q)) : Tail(q)[i] = q[i + 1]
      BY DEF QueueTyped
<1>2. \A i \in DOMAIN Tail(q) : i \in 1 .. Len(Tail(q)) /\ i + 1 \in DOMAIN q
      BY <1>1
<1>3. Edits(Tail(q))
      BY <1>1, <1>2 DEF Edits
<1>4. ASSUME NEW d \in Droids, Tells(q, d), ~(Head(q).kind = "online" /\ Head(q).stage = "queued")
      PROVE  Tells(Tail(q), d)
  <2>1. PICK i \in DOMAIN q : q[i].kind = "online" /\ q[i].dev = d /\ q[i].stage = "queued"
        BY <1>4 DEF Tells
  <2>2. i # 1 /\ i - 1 \in 1 .. Len(Tail(q)) /\ Tail(q)[i - 1] = q[i]
        BY <1>1, <1>4, <2>1
  <2>3. i - 1 \in DOMAIN Tail(q)
        BY <1>1, <2>2
  <2> QED
      BY <2>1, <2>2, <2>3 DEF Tells
<1> QED
    BY <1>3, <1>4

Tracked == Droids \ overlooked

\* What a step does to that set: a device in it that has a row and starts neither
\* before nor after the step was in it before, with its row.
TrackedKept ==
    \A d \in Tracked' : \/ d \in Starting \cup Starting'
                        \/ row'[d] = Nothing
                        \/ d \in Tracked /\ row[d] # Nothing

Restarts(d) ==
    changes # <<>> /\ Current.kind \in SetDeviceKinds /\ Current.dev = d /\ Current.stage = "restart"
Rebinds == changes # <<>> /\ Current.kind = "rebind" /\ Current.stage = "stop"

\* A change that will start the device is queued, or runs.
Coming(d) == Restarts(d) \/ Rebinds \/ Tells(changes, d)

\* A bind is for the port of the row, unless the row is gone.
BindsItsRow ==
    \A d \in Droids : starting[d].stage = "binding" =>
        starting[d].port \in Nat /\ row[d] \in {starting[d].port, Nothing}

\* A listener is at the port of its row, or about to leave the port.
ServesItsRow ==
    \A d \in Tracked : d \in Listening /\ row[d] # Nothing =>
        at[d] = row[d] \/ stopping["change"][d] = "waits"

StartsOnce == Starting \cap Listening = {}

\* A device whose port is handed over has no row meanwhile.
HandoverTakesRow ==
    \A d \in Droids : stopping["handover"][d] # "none" => row[d] = Nothing

\* A change stops a listener because the proxy is off, because the device or every
\* device starts again afterwards, or because its row is gone.
Releases == changes # <<>> /\ Current.kind = "retry" /\ Current.stage = "orphans"
Forgotten(d) == row[d] = Nothing
StopHasReason ==
    \A d \in Droids : stopping["change"][d] = "waits" =>
        ~enabled \/ Restarts(d) \/ Rebinds \/ (Releases /\ Forgotten(d))

\* What a change has found when it is in one of its stages.
RebindStopsAll ==
    Rebinds => Starting = {} /\ \A d \in Listening : stopping["change"][d] = "waits"
OffIsOff == changes # <<>> /\ Current.kind = "off" /\ Current.stage = "stop" => ~enabled
OrphansStay == Releases => Starting = {} /\ \A d \in Current.left : Forgotten(d)

\* A device that should be served and that neither listens, starts nor shows a
\* failure is about to be started.
NotServed(d) ==
    /\ serving /\ enabled /\ d \in onl /\ row[d] # Nothing
    /\ proxied[d] /\ failure[d] = "none" /\ d \notin Listening \cup Starting
ComesUp == \A d \in Tracked : NotServed(d) => Coming(d)

ServeInv ==
    /\ BindsItsRow /\ ServesItsRow /\ StartsOnce /\ HandoverTakesRow
    /\ StopHasReason /\ RebindStopsAll /\ OffIsOff /\ OrphansStay
    /\ Edits(changes) /\ ComesUp

LEMMA StillTracked ==
    ASSUME TrackedKept, NEW d \in Tracked', row'[d] # Nothing, d \notin Starting \cup Starting'
    PROVE  d \in Droids /\ d \in Tracked /\ row[d] # Nothing
    BY DEF TrackedKept, Tracked

\* What the queue says stays said when a step extends it.
LEMMA ExtendedSays ==
    ASSUME ListenersInv, Extends(changes, changes')
    PROVE  /\ \A d \in Droids : (Restarts(d) => Restarts(d)') /\ (Coming(d) => Coming(d)')
           /\ Rebinds' <=> Rebinds
           /\ OffIsOff /\ UNCHANGED enabled => OffIsOff'
           /\ Releases' <=> Releases
           /\ Releases => Current' = Current
<1>1. ASSUME changes = <<>>, changes' # <<>>
      PROVE  Head(changes').stage = "queued"
      BY <1>1 DEF Extends
<1> QED
    BY <1>1 DEF Extends, Continues, Restarts, Rebinds, Coming, OffIsOff, Releases, Current

-----------------------------------------------------------------------------
(* The steps that belong to no change.                                     *)

\* A step that touches neither the settings nor a socket, and takes rows away.
LEMMA QuietServes ==
    ASSUME ListenersInv, ServeInv, TrackedKept, UNCHANGED <<settingVars, socketVars, stopping>>,
           \A d \in Droids : \/ row'[d] = row[d] /\ proxied'[d] = proxied[d]
                             \/ row'[d] = Nothing,
           onl' \subseteq Droids,
           \A d \in onl' \ onl : enabled => Tells(changes', d),
           Extends(changes, changes')
    PROVE  ServeInv'
<1>1. /\ Listening' = Listening /\ Starting' = Starting /\ Listening \subseteq Droids
      /\ UNCHANGED <<enabled, serving, failure, at, starting, stopping>>
      BY DEF Listening, Starting, settingVars, socketVars
<1>2. /\ \A d \in Droids : (Restarts(d) => Restarts(d)') /\ (Coming(d) => Coming(d)')
      /\ Rebinds' <=> Rebinds
      /\ OffIsOff'
      /\ Releases' <=> Releases
      /\ Releases => Current' = Current
      BY <1>1, ExtendedSays DEF ServeInv
<1>3. BindsItsRow'
      BY <1>1 DEF ServeInv, BindsItsRow
<1>4. (ServesItsRow /\ StartsOnce /\ HandoverTakesRow)'
      BY <1>1 DEF ServeInv, ServesItsRow, StartsOnce, HandoverTakesRow, Tracked, TrackedKept
<1>5. (StopHasReason /\ RebindStopsAll)'
      BY <1>1, <1>2 DEF ServeInv, StopHasReason, RebindStopsAll, Forgotten
<1>6. OrphansStay'
  <2>1. SUFFICES ASSUME Releases'
                 PROVE  Starting' = {} /\ \A d \in Current'.left : row'[d] = Nothing
        BY DEF OrphansStay, Forgotten
  <2>2. /\ Releases /\ Current' = Current /\ Current \in ChangeRecords
        BY <1>2, <2>1 DEF ListenersInv, QueueTyped, Current, Releases
  <2>3. /\ Starting = {} /\ Current.left \subseteq Droids
        /\ \A d \in Current.left : row[d] = Nothing
        BY <2>2 DEF ServeInv, OrphansStay, ChangeRecords, Forgotten
  <2> QED
      BY <1>1, <2>2, <2>3
<1>7. ASSUME NEW d \in Tracked', NotServed(d)'
      PROVE  Coming(d)'
  <2>1. d \in Droids /\ d \in Tracked /\ row'[d] = row[d] /\ proxied'[d] = proxied[d]
        BY <1>1, <1>7, StillTracked DEF NotServed
  <2>2. CASE d \in onl
    <3>1. NotServed(d)
          BY <1>1, <1>7, <2>1, <2>2 DEF NotServed
    <3> QED
        BY <1>2, <1>7, <2>1, <3>1 DEF ServeInv, ComesUp
  <2>3. CASE d \notin onl
        BY <1>1, <1>7, <2>3 DEF NotServed, Coming
  <2> QED
      BY <2>2, <2>3
<1>8. Edits(changes)'
      BY DEF Extends
<1> QED
    BY <1>2, <1>3, <1>4, <1>5, <1>6, <1>7, <1>8 DEF ServeInv, ComesUp

LEMMA SameServes ==
    ASSUME ListenersInv, ServeInv, TrackedKept,
           UNCHANGED <<settingVars, presenceVars, rowVars, socketVars, stopping>>,
           Extends(changes, changes')
    PROVE  ServeInv'
<1>1. /\ \A d \in Droids : row'[d] = row[d] /\ proxied'[d] = proxied[d]
      /\ onl' \subseteq Droids /\ onl' \ onl = {}
      BY DEF ListenersInv, ServiceTypeOK, presenceVars, rowVars
<1> QED
    BY <1>1, QuietServes

LEMMA SameExtends ==
    ASSUME ListenersInv, ServeInv, UNCHANGED changes
    PROVE  Extends(changes, changes')
<1>1. Continues(changes, changes')
      BY QueueKept DEF ListenersInv
<1> QED
    BY <1>1 DEF ServeInv, Extends, Edits, Tells

LEMMA QueueChangeServes ==
    ASSUME ListenersInv, ServeInv, TrackedKept, NEW kind \in ChangeKinds,
           NEW d \in Droids \cup {Nothing},
           NEW ports \in SUBSET Nat, kind = "range" => ports \in PortRanges,
           Edit(Change(kind, d, ports)), QueueChange(kind, d, ports)
    PROVE  ServeInv'
<1>1. Extends(changes, changes')
      BY NewChange, ChangeAdded DEF ListenersInv, ServeInv, QueueChange
<1> QED
    BY <1>1, SameServes DEF QueueChange

LEMMA UpdateSettingsServes ==
    ASSUME ListenersInv, ServeInv, TrackedKept, UpdateSettings
    PROVE  ServeInv'
<1>1. ASSUME NEW kind \in {"off", "on", "rebind"}, QueueChange(kind, Nothing, {})
      PROVE  ServeInv'
  <2>1. kind \in ChangeKinds /\ kind # "range" /\ Edit(Change(kind, Nothing, {}))
        BY DEF ChangeKinds, Edit, Change, SetDeviceKinds
  <2> QED
      BY <1>1, <2>1, QueueChangeServes
<1>2. ASSUME NEW r \in NewRanges, QueueChange("range", Nothing, r)
      PROVE  ServeInv'
  <2>1. /\ "range" \in ChangeKinds /\ r \in PortRanges /\ r \in SUBSET Nat
        /\ Edit(Change("range", Nothing, r))
        BY ListenersAssumption DEF ChangeKinds, Edit, Change, SetDeviceKinds
  <2> QED
      BY <1>2, <2>1, QueueChangeServes
<1> QED
    BY <1>1, <1>2 DEF UpdateSettings

LEMMA SetDeviceServes ==
    ASSUME ListenersInv, ServeInv, TrackedKept, NEW d \in Droids, SetDevice(d)
    PROVE  ServeInv'
<1>1. ASSUME NEW kind \in {"enable", "disable"}, QueueChange(kind, d, {})
      PROVE  ServeInv'
  <2>1. kind \in ChangeKinds /\ kind # "range" /\ Edit(Change(kind, d, {}))
        BY DEF ChangeKinds, SetDeviceKinds, SetDevice, Edit, Change
  <2> QED
      BY <1>1, <2>1, QueueChangeServes
<1>2. ASSUME NEW p \in UNION PortRanges, QueueChange("port", d, {p})
      PROVE  ServeInv'
  <2>1. p \in Nat
        BY ListenersAssumption
  <2>2. "port" \in ChangeKinds /\ {p} \in SUBSET Nat /\ Edit(Change("port", d, {p}))
        BY <2>1 DEF ChangeKinds, SetDeviceKinds, SetDevice, Edit, Change
  <2> QED
      BY <1>2, <2>2, QueueChangeServes
<1> QED
    BY <1>1, <1>2 DEF SetDevice

LEMMA DeviceAppearsServes ==
    ASSUME ListenersInv, ServeInv, TrackedKept, NEW d \in Droids, NEW announced \in BOOLEAN,
           DeviceAppears(d, announced)
    PROVE  ServeInv'
<1>1. /\ UNCHANGED <<settingVars, known, rowVars, socketVars, stopping>>
      /\ present' = present \cup {d} /\ onl' \in {onl, onl \cup {d}}
      BY DEF DeviceAppears
<1>2. Extends(changes, changes') /\ (enabled /\ onl' # onl => Tells(changes', d))
  <2>1. CASE announced /\ enabled
    <3>1. changes' = WithOnline(changes, {d})
          BY <2>1 DEF DeviceAppears
    <3> QED
        BY <3>1, OnlineAdded DEF ListenersInv, ServeInv
  <2>2. CASE ~announced \/ ~enabled
    <3>1. changes' = changes /\ (onl' = onl \/ ~enabled)
          BY <2>2 DEF DeviceAppears
    <3> QED
        BY <3>1, SameExtends
  <2> QED
      BY <2>1, <2>2
<1>3. /\ \A o \in Droids : row'[o] = row[o] /\ proxied'[o] = proxied[o]
      /\ onl' \subseteq Droids
      /\ \A o \in onl' \ onl : enabled => Tells(changes', o)
      BY <1>1, <1>2 DEF ListenersInv, ServiceTypeOK, rowVars
<1> QED
    BY <1>1, <1>2, <1>3, QuietServes

LEMMA DeviceVanishesServes ==
    ASSUME ListenersInv, ServeInv, TrackedKept, NEW d \in Droids, NEW announced \in BOOLEAN,
           DeviceVanishes(d, announced)
    PROVE  ServeInv'
<1>1. /\ UNCHANGED <<settingVars, known, rowVars, socketVars, stopping, changes>>
      /\ present' = present \ {d} /\ onl' \in {onl, onl \ {d}}
      BY DEF DeviceVanishes
<1>2. /\ \A o \in Droids : row'[o] = row[o] /\ proxied'[o] = proxied[o]
      /\ onl' \subseteq Droids /\ onl' \ onl = {}
      BY <1>1 DEF ListenersInv, ServiceTypeOK, rowVars
<1> QED
    BY <1>1, <1>2, SameExtends, QuietServes

LEMMA ReconcileServes ==
    ASSUME ListenersInv, ServeInv, TrackedKept, Reconcile
    PROVE  ServeInv'
<1> DEFINE q == WithOnline(changes, present \ onl)
           c == Change("retry", Nothing, {})
<1>1. /\ changes' = q \/ changes' = Append(q, c)
      /\ onl' = present /\ UNCHANGED <<settingVars, present, known, rowVars, socketVars, stopping>>
      BY DEF Reconcile
<1>2. present \ onl \in SUBSET Droids
      BY DEF ListenersInv, ServiceTypeOK
<1>3. Extends(changes, q) /\ \A d \in present \ onl : Tells(q, d)
      BY <1>2, OnlineAdded DEF ListenersInv, ServeInv
<1>4. c \in ChangeRecords /\ c.stage = "queued" /\ Edit(c)
      BY NewChange DEF ChangeKinds, Edit, Change, SetDeviceKinds
<1> HIDE DEF q, c
<1>5. QueueTyped(q) /\ Edits(q) /\ q \in Seq(ChangeRecords)
      BY <1>3 DEF Extends, Continues, QueueTyped
<1>6. Extends(q, Append(q, c)) /\ \A d \in Droids : Tells(q, d) => Tells(Append(q, c), d)
      BY <1>4, <1>5, ChangeAdded DEF Extends
<1>7. Extends(changes, Append(q, c))
      BY <1>3, <1>6 DEF Extends, Continues
<1>8. Extends(changes, changes') /\ \A d \in present \ onl : Tells(changes', d)
      BY <1>1, <1>2, <1>3, <1>6, <1>7
<1>9. /\ \A o \in Droids : row'[o] = row[o] /\ proxied'[o] = proxied[o]
      /\ onl' \subseteq Droids
      BY <1>1 DEF ListenersInv, ServiceTypeOK, rowVars
<1> QED
    BY <1>1, <1>8, <1>9, QuietServes

LEMMA ForgetServes ==
    ASSUME ListenersInv, ServeInv, TrackedKept, NEW d \in Droids, Forget(d)
    PROVE  ServeInv'
<1>1. /\ UNCHANGED <<settingVars, present, onl, socketVars, stopping, changes>>
      /\ known' = known \ {d}
      /\ row' = [row EXCEPT ![d] = Nothing] /\ proxied' = [proxied EXCEPT ![d] = TRUE]
      BY DEF Forget
<1>2. /\ \A o \in Droids : \/ row'[o] = row[o] /\ proxied'[o] = proxied[o]
                           \/ row'[o] = Nothing
      /\ onl' \subseteq Droids /\ onl' \ onl = {}
      BY <1>1 DEF ListenersInv, ServiceTypeOK
<1> QED
    BY <1>1, <1>2, SameExtends, QuietServes

LEMMA PolledServes ==
    ASSUME ListenersInv, ServeInv, TrackedKept, NEW d \in Droids, Polled(d)
    PROVE  ServeInv'
<1>1. /\ UNCHANGED <<settingVars, present, onl, rowVars, socketVars, stopping, changes>>
      /\ known' = known \cup {d}
      BY DEF Polled
<1>2. /\ \A o \in Droids : row'[o] = row[o] /\ proxied'[o] = proxied[o]
      /\ onl' \subseteq Droids /\ onl' \ onl = {}
      BY <1>1 DEF ListenersInv, ServiceTypeOK, rowVars
<1> QED
    BY <1>1, <1>2, SameExtends, QuietServes

LEMMA StopServiceServes ==
    ASSUME ListenersInv, ServeInv, TrackedKept, StopService
    PROVE  ServeInv'
<1>1. /\ serving' = FALSE
      /\ UNCHANGED <<enabled, range, presenceVars, rowVars, socketVars, changes>>
      /\ Listening' = Listening /\ Starting' = Starting
      BY DEF StopService, socketVars, Listening, Starting
<1>2. stopping'["change"] = stopping["change"] /\ stopping'["handover"] = stopping["handover"]
  <2>1. "stop" \in Callers /\ {"change", "handover"} = Callers \ {"stop"}
        /\ Listening \cup Starting \in SUBSET Droids
        BY DEF Callers, Listening, Starting
  <2> QED
      BY <2>1, StopsTyped DEF StopService
<1>3. (BindsItsRow /\ StartsOnce)'
      BY <1>1 DEF ServeInv, BindsItsRow, StartsOnce, presenceVars, rowVars, socketVars
<1>4. (ServesItsRow /\ HandoverTakesRow)'
      BY <1>1, <1>2 DEF ServeInv, ServesItsRow, HandoverTakesRow, StartsOnce, TrackedKept, rowVars,
                        socketVars
<1>5. (StopHasReason /\ RebindStopsAll /\ OffIsOff /\ OrphansStay)'
      BY <1>1, <1>2 DEF ServeInv, StopHasReason, RebindStopsAll, OffIsOff, OrphansStay, Restarts,
                  Rebinds, Releases, Forgotten, Current, rowVars
<1>6. (Edits(changes) /\ ComesUp)'
      BY <1>1 DEF ServeInv, ComesUp, NotServed, Edits
<1> QED
    BY <1>3, <1>4, <1>5, <1>6 DEF ServeInv

\* The steps of startDevice, listenFor and stopDevice leave the queue alone.
LEMMA QueueSame ==
    ASSUME ListenersInv, ServeInv, UNCHANGED <<changes, enabled>>
    PROVE  /\ \A d \in Droids : (Restarts(d)' <=> Restarts(d)) /\ (Coming(d)' <=> Coming(d))
           /\ Rebinds' <=> Rebinds
           /\ (OffIsOff /\ Edits(changes))' /\ Current' = Current
           /\ Releases' <=> Releases
    BY DEF ServeInv, Restarts, Coming, Rebinds, OffIsOff, Releases, Edits, Tells, Current

\* An allocation for the device d: d gets a row, or others lose theirs.
LEMMA AllocationServes ==
    ASSUME ListenersInv, ServeInv, TrackedKept, NEW d \in Droids,
           starting[d].stage \in {"row", "handover"},
           UNCHANGED <<settingVars, presenceVars, proxied, socket, at, changes>>,
           NEW r \in StartRecords, starting' = [starting EXCEPT ![d] = r],
           \/ r = NotStarting /\ (failure'[d] # "none" \/ ~proxied[d])
           \/ r.stage = "handover"
           \/ r.stage = "binding" /\ r.port \in Nat /\ row'[d] = r.port,
           row'[d] = row[d] \/ row[d] = Nothing,
           \A o \in Droids \ {d} : row'[o] = row[o] \/ row'[o] = Nothing,
           \A o \in Droids \ {d} : failure'[o] = failure[o],
           stopping'["change"] = stopping["change"],
           \A o \in Droids : stopping'["handover"][o] # "none" => row'[o] = Nothing
    PROVE  ServeInv'
<1>1. /\ \A o \in Droids \ {d} : starting'[o] = starting[o]
      /\ starting'[d] = r /\ d \in Starting /\ UNCHANGED <<enabled, serving, onl>>
      BY DEF ListenersInv, StageTypes, Starting, NotStarting, settingVars, presenceVars
<1>2. /\ Listening' = Listening /\ Starting' \subseteq Starting
      /\ \A o \in Droids \ {d} : o \in Starting' <=> o \in Starting
      /\ d \notin Listening /\ Starting # {}
      BY <1>1 DEF ServeInv, StartsOnce, Listening, Starting
<1>3. BindsItsRow'
      BY <1>1 DEF ServeInv, BindsItsRow, NotStarting
<1>4. ServesItsRow'
      BY <1>2 DEF ServeInv, ServesItsRow, StartsOnce, TrackedKept, Listening
<1>5. (StartsOnce /\ HandoverTakesRow)'
      BY <1>2 DEF ServeInv, StartsOnce, HandoverTakesRow
<1>6. /\ \A o \in Droids : (Restarts(o)' <=> Restarts(o)) /\ (Coming(o)' <=> Coming(o))
      /\ Rebinds' <=> Rebinds
      /\ (OffIsOff /\ Edits(changes))'
      /\ Releases' <=> Releases
      BY <1>1, QueueSame
<1>7. ~Rebinds /\ ~Releases
      BY <1>2 DEF ServeInv, RebindStopsAll, OrphansStay
<1>8. RebindStopsAll' /\ OrphansStay'
      BY <1>6, <1>7 DEF RebindStopsAll, OrphansStay
<1>9. StopHasReason'
      BY <1>1, <1>6, <1>7 DEF ServeInv, StopHasReason
<1>10. ASSUME NEW o \in Tracked', NotServed(o)'
       PROVE  Coming(o)'
  <2>1. o \in Droids /\ o \notin Starting' /\ row'[o] # Nothing
        BY <1>10 DEF NotServed, Tracked
  <2>2. o # d
    <3>1. SUFFICES ASSUME o = d PROVE FALSE
          OBVIOUS
    <3>2. r = NotStarting
          BY <1>1, <2>1, <3>1 DEF Starting
    <3> QED
        BY <1>10, <3>1, <3>2 DEF NotServed, NotStarting
  <2>3. o \in Tracked /\ row'[o] = row[o]
        BY <1>2, <1>10, <2>1, <2>2, StillTracked
  <2>4. NotServed(o)
        BY <1>1, <1>2, <1>10, <2>1, <2>2, <2>3 DEF NotServed
  <2> QED
      BY <1>6, <2>1, <2>3, <2>4 DEF ServeInv, ComesUp
<1>11. ComesUp'
      BY <1>10 DEF ComesUp
<1> QED
    BY <1>3, <1>4, <1>5, <1>6, <1>8, <1>9, <1>11 DEF ServeInv

LEMMA RowFoundBinds ==
    ASSUME ListenersInv, NEW d \in Droids, RowFound(d), row'[d] \in Nat
    PROVE  \E r \in StartRecords :
             /\ starting' = [starting EXCEPT ![d] = r]
             /\ \/ r = NotStarting /\ (failure'[d] # "none" \/ ~proxied[d])
                \/ r.stage = "binding" /\ r.port \in Nat /\ row'[d] = r.port
             /\ \A o \in Droids \ {d} : failure'[o] = failure[o]
<1>1. CASE proxied[d]
  <2>1. /\ At("binding", row'[d]) \in StartRecords /\ At("binding", row'[d]).stage = "binding"
        /\ At("binding", row'[d]).port = row'[d]
        BY DEF At, StartRecords, StartStages, Ports
  <2>2. starting' = [starting EXCEPT ![d] = At("binding", row'[d])] /\ failure' = failure
        BY <1>1 DEF RowFound
  <2> QED
      BY <2>1, <2>2
<1>2. CASE ~proxied[d]
      BY <1>2, RowStage DEF RowFound, NoRow, ListenersInv, ServiceTypeOK
<1> QED
    BY <1>1, <1>2

LEMMA NoRowFails ==
    ASSUME ListenersInv, NEW d \in Droids, NEW why \in {"range-full", "error"}, NoRow(d, why)
    PROVE  /\ NotStarting \in StartRecords /\ starting' = [starting EXCEPT ![d] = NotStarting]
           /\ failure'[d] # "none"
           /\ \A o \in Droids \ {d} : failure'[o] = failure[o]
    BY RowStage DEF NoRow, ListenersInv, ServiceTypeOK

LEMMA RowIsPort ==
    ASSUME ListenersInv, NEW d \in Droids, row[d] # Nothing
    PROVE  row[d] \in Nat
    BY DEF ListenersInv, ServiceTypeOK

LEMMA NewRowIsPort ==
    ASSUME ListenersInv, NEW d \in Droids, NewRow(d), Free # {}
    PROVE  row'[d] \in Nat /\ \A o \in Droids \ {d} : row'[o] = row[o]
    BY FreeIsPorts DEF ListenersInv, ServiceTypeOK, NewRow

\* An allocation with no device to hand over.
LEMMA AllocatedServes ==
    ASSUME ListenersInv, ServeInv, TrackedKept, NEW d \in Droids,
           starting[d].stage \in {"row", "handover"},
           UNCHANGED <<settingVars, presenceVars, proxied, socket, at, stopping, changes>>, HandedOver,
           \/ row[d] # Nothing /\ UNCHANGED rowVars /\ RowFound(d)
           \/ row[d] = Nothing /\ Free # {} /\ NewRow(d) /\ RowFound(d)
           \/ UNCHANGED rowVars /\ (NoRow(d, "error") \/ NoRow(d, "range-full"))
    PROVE  ServeInv'
<1>1. \A o \in Droids : stopping'["handover"][o] = "none"
      BY DEF HandedOver
<1>2. /\ row' \in [Droids -> Ports] /\ \A o \in Droids \ {d} : row'[o] = row[o]
      /\ (row'[d] = row[d] \/ row[d] = Nothing)
      BY NewRowIsPort, NewRowAllocates, SameRowAllocates DEF rowVars, Allocates
<1>3. PICK r \in StartRecords :
         /\ starting' = [starting EXCEPT ![d] = r]
         /\ \/ r = NotStarting /\ (failure'[d] # "none" \/ ~proxied[d])
            \/ r.stage = "binding" /\ r.port \in Nat /\ row'[d] = r.port
         /\ \A o \in Droids \ {d} : failure'[o] = failure[o]
  <2>1. CASE row[d] # Nothing /\ UNCHANGED rowVars /\ RowFound(d)
        BY <2>1, RowIsPort, RowFoundBinds DEF rowVars
  <2>2. CASE Free # {} /\ NewRow(d) /\ RowFound(d)
        BY <2>2, NewRowIsPort, RowFoundBinds
  <2>3. CASE NoRow(d, "error") \/ NoRow(d, "range-full")
        BY <2>3, NoRowFails
  <2> QED
      BY <2>1, <2>2, <2>3
<1>4. /\ \A o \in Droids \ {d} : row'[o] = row[o] \/ row'[o] = Nothing
      /\ stopping'["change"] = stopping["change"]
      /\ \A o \in Droids : stopping'["handover"][o] # "none" => row'[o] = Nothing
      BY <1>1, <1>2
<1>5. /\ \/ r = NotStarting /\ (failure'[d] # "none" \/ ~proxied[d])
         \/ r.stage = "handover"
         \/ r.stage = "binding" /\ r.port \in Nat /\ row'[d] = r.port
      /\ starting' = [starting EXCEPT ![d] = r]
      /\ \A o \in Droids \ {d} : failure'[o] = failure[o]
      /\ UNCHANGED <<settingVars, presenceVars, proxied, socket, at, changes>>
      BY <1>3
<1>6. row'[d] = row[d] \/ row[d] = Nothing
      BY <1>2
<1> QED
    BY <1>4, <1>5, <1>6, AllocationServes

\* reclaimStalest takes rows of devices that are not listed.
LEMMA ReclaimedRow ==
    ASSUME ListenersInv, ServeInv, NEW v \in Reclaimable, Reclaim(v)
    PROVE  /\ v \in Droids /\ v \notin onl /\ v \notin Starting /\ row'[v] = Nothing
           /\ \A o \in Droids \ {v} : row'[o] = row[o]
           /\ stopping' \in [Callers -> [Droids -> {"none", "waits", "closing"}]]
           /\ stopping'["stop"] = stopping["stop"] /\ stopping'["change"] = stopping["change"]
           /\ \A o \in Droids \ {v} : stopping'["handover"][o] = stopping["handover"][o]
<1>1. v \in Droids /\ v \notin onl /\ v \notin Starting
      BY DEF Reclaimable
<1>2. "handover" \in Callers /\ {v} \in SUBSET Droids /\ {"change", "stop"} = Callers \ {"handover"}
      BY <1>1 DEF Callers
<1>3. /\ stopping' \in [Callers -> [Droids -> {"none", "waits", "closing"}]]
      /\ stopping'["stop"] = stopping["stop"] /\ stopping'["change"] = stopping["change"]
      /\ \A o \in Droids \ {v} : stopping'["handover"][o] = stopping["handover"][o]
      BY <1>2, StopsTyped DEF Reclaim
<1> QED
    BY <1>1, <1>3 DEF ListenersInv, ServiceTypeOK, Reclaim

LEMMA EnsureRowServes ==
    ASSUME ListenersInv, ServeInv, TrackedKept, NEW d \in Droids, EnsureRow(d)
    PROVE  ServeInv'
<1>1. /\ starting[d].stage = "row" /\ HandedOver
      /\ UNCHANGED <<settingVars, presenceVars, socket, at, changes>>
      BY DEF EnsureRow
<1>2. CASE \/ row[d] # Nothing /\ UNCHANGED <<rowVars, stopping>> /\ RowFound(d)
           \/ row[d] = Nothing /\ Free # {} /\ NewRow(d) /\ UNCHANGED stopping /\ RowFound(d)
           \/ UNCHANGED <<rowVars, stopping>> /\ (NoRow(d, "error") \/ NoRow(d, "range-full"))
  <2>1. UNCHANGED <<stopping, proxied>>
        BY <1>2 DEF rowVars, NewRow
  <2> QED
      BY <1>1, <1>2, <2>1, AllocatedServes
<1>3. CASE \E v \in Reclaimable : /\ Reclaim(v) /\ UNCHANGED <<proxied, failure>>
                                  /\ starting' = [starting EXCEPT ![d] = At("handover", Nothing)]
  <2>1. PICK v \in Reclaimable : Reclaim(v)
        BY <1>3
  <2>2. At("handover", Nothing) \in StartRecords /\ At("handover", Nothing).stage = "handover"
        BY DEF At, StartRecords, StartStages, Ports
  <2>3. d \in Starting
        BY <1>1 DEF Starting, NotStarting
  <2>4. /\ v \in Droids /\ v # d /\ row'[v] = Nothing
        /\ \A o \in Droids \ {v} : row'[o] = row[o]
        /\ stopping'["change"] = stopping["change"]
        /\ \A o \in Droids \ {v} : stopping'["handover"][o] = stopping["handover"][o]
        BY <2>1, <2>3, ReclaimedRow
  <2>5. \A o \in Droids : stopping'["handover"][o] # "none" => row'[o] = Nothing
        BY <1>1, <2>4 DEF HandedOver
  <2>6. /\ row'[d] = row[d]
        /\ \A o \in Droids \ {d} : row'[o] = row[o] \/ row'[o] = Nothing
        /\ \A o \in Droids \ {d} : failure'[o] = failure[o]
        /\ starting[d].stage \in {"row", "handover"}
        /\ starting' = [starting EXCEPT ![d] = At("handover", Nothing)]
        /\ UNCHANGED <<settingVars, presenceVars, proxied, socket, at, changes>>
        BY <1>1, <1>3, <2>4
  <2> QED
      BY <2>2, <2>4, <2>5, <2>6, AllocationServes
<1> QED
    BY <1>2, <1>3 DEF EnsureRow

LEMMA HandoverEndsServes ==
    ASSUME ListenersInv, ServeInv, TrackedKept, NEW d \in Droids, HandoverEnds(d)
    PROVE  ServeInv'
<1>1. /\ starting[d].stage = "handover" /\ HandedOver
      /\ UNCHANGED <<settingVars, presenceVars, socket, at, stopping, changes>>
      BY DEF HandoverEnds
<1>2. \/ row[d] # Nothing /\ UNCHANGED rowVars /\ RowFound(d)
      \/ row[d] = Nothing /\ Free # {} /\ NewRow(d) /\ RowFound(d)
      \/ UNCHANGED rowVars /\ (NoRow(d, "error") \/ NoRow(d, "range-full"))
      BY DEF HandoverEnds
<1>3. UNCHANGED proxied
      BY <1>2 DEF rowVars, NewRow
<1> QED
    BY <1>1, <1>2, <1>3, AllocatedServes

\* The parts that speak of the queue stay when the sockets change, as long as no
\* stop begins.
LEMMA SocketStepSays ==
    ASSUME ListenersInv, ServeInv, UNCHANGED <<enabled, row, changes>>, Starting' \subseteq Starting,
           \A d \in Droids : stopping'["change"][d] = "waits" => stopping["change"][d] = "waits",
           Rebinds => \A d \in Listening' : d \in Listening /\ stopping'["change"][d] = "waits"
    PROVE  (StopHasReason /\ RebindStopsAll /\ OffIsOff /\ OrphansStay /\ Edits(changes))'
<1>1. /\ \A d \in Droids : (Restarts(d)' <=> Restarts(d))
      /\ (Rebinds' <=> Rebinds) /\ (Releases' <=> Releases)
      /\ (OffIsOff /\ Edits(changes))' /\ Current' = Current
      BY QueueSame
<1>2. StopHasReason'
      BY <1>1 DEF ServeInv, StopHasReason, Forgotten
<1>3. RebindStopsAll' /\ OrphansStay'
      BY <1>1 DEF ServeInv, RebindStopsAll, OrphansStay, Forgotten
<1> QED
    BY <1>1, <1>2, <1>3

LEMMA BindSucceedsServes ==
    ASSUME ListenersInv, ServeInv, TrackedKept, NEW d \in Droids, BindSucceeds(d)
    PROVE  ServeInv'
<1>1. /\ UNCHANGED <<settingVars, presenceVars, rowVars, stopping, changes>>
      /\ at' = [at EXCEPT ![d] = starting[d].port] /\ starting[d].stage = "binding"
      /\ UNCHANGED <<enabled, serving, row, proxied, onl, present, known>>
      BY DEF BindSucceeds, settingVars, rowVars, presenceVars
<1>2. \E next \in {"bound", "closing"}, r \in {NotStarting, At("undo", Nothing)} :
         /\ socket' = [socket EXCEPT ![d] = next] /\ starting' = [starting EXCEPT ![d] = r]
         /\ next = "bound" => r = NotStarting
         /\ next = "closing" => r = At("undo", Nothing) /\ ~(serving /\ enabled)
      BY DEF BindSucceeds, NoRow
<1>3. /\ \A o \in Droids \ {d} : /\ socket'[o] = socket[o] /\ starting'[o] = starting[o]
                                 /\ at'[o] = at[o]
      /\ at'[d] = starting[d].port /\ starting'[d].stage # "binding"
      /\ \/ socket'[d] = "bound" /\ starting'[d] = NotStarting
         \/ socket'[d] = "closing" /\ ~(serving /\ enabled)
      /\ d \in Starting
      BY <1>1, <1>2 DEF ListenersInv, ServiceTypeOK, StageTypes, NotStarting, At, Starting
<1>4. /\ Listening' \ {d} = Listening \ {d} /\ Starting' \ {d} = Starting \ {d} /\ d \notin Listening
      /\ ~(d \in Listening' /\ d \in Starting') /\ Starting' \subseteq Starting
      /\ serving /\ enabled => d \in Listening'
      BY <1>3 DEF Listening, Starting, ServeInv, StartsOnce
<1>5. starting[d].port \in Nat /\ row[d] \in {starting[d].port, Nothing}
      BY <1>1 DEF ServeInv, BindsItsRow
<1>6. BindsItsRow'
      BY <1>1, <1>3, <1>4 DEF ServeInv, BindsItsRow
<1>7. (ServesItsRow /\ StartsOnce /\ HandoverTakesRow)'
      BY <1>1, <1>3, <1>4, <1>5 DEF ServeInv, ServesItsRow, StartsOnce, HandoverTakesRow, TrackedKept
<1>8. (StopHasReason /\ RebindStopsAll /\ OffIsOff /\ OrphansStay /\ Edits(changes))'
  <2>1. ~Rebinds
        BY <1>3 DEF ServeInv, RebindStopsAll
  <2> QED
      BY <1>1, <1>4, <2>1, SocketStepSays
<1>9. \A o \in Droids \ {d} : failure'[o] = failure[o]
      BY DEF BindSucceeds, NoRow, ListenersInv, ServiceTypeOK
<1>10. ASSUME NEW o \in Tracked', NotServed(o)'
       PROVE  Coming(o)'
  <2>1. o # d /\ o \in Droids
        BY <1>1, <1>4, <1>10 DEF NotServed, Tracked
  <2>2. o \in Tracked
        BY <1>4, <1>10, <2>1, StillTracked DEF NotServed
  <2>3. NotServed(o)
        BY <1>1, <1>4, <1>9, <1>10, <2>1 DEF NotServed
  <2> QED
      BY <1>1, <2>1, <2>2, <2>3, QueueSame DEF ServeInv, ComesUp
<1>11. ComesUp'
       BY <1>10 DEF ComesUp
<1> QED
    BY <1>6, <1>7, <1>8, <1>11 DEF ServeInv

LEMMA BindFailsServes ==
    ASSUME ListenersInv, ServeInv, TrackedKept, NEW d \in Droids, BindFails(d)
    PROVE  ServeInv'
<1>1. /\ UNCHANGED <<settingVars, presenceVars, rowVars, socket, at, stopping, changes>>
      /\ UNCHANGED <<enabled, serving, row, proxied, onl, present, known>>
      BY DEF BindFails, settingVars, rowVars, presenceVars
<1>2. /\ \A o \in Droids \ {d} : starting'[o] = starting[o] /\ failure'[o] = failure[o]
      /\ starting'[d] = NotStarting /\ failure'[d] # "none" /\ NotStarting.stage = "none"
      BY DEF BindFails, NoRow, ListenersInv, ServiceTypeOK, StageTypes, NotStarting
<1>3. /\ Listening' = Listening /\ Starting' = Starting \ {d}
      BY <1>1, <1>2 DEF Listening, Starting
<1>4. (BindsItsRow /\ ServesItsRow /\ StartsOnce /\ HandoverTakesRow)'
      BY <1>1, <1>2, <1>3 DEF ServeInv, BindsItsRow, ServesItsRow, StartsOnce,
                              HandoverTakesRow, TrackedKept
<1>5. (StopHasReason /\ RebindStopsAll /\ OffIsOff /\ OrphansStay /\ Edits(changes))'
      BY <1>1, <1>3, SocketStepSays DEF ServeInv, RebindStopsAll
<1>6. ASSUME NEW o \in Tracked', NotServed(o)'
      PROVE  Coming(o)'
  <2>1. o # d /\ o \in Droids /\ NotServed(o)
        BY <1>1, <1>2, <1>3, <1>6 DEF NotServed, Tracked
  <2>2. o \in Tracked
        BY <1>3, <1>6, <2>1, StillTracked DEF NotServed
  <2> QED
      BY <1>1, <2>1, <2>2, QueueSame DEF ServeInv, ComesUp
<1>7. ComesUp'
      BY <1>6 DEF ComesUp
<1> QED
    BY <1>4, <1>5, <1>7 DEF ServeInv

LEMMA StopProceedsServes ==
    ASSUME ListenersInv, ServeInv, TrackedKept, NEW d \in Droids, NEW w \in Callers,
           StopProceeds(w, d)
    PROVE  ServeInv'
<1> DEFINE next == IF d \in Listening THEN "closing" ELSE "none"
<1>1. /\ UNCHANGED <<settingVars, presenceVars, rowVars, at, starting, changes>>
      /\ UNCHANGED <<enabled, serving, row, proxied, onl, present, known>>
      /\ stopping[w][d] = "waits" /\ failure' = [failure EXCEPT ![d] = "none"]
      /\ socket' = [socket EXCEPT ![d] = IF @ = "bound" THEN "closing" ELSE @]
      /\ stopping' = [stopping EXCEPT ![w][d] = next] /\ next \in {"none", "closing"}
      BY DEF StopProceeds, settingVars, rowVars, presenceVars
<1> HIDE DEF next
<1>2. /\ \A o \in Droids \ {d} : socket'[o] = socket[o] /\ failure'[o] = failure[o]
      /\ socket'[d] # "bound"
      /\ \A u \in Callers, o \in Droids :
            stopping'[u][o] = IF u = w /\ o = d THEN next ELSE stopping[u][o]
      BY <1>1 DEF ListenersInv, ServiceTypeOK, StageTypes
<1>3. Listening' = Listening \ {d} /\ Starting' = Starting
      BY <1>1, <1>2 DEF Listening, Starting
<1>4. /\ \A o \in Droids : stopping'["change"][o] = "waits" => stopping["change"][o] = "waits"
      /\ \A o \in Droids \ {d} : stopping'["change"][o] = stopping["change"][o]
      /\ \A o \in Droids : stopping'["handover"][o] # "none" => stopping["handover"][o] # "none"
      BY <1>1, <1>2 DEF Callers
<1>5. BindsItsRow'
      BY <1>1, <1>3 DEF ServeInv, BindsItsRow
<1>6. (ServesItsRow /\ StartsOnce /\ HandoverTakesRow)'
  <2>1. \A o \in Listening' : o \in Listening /\ o \in Droids \ {d}
        BY <1>3 DEF Listening
  <2> QED
      BY <1>1, <1>3, <1>4, <2>1 DEF ServeInv, ServesItsRow, StartsOnce, HandoverTakesRow, TrackedKept
<1>7. (StopHasReason /\ RebindStopsAll /\ OffIsOff /\ OrphansStay /\ Edits(changes))'
  <2>1. Rebinds => \A o \in Listening' : o \in Listening /\ stopping'["change"][o] = "waits"
        BY <1>3, <1>4 DEF ServeInv, RebindStopsAll, Listening
  <2> QED
      BY <1>1, <1>3, <1>4, <2>1, SocketStepSays
<1>8. serving /\ enabled /\ row[d] # Nothing => Restarts(d) \/ Rebinds
  <2>1. CASE w = "change"
        BY <1>1, <2>1 DEF ServeInv, StopHasReason, Forgotten
  <2>2. CASE w = "handover"
        BY <1>1, <2>2 DEF ServeInv, HandoverTakesRow
  <2>3. CASE w = "stop"
        BY <1>1, <2>3 DEF ListenersInv, NoStopYet
  <2> QED
      BY <2>1, <2>2, <2>3 DEF Callers
<1>9. ASSUME NEW o \in Tracked', NotServed(o)'
      PROVE  Coming(o)'
  <2>1. o \in Droids /\ o \in Tracked
        BY <1>3, <1>9, StillTracked DEF NotServed
  <2>2. CASE o = d
    <3>1. Coming(o)
          BY <1>1, <1>8, <1>9, <2>2 DEF NotServed, Coming
    <3> QED
        BY <1>1, <2>1, <3>1, QueueSame
  <2>3. CASE o # d
    <3>1. NotServed(o)
          BY <1>1, <1>2, <1>3, <1>9, <2>1, <2>3 DEF NotServed
    <3> QED
        BY <1>1, <2>1, <3>1, QueueSame DEF ServeInv, ComesUp
  <2> QED
      BY <2>2, <2>3
<1>10. ComesUp'
       BY <1>9 DEF ComesUp
<1> QED
    BY <1>5, <1>6, <1>7, <1>10 DEF ServeInv

LEMMA SocketClosedServes ==
    ASSUME ListenersInv, ServeInv, TrackedKept, NEW d \in Droids, SocketClosed(d)
    PROVE  ServeInv'
<1>1. /\ UNCHANGED <<settingVars, presenceVars, rowVars, failure, changes>>
      /\ UNCHANGED <<enabled, serving, row, proxied, onl, present, known>>
      BY DEF SocketClosed, settingVars, rowVars, presenceVars
<1>2. /\ \A o \in Droids \ {d} : /\ socket'[o] = socket[o] /\ at'[o] = at[o]
                                 /\ starting'[o] = starting[o]
      /\ socket[d] = "closing" /\ socket'[d] = "none"
      /\ starting'[d] = IF starting[d].stage = "undo" THEN NotStarting ELSE starting[d]
      BY DEF SocketClosed, ListenersInv, ServiceTypeOK, StageTypes
<1>3. \A u \in Callers, o \in Droids :
         stopping'[u][o] = IF o = d /\ stopping[u][o] = "closing" THEN "none" ELSE stopping[u][o]
      BY DEF SocketClosed, ListenersInv, StageTypes
<1>4. /\ \A o \in Droids : stopping'["change"][o] = "waits" => stopping["change"][o] = "waits"
      /\ \A o \in Droids : stopping["change"][o] = "waits" => stopping'["change"][o] = "waits"
      /\ \A o \in Droids : stopping'["handover"][o] # "none" => stopping["handover"][o] # "none"
      BY <1>3 DEF Callers
<1>5. /\ Listening' = Listening /\ Starting' \subseteq Starting /\ d \notin Listening
      /\ \A o \in Droids : o \in Starting /\ o \notin Starting' => starting[o].stage = "undo"
      BY <1>2 DEF Listening, Starting, NotStarting
<1>6. BindsItsRow'
      BY <1>1, <1>2, <1>5 DEF ServeInv, BindsItsRow, NotStarting
<1>7. (ServesItsRow /\ StartsOnce /\ HandoverTakesRow)'
  <2>1. SUFFICES ASSUME NEW o \in Tracked', o \in Listening', row'[o] # Nothing
                 PROVE  at'[o] = row'[o] \/ stopping'["change"][o] = "waits"
        BY <1>1, <1>4, <1>5 DEF ServeInv, ServesItsRow, StartsOnce, HandoverTakesRow
  <2>2. o \in Droids /\ o \in Tracked /\ row[o] # Nothing /\ o # d
        BY <1>5, <2>1, StillTracked DEF ServeInv, StartsOnce
  <2> QED
      BY <1>1, <1>2, <1>4, <1>5, <2>1, <2>2 DEF ServeInv, ServesItsRow
<1>8. (StopHasReason /\ RebindStopsAll /\ OffIsOff /\ OrphansStay /\ Edits(changes))'
  <2>1. Rebinds => \A o \in Listening' : o \in Listening /\ stopping'["change"][o] = "waits"
        BY <1>4, <1>5 DEF ServeInv, RebindStopsAll, Listening
  <2> QED
      BY <1>1, <1>4, <1>5, <2>1, SocketStepSays
<1>9. ASSUME NEW o \in Tracked', NotServed(o)'
      PROVE  Coming(o)'
  <2>1. o \in Droids /\ serving /\ enabled
        BY <1>1, <1>9 DEF Tracked, NotServed
  <2>2. o \notin Starting
        BY <1>5, <1>9, <2>1 DEF NotServed, ListenersInv, UndoneWhenOff
  <2>3. NotServed(o) /\ o \in Tracked
        BY <1>1, <1>5, <1>9, <2>2, StillTracked DEF NotServed
  <2> QED
      BY <1>1, <2>1, <2>3, QueueSame DEF ServeInv, ComesUp
<1>10. ComesUp'
       BY <1>9 DEF ComesUp
<1> QED
    BY <1>6, <1>7, <1>8, <1>10 DEF ServeInv

-----------------------------------------------------------------------------
(* The changes.                                                            *)

\* A change acts when no listener starts and none that a change stops is open.
LEMMA ChangeServes ==
    ASSUME ListenersInv, ServeInv, TrackedKept, AtRest,
           UNCHANGED <<serving, present, known, rowVars, socket, at>>,
           stopping'["handover"] = stopping["handover"],
           \A d \in Droids : \/ starting'[d] = NotStarting
                             \/ starting'[d].stage = "row" /\ d \notin Listening,
           StopHasReason', RebindStopsAll', OffIsOff', OrphansStay', Edits(changes'), ComesUp'
    PROVE  ServeInv'
<1>1. /\ Listening' = Listening /\ NotStarting.stage = "none" /\ UNCHANGED <<row, proxied>>
      /\ \A d \in Droids : starting'[d].stage # "binding"
      BY DEF Listening, NotStarting, rowVars
<1>2. BindsItsRow'
      BY <1>1 DEF ServeInv, BindsItsRow
<1>3. ServesItsRow'
      BY <1>1, WhenAtRest DEF ServeInv, ServesItsRow, TrackedKept, Starting
<1>4. (StartsOnce /\ HandoverTakesRow)'
      BY <1>1 DEF ServeInv, StartsOnce, HandoverTakesRow, Starting
<1> QED
    BY <1>2, <1>3, <1>4 DEF ServeInv, Edits

\* A device that is asked to start does so, or has neither a row nor a device row.
LEMMA StartsAsked ==
    ASSUME ListenersInv, ServeInv, AtRest, NEW S, NEW on \in BOOLEAN, Starts(S, on),
           UNCHANGED <<serving, row, known, socket>>
    PROVE  /\ \A d \in Droids : \/ starting'[d] = NotStarting
                                \/ starting'[d].stage = "row" /\ d \notin Listening
           /\ \A d \in Droids \ S : failure'[d] = failure[d]
           /\ on => \A d \in S \cap Droids : ~NotServed(d)'
<1>1. Starting = {} /\ Listening' = Listening /\ \A d \in Droids : starting[d] = NotStarting
      BY WhenAtRest DEF Listening
<1> DEFINE wanted == {d \in S : serving /\ on /\ d \notin Listening \cup Starting}
           asks == {d \in wanted : d \notin Rowless \/ d \in known}
<1>2. /\ starting' = [d \in Droids |-> IF d \in asks THEN At("row", Nothing) ELSE starting[d]]
      /\ failure' = [d \in Droids |-> IF d \in wanted \ asks THEN "none" ELSE failure[d]]
      BY DEF Starts
<1>3. \A d \in asks : d \notin Listening /\ d \in S
      OBVIOUS
<1>4. \A d \in wanted : d \in S
      OBVIOUS
<1>5. ASSUME on, NEW d \in S \cap Droids, NotServed(d)'
      PROVE  FALSE
  <2>1. /\ serving /\ d \in Droids /\ d \notin Listening /\ d \notin Starting'
        /\ row[d] # Nothing
        BY <1>1, <1>5 DEF NotServed, ListenersInv, ServiceTypeOK
  <2>2. d \notin Rowless
        BY <2>1 DEF Rowless
  <2>3. d \in asks
        BY <1>1, <1>5, <2>1, <2>2
  <2>4. starting'[d] = At("row", Nothing)
        BY <1>2, <2>1, <2>3
  <2> QED
      BY <2>1, <2>4 DEF Starting, At, NotStarting
<1> HIDE DEF asks, wanted
<1> QED
    BY <1>1, <1>2, <1>3, <1>4, <1>5, RowStage

\* A change that starts the devices of S and goes on with its next stage.
LEMMA StartingServes ==
    ASSUME ListenersInv, ServeInv, TrackedKept, AtRest, changes # <<>>, Current.stage # "stop",
           NEW S, Starts(S, enabled),
           \A d \in Droids : Restarts(d) \/ (Current.kind = "online" /\ Current.dev = d) => d \in S,
           NEW stage \in ChangeStages \ {"stop", "restart", "orphans"}, NEW left \in SUBSET Droids,
           changes' = Stage(changes, stage, left),
           UNCHANGED <<enabled, serving, presenceVars, rowVars, socket, at, stopping>>
    PROVE  ServeInv'
<1>1. UNCHANGED <<row, proxied, present, onl, known>> /\ enabled \in BOOLEAN
      BY DEF rowVars, presenceVars, ListenersInv, ServiceTypeOK
<1>2. /\ \A d \in Droids : \/ starting'[d] = NotStarting
                           \/ starting'[d].stage = "row" /\ d \notin Listening
      /\ \A d \in Droids \ S : failure'[d] = failure[d]
      /\ enabled => \A d \in S \cap Droids : ~NotServed(d)'
      BY <1>1, StartsAsked
<1>3. /\ Edits(changes') /\ changes' # <<>>
      /\ Head(changes').kind = Current.kind /\ Head(changes').stage = stage
      /\ \A d \in Droids : Tells(changes, d) /\ d \notin S => Tells(changes', d)
      BY QueueStaged, StageTells DEF ListenersInv, ServeInv, Current
<1>4. (StopHasReason /\ RebindStopsAll /\ OffIsOff /\ OrphansStay)'
      BY <1>3, WhenAtRest
      DEF StopHasReason, RebindStopsAll, OffIsOff, OrphansStay, Rebinds, Releases, Current
<1>5. ASSUME NEW d \in Tracked', NotServed(d)'
      PROVE  Coming(d)'
  <2>1. d \in Droids /\ d \notin S
        BY <1>1, <1>2, <1>5 DEF Tracked, NotServed
  <2>2. NotServed(d) /\ d \in Tracked
        BY <1>1, <1>2, <1>5, <2>1, WhenAtRest, StillTracked DEF NotServed, Listening
  <2>3. Tells(changes, d)
        BY <2>1, <2>2 DEF ServeInv, ComesUp, Coming, Rebinds
  <2> QED
      BY <1>3, <2>1, <2>3 DEF Coming
<1>6. ComesUp'
      BY <1>5 DEF ComesUp
<1>7. /\ UNCHANGED <<serving, present, known, rowVars, socket, at>>
      /\ stopping'["handover"] = stopping["handover"]
      BY <1>1
<1> QED
    BY <1>2, <1>3, <1>4, <1>6, <1>7, ChangeServes DEF Edits

LEMMA NewRangeServes ==
    ASSUME ListenersInv, ServeInv, TrackedKept, NewRange
    PROVE  ServeInv'
<1> DEFINE S == IF range' # range THEN onl ELSE {}
<1>1. /\ AtRest /\ changes # <<>> /\ Current.kind = "range" /\ Current.stage = "queued"
      /\ Starts(S, enabled) /\ changes' = Stage(changes, "start", {})
      /\ UNCHANGED <<enabled, serving, presenceVars, rowVars, socket, at, stopping>>
      BY DEF NewRange, Turn
<1>2. \A d \in Droids : ~(Restarts(d) \/ (Current.kind = "online" /\ Current.dev = d))
      BY <1>1 DEF Restarts
<1> HIDE DEF S
<1> QED
    BY <1>1, <1>2, StartingServes DEF ChangeStages

LEMMA OnlineChangeServes ==
    ASSUME ListenersInv, ServeInv, TrackedKept, OnlineChange
    PROVE  ServeInv'
<1>1. /\ AtRest /\ changes # <<>> /\ Current.kind = "online" /\ Current.stage = "queued"
      /\ Starts({Current.dev}, enabled) /\ changes' = Stage(changes, "start", {})
      /\ UNCHANGED <<enabled, serving, presenceVars, rowVars, socket, at, stopping>>
      BY DEF OnlineChange, Turn, settingVars
<1>2. \A d \in Droids : Restarts(d) \/ (Current.kind = "online" /\ Current.dev = d)
                           => d \in {Current.dev}
      BY DEF Restarts
<1> QED
    BY <1>1, <1>2, StartingServes DEF ChangeStages

LEMMA DeviceRestartServes ==
    ASSUME ListenersInv, ServeInv, TrackedKept, DeviceRestart
    PROVE  ServeInv'
<1>1. /\ AtRest /\ changes # <<>> /\ Current.stage = "restart"
      /\ Starts({Current.dev}, enabled) /\ changes' = Stage(changes, "start", {})
      /\ UNCHANGED <<enabled, serving, presenceVars, rowVars, socket, at, stopping>>
      BY DEF DeviceRestart, Turn, settingVars
<1>2. \A d \in Droids : Restarts(d) \/ (Current.kind = "online" /\ Current.dev = d)
                           => d \in {Current.dev}
      BY DEF Restarts
<1> QED
    BY <1>1, <1>2, StartingServes DEF ChangeStages

LEMMA TurnOffServes ==
    ASSUME ListenersInv, ServeInv, TrackedKept, TurnOff
    PROVE  ServeInv'
<1> DEFINE S == IF enabled THEN Listening \cup Starting ELSE {}
           stage == IF enabled THEN "stop" ELSE "start"
<1>1. /\ AtRest /\ changes # <<>> /\ enabled' = FALSE /\ Stops("change", S)
      /\ UNCHANGED <<range, serving, presenceVars, rowVars, socketVars>>
      /\ changes' = Stage(changes, stage, {}) /\ Current.kind = "off"
      BY DEF TurnOff, Turn
<1>2. S \in SUBSET Droids /\ stage \in ChangeStages
      BY <1>1, WhenAtRest DEF ChangeStages
<1> HIDE DEF S, stage
<1>3. stopping'["handover"] = stopping["handover"]
      BY <1>1, <1>2, ChangeStops DEF StopsSome
<1>4. UNCHANGED <<serving, present, known, onl, rowVars, socket, at, starting>>
      BY <1>1 DEF presenceVars, socketVars
<1>5. Edits(changes') /\ changes' # <<>> /\ Head(changes').kind = "off"
      BY <1>1, <1>2, QueueStaged, StageTells DEF ListenersInv, ServeInv, Current
<1>6. (StopHasReason /\ RebindStopsAll /\ OffIsOff /\ OrphansStay /\ ComesUp)'
      BY <1>1, <1>5
      DEF StopHasReason, RebindStopsAll, OffIsOff, OrphansStay, ComesUp, NotServed, Rebinds,
          Releases, Current
<1>7. \A d \in Droids : starting'[d] = NotStarting
      BY <1>1, <1>4, WhenAtRest
<1> QED
    BY <1>1, <1>3, <1>4, <1>5, <1>6, <1>7, ChangeServes DEF Edits

LEMMA TurnOnServes ==
    ASSUME ListenersInv, ServeInv, TrackedKept, TurnOn
    PROVE  ServeInv'
<1> DEFINE S == IF enabled THEN {} ELSE onl'
           q == Stage(changes, "start", {})
<1>1. /\ AtRest /\ changes # <<>> /\ enabled' = TRUE /\ Starts(S, TRUE)
      /\ onl' = IF enabled THEN onl ELSE present
      /\ changes' = WithOnline(q, onl' \ onl) /\ Current.kind = "on" /\ Current.stage = "queued"
      /\ UNCHANGED <<range, serving, present, known, rowVars, socket, at, stopping>>
      BY DEF TurnOn, Turn
<1>2. /\ onl' \subseteq Droids
      /\ UNCHANGED <<row, proxied>>
      BY <1>1 DEF ListenersInv, ServiceTypeOK, rowVars
<1>3. enabled \in BOOLEAN /\ (enabled \/ S = onl')
      BY DEF ListenersInv, ServiceTypeOK
<1> HIDE DEF S
<1>4. /\ \A d \in Droids : \/ starting'[d] = NotStarting
                           \/ starting'[d].stage = "row" /\ d \notin Listening
      /\ \A d \in Droids \ S : failure'[d] = failure[d]
      /\ \A d \in S \cap Droids : ~NotServed(d)'
      BY <1>1, <1>2, StartsAsked
<1>5. /\ QueueTyped(q) /\ Edits(q) /\ q # <<>>
      /\ Head(q).kind = "on" /\ Head(q).stage = "start"
      /\ \A d \in Droids : Tells(changes, d) => Tells(q, d)
      BY <1>1, QueueStaged, StageTells DEF ListenersInv, ServeInv, Current, ChangeStages
<1> HIDE DEF q
<1>6. Extends(q, changes')
  <2>1. onl' \ onl \in SUBSET Droids
        BY <1>2
  <2> QED
      BY <1>1, <1>5, <2>1, OnlineAdded
<1>7. /\ Edits(changes') /\ changes' # <<>>
      /\ Head(changes').kind = "on" /\ Head(changes').stage = "start"
      /\ \A d \in Droids : Tells(changes, d) => Tells(changes', d)
      BY <1>5, <1>6 DEF Extends
<1>8. (StopHasReason /\ RebindStopsAll /\ OffIsOff /\ OrphansStay)'
      BY <1>1, <1>7, WhenAtRest
      DEF StopHasReason, RebindStopsAll, OffIsOff, OrphansStay, Rebinds, Releases, Current
<1>9. ASSUME NEW d \in Tracked', NotServed(d)'
      PROVE  Coming(d)'
  <2>1. d \in Droids /\ d \notin S /\ d \in onl'
        BY <1>2, <1>4, <1>9 DEF Tracked, NotServed
  <2>2. enabled /\ onl' = onl
        BY <1>1, <1>3, <2>1
  <2>3. NotServed(d) /\ d \in Tracked
        BY <1>1, <1>2, <1>4, <1>9, <2>1, <2>2, WhenAtRest, StillTracked DEF NotServed, Listening
  <2>4. Tells(changes, d)
        BY <1>1, <2>3 DEF ServeInv, ComesUp, Coming, Rebinds, Restarts, SetDeviceKinds
  <2> QED
      BY <1>7, <2>1, <2>4 DEF Coming
<1>10. ComesUp'
       BY <1>9 DEF ComesUp
<1>11. stopping'["handover"] = stopping["handover"]
       BY <1>1
<1> QED
    BY <1>1, <1>2, <1>4, <1>7, <1>8, <1>10, <1>11, ChangeServes DEF Edits

LEMMA RebindServes ==
    ASSUME ListenersInv, ServeInv, TrackedKept, Rebind
    PROVE  ServeInv'
<1> DEFINE S == IF enabled THEN Listening ELSE {}
           stage == IF enabled THEN "stop" ELSE "start"
           left == IF enabled THEN onl ELSE {}
<1>1. /\ AtRest /\ changes # <<>> /\ Stops("change", S) /\ Current.kind = "rebind"
      /\ changes' = Stage(changes, stage, left)
      /\ UNCHANGED <<settingVars, presenceVars, rowVars, socketVars>>
      BY DEF Rebind, Turn
<1>2. S \in SUBSET Droids /\ left \in SUBSET Droids /\ stage \in ChangeStages
      BY <1>1, WhenAtRest DEF ListenersInv, ServiceTypeOK, ChangeStages
<1>3. /\ enabled => S = Listening /\ stage = "stop"
      /\ ~enabled => S = {} /\ stage = "start"
      OBVIOUS
<1> HIDE DEF S, stage, left
<1>4. UNCHANGED <<enabled, serving, present, known, onl, rowVars, socket, at, starting>>
      BY <1>1 DEF settingVars, presenceVars, socketVars
<1>5. /\ stopping'["handover"] = stopping["handover"]
      /\ \A d \in S : stopping'["change"][d] = "waits"
      BY <1>1, <1>2, ChangeStops DEF StopsSome
<1>6. /\ Edits(changes') /\ changes' # <<>>
      /\ Head(changes').kind = "rebind" /\ Head(changes').stage = stage
      BY <1>1, <1>2, QueueStaged, StageTells DEF ListenersInv, ServeInv, Current
<1>7. \A d \in Droids : starting'[d] = NotStarting
      BY <1>1, <1>4, WhenAtRest
<1>8. Starting' = {} /\ Listening' = Listening
      BY <1>4, <1>7 DEF Starting, Listening
<1>9. (StopHasReason /\ ComesUp)'
  <2>1. enabled => Rebinds'
        BY <1>3, <1>6 DEF Rebinds, Current
  <2> QED
      BY <1>4, <2>1 DEF StopHasReason, ComesUp, NotServed, Coming
<1>10. (RebindStopsAll /\ OffIsOff /\ OrphansStay)'
       BY <1>3, <1>5, <1>6, <1>8 DEF RebindStopsAll, OffIsOff, OrphansStay, Rebinds, Releases, Current
<1> QED
    BY <1>1, <1>4, <1>5, <1>6, <1>7, <1>9, <1>10, ChangeServes DEF Edits

LEMMA AllStoppedServes ==
    ASSUME ListenersInv, ServeInv, TrackedKept, AllStopped
    PROVE  ServeInv'
<1>1. /\ AtRest /\ changes # <<>> /\ changes' = Stage(changes, "start", {})
      /\ Current.stage = "stop" /\ Current.kind \in {"off", "rebind"}
      /\ UNCHANGED <<settingVars, presenceVars, rowVars, socket, at, stopping>>
      BY DEF AllStopped, Turn
<1>2. /\ UNCHANGED <<enabled, serving, present, known, onl, row, proxied>>
      /\ Listening' = Listening
      BY <1>1 DEF settingVars, presenceVars, rowVars, Listening
<1>3. /\ Edits(changes') /\ changes' # <<>>
      /\ Head(changes').kind = Current.kind /\ Head(changes').stage = "start"
      BY <1>1, QueueStaged, StageTells DEF ListenersInv, ServeInv, Current, ChangeStages
<1>4. (StopHasReason /\ RebindStopsAll /\ OffIsOff /\ OrphansStay)'
      BY <1>1, <1>3, WhenAtRest
      DEF StopHasReason, RebindStopsAll, OffIsOff, OrphansStay, Rebinds, Releases, Current
<1>5. CASE Current.kind = "rebind" /\ serving
  <2>1. Listening = {}
        BY <1>1, <1>5, WhenAtRest DEF ServeInv, RebindStopsAll, Rebinds
  <2>2. starting' = [d \in Droids |-> IF d \in onl /\ (d \notin Rowless \/ d \in known)
                                      THEN At("row", Nothing) ELSE NotStarting]
        BY <1>5 DEF AllStopped
  <2>3. \A d \in Droids : \/ starting'[d] = NotStarting
                          \/ starting'[d].stage = "row" /\ d \notin Listening
        BY <2>1, <2>2, RowStage
  <2>4. ASSUME NEW d \in Tracked', NotServed(d)'
        PROVE  FALSE
    <3>1. d \in Droids /\ d \in onl /\ d \notin Rowless
          BY <1>2, <2>4 DEF Tracked, NotServed, Rowless
    <3>2. starting'[d] = At("row", Nothing)
          BY <2>2, <3>1
    <3>3. d \in Starting'
          BY <3>1, <3>2 DEF Starting, At, NotStarting
    <3> QED
        BY <2>4, <3>3 DEF NotServed
  <2>5. ComesUp'
        BY <2>4 DEF ComesUp
  <2> QED
      BY <1>1, <1>2, <1>3, <1>4, <2>3, <2>5, ChangeServes DEF Edits
<1>6. CASE ~(Current.kind = "rebind" /\ serving)
  <2>1. ~(serving' /\ enabled')
        BY <1>1, <1>2, <1>6 DEF ServeInv, OffIsOff
  <2>2. ComesUp'
        BY <2>1 DEF ComesUp, NotServed
  <2>3. \A d \in Droids : starting'[d] = NotStarting
        BY <1>1, <1>6, WhenAtRest DEF AllStopped
  <2> QED
      BY <1>1, <1>2, <1>3, <1>4, <2>2, <2>3, ChangeServes DEF Edits
<1> QED
    BY <1>5, <1>6

\* The end of a change that starts nothing.
LEMMA EndServes ==
    ASSUME ListenersInv, ServeInv, TrackedKept, AtRest, changes # <<>>, changes' = Tail(changes),
           Current.stage \notin {"stop", "restart"},
           ~(Current.kind = "online" /\ Current.stage = "queued"),
           UNCHANGED <<settingVars, presenceVars, rowVars, socketVars, stopping>>
    PROVE  ServeInv'
<1>1. UNCHANGED <<enabled, serving, present, known, onl, row, proxied, failure, socket, at, starting>>
      BY DEF settingVars, presenceVars, rowVars, socketVars
<1>2. /\ Edits(changes')
      /\ \A d \in Droids : Tells(changes, d) => Tells(changes', d)
      BY TailTells DEF ListenersInv, ServeInv, Current
<1>3. changes' # <<>> => Head(changes').stage = "queued"
      BY DEF ListenersInv, QueueTyped
<1>4. (StopHasReason /\ RebindStopsAll /\ OffIsOff /\ OrphansStay)'
      BY <1>3, WhenAtRest
      DEF StopHasReason, RebindStopsAll, OffIsOff, OrphansStay, Rebinds, Releases, Current
<1>5. ASSUME NEW d \in Tracked', NotServed(d)'
      PROVE  Coming(d)'
  <2>1. d \in Droids /\ NotServed(d) /\ d \in Tracked
        BY <1>1, <1>5, WhenAtRest, StillTracked DEF NotServed, Listening, Starting
  <2>2. Tells(changes, d)
        BY <2>1 DEF ServeInv, ComesUp, Coming, Rebinds, Restarts
  <2> QED
      BY <1>2, <2>1, <2>2 DEF Coming
<1>6. ComesUp'
      BY <1>5 DEF ComesUp
<1>7. \A d \in Droids : starting'[d] = NotStarting
      BY <1>1, WhenAtRest
<1> QED
    BY <1>1, <1>2, <1>4, <1>6, <1>7, ChangeServes DEF Edits

LEMMA ChangeEndsServes ==
    ASSUME ListenersInv, ServeInv, TrackedKept, ChangeEnds
    PROVE  ServeInv'
    BY EndServes DEF ChangeEnds, Done

\* The tick goes on with its loop over the devices in left.
LEMMA RetryServes ==
    ASSUME ListenersInv, ServeInv, TrackedKept, AtRest, changes # <<>>, Current.kind = "retry",
           NEW stage \in ChangeStages \ {"stop"}, NEW left \in SUBSET Droids,
           changes' = Stage(changes, stage, left),
           stage = "orphans" => \A d \in left : Forgotten(d),
           stopping'["handover"] = stopping["handover"],
           \A d \in Droids : stopping'["change"][d] = "waits" => stage = "orphans" /\ Forgotten(d),
           UNCHANGED <<settingVars, presenceVars, rowVars, socketVars>>
    PROVE  ServeInv'
<1>1. UNCHANGED <<enabled, serving, present, known, onl, row, proxied, failure, socket, at, starting>>
      BY DEF settingVars, presenceVars, rowVars, socketVars
<1>2. /\ Edits(changes') /\ changes' # <<>>
      /\ Head(changes').kind = "retry" /\ Head(changes').stage = stage
      /\ Head(changes').left = left
      /\ \A d \in Droids : Tells(changes, d) => Tells(changes', d)
      BY QueueStaged, StageTells DEF ListenersInv, ServeInv, Current
<1>3. Starting' = {} /\ \A d \in Droids : starting'[d] = NotStarting
      BY <1>1, WhenAtRest DEF Starting
<1>4. (StopHasReason /\ RebindStopsAll /\ OffIsOff /\ OrphansStay)'
      BY <1>1, <1>2, <1>3
      DEF StopHasReason, RebindStopsAll, OffIsOff, OrphansStay, Rebinds, Releases, Current, Forgotten
<1>5. ASSUME NEW d \in Tracked', NotServed(d)'
      PROVE  Coming(d)'
  <2>1. d \in Droids /\ NotServed(d) /\ d \in Tracked
        BY <1>1, <1>5, WhenAtRest, StillTracked DEF NotServed, Listening, Starting
  <2>2. Tells(changes, d)
        BY <2>1 DEF ServeInv, ComesUp, Coming, Rebinds, Restarts, SetDeviceKinds
  <2> QED
      BY <1>2, <2>1, <2>2 DEF Coming
<1>6. ComesUp'
      BY <1>5 DEF ComesUp
<1> QED
    BY <1>1, <1>2, <1>3, <1>4, <1>6, ChangeServes DEF Edits

LEMMA RetryStepServes ==
    ASSUME ListenersInv, ServeInv, TrackedKept, RetryStep
    PROVE  ServeInv'
<1>1. /\ AtRest /\ changes # <<>> /\ Current.stage \in DOMAIN LoopAfter /\ Current.kind = "retry"
      /\ UNCHANGED <<settingVars, presenceVars, rowVars>>
      BY DEF RetryStep, Turn
<1>2. Current.left \in SUBSET Droids
      BY <1>1 DEF ListenersInv, QueueTyped, ChangeRecords, Current
<1>3. CASE Current.left = {}
  <2> DEFINE next == LoopAfter[Current.stage]
  <2>1. next \in ChangeStages \ {"stop"}
        BY <1>1 DEF LoopAfter, ChangeStages
  <2> HIDE DEF next
  <2>2. Loop(next) \in SUBSET Droids
        BY WhenAtRest, <1>1 DEF Loop, Orphans, Unlisted, Starved, Blocked
  <2>3. changes' = Stage(changes, next, Loop(next)) /\ UNCHANGED <<socketVars, stopping>>
        BY <1>3 DEF RetryStep, next
  <2>4. next = "orphans" => \A d \in Loop(next) : Forgotten(d)
    <3>1. SUFFICES ASSUME next = "orphans", NEW d \in Loop(next) PROVE Forgotten(d)
          OBVIOUS
    <3>2. d \in Listening /\ d \in Rowless /\ d \in Droids
          BY <3>1 DEF Loop, Orphans, Listening
    <3> QED
        BY <3>2 DEF Forgotten, Rowless
  <2>5. /\ stopping'["handover"] = stopping["handover"]
        /\ \A d \in Droids : stopping'["change"][d] # "waits"
        BY <1>1, <2>3, WhenAtRest
  <2>6. UNCHANGED socketVars
        BY <2>3
  <2> QED
      BY <1>1, <2>1, <2>2, <2>3, <2>4, <2>5, <2>6, RetryServes
<1>4. CASE Current.left # {}
  <2>1. PICK d \in Current.left :
           /\ changes' = Stage(changes, Current.stage, Current.left \ {d})
           /\ IF Current.stage = "orphans"
              THEN Stops("change", {d}) /\ UNCHANGED socketVars
              ELSE Starts({d}, enabled) /\ UNCHANGED <<socket, at, stopping>>
        BY <1>4 DEF RetryStep
  <2>2. /\ Current.stage \in ChangeStages \ {"stop", "restart"}
        /\ {d} \in SUBSET Droids /\ Current.left \ {d} \in SUBSET Droids
        BY <1>1, <1>2 DEF LoopAfter, ChangeStages
  <2>3. CASE Current.stage = "orphans"
    <3>1. Stops("change", {d}) /\ UNCHANGED socketVars
          BY <2>1, <2>3
    <3>2. \A o \in Current.left : Forgotten(o)
          BY <1>1, <2>3 DEF ServeInv, OrphansStay, Releases
    <3>3. stopping'["handover"] = stopping["handover"]
          BY <2>2, <3>1, ChangeStops DEF StopsSome
    <3>4. "change" \in Callers
          BY DEF Callers
    <3>5. \A o \in Droids : stopping'["change"][o] = IF o \in {d} THEN "waits" ELSE stopping["change"][o]
          BY <2>2, <3>1, <3>4, StopsTyped
    <3>6. \A o \in Droids : stopping'["change"][o] = "waits" =>
                              Current.stage = "orphans" /\ Forgotten(o)
          BY <1>1, <2>3, <3>2, <3>5, WhenAtRest
    <3>7. /\ Current.stage \in ChangeStages \ {"stop"}
          /\ \A o \in Current.left \ {d} : Forgotten(o)
          /\ changes' = Stage(changes, Current.stage, Current.left \ {d})
          BY <2>1, <2>2, <3>2
    <3> QED
        BY <1>1, <2>2, <3>1, <3>3, <3>6, <3>7, RetryServes
  <2>4. CASE Current.stage # "orphans"
    <3>1. /\ Starts({d}, enabled) /\ changes' = Stage(changes, Current.stage, Current.left \ {d})
          /\ UNCHANGED <<enabled, serving, presenceVars, rowVars, socket, at, stopping>>
          /\ Current.stage \in ChangeStages \ {"stop", "restart", "orphans"}
          /\ Current.stage # "stop"
          BY <1>1, <2>1, <2>2, <2>4 DEF settingVars
    <3>2. \A o \in Droids : ~(Restarts(o) \/ (Current.kind = "online" /\ Current.dev = o))
          BY <1>1 DEF Restarts, SetDeviceKinds
    <3> QED
        BY <1>1, <2>2, <3>1, <3>2, StartingServes
  <2> QED
      BY <2>3, <2>4
<1> QED
    BY <1>3, <1>4

\* setDevice has first to take the row of another device.
LEMMA HandingServes ==
    ASSUME ListenersInv, ServeInv, TrackedKept, AtRest, HandedOver, changes # <<>>,
           Current.kind \in SetDeviceKinds, Current.stage # "restart",
           NEW v \in Reclaimable, Reclaim(v), changes' = Stage(changes, "handover", {}),
           UNCHANGED <<settingVars, presenceVars, proxied, socketVars>>
    PROVE  ServeInv'
<1>1. UNCHANGED <<enabled, serving, present, known, onl, proxied, failure, socket, at, starting>>
      BY DEF settingVars, presenceVars, socketVars
<1>2. /\ v \in Droids /\ v \notin onl /\ row'[v] = Nothing
      /\ \A o \in Droids \ {v} : row'[o] = row[o]
      /\ stopping'["change"] = stopping["change"]
      /\ \A o \in Droids \ {v} : stopping'["handover"][o] = stopping["handover"][o]
      BY ReclaimedRow
<1>3. /\ Edits(changes') /\ changes' # <<>>
      /\ Head(changes').kind = Current.kind /\ Head(changes').stage = "handover"
      /\ \A d \in Droids : Tells(changes, d) => Tells(changes', d)
      BY QueueStaged, StageTells DEF ListenersInv, ServeInv, Current, ChangeStages, SetDeviceKinds
<1>4. /\ \A d \in Droids : starting'[d] = NotStarting /\ starting'[d].stage = "none"
      /\ Starting' = {} /\ Listening' = Listening
      BY <1>1, WhenAtRest DEF NotStarting, Starting, Listening
<1>5. BindsItsRow'
      BY <1>1, <1>2, <1>4 DEF ServeInv, BindsItsRow
<1>6. (ServesItsRow /\ StartsOnce /\ HandoverTakesRow)'
  <2>1. SUFFICES ASSUME NEW d \in Tracked', d \in Listening', row'[d] # Nothing
                 PROVE  at'[d] = row'[d] \/ stopping'["change"][d] = "waits"
        BY <1>2, <1>4 DEF ServesItsRow, StartsOnce, HandoverTakesRow, HandedOver
  <2>2. d \in Droids /\ d \in Tracked /\ row[d] # Nothing /\ d # v
        BY <1>2, <1>4, <2>1, WhenAtRest, StillTracked
  <2> QED
      BY <1>1, <1>2, <1>4, <2>1, <2>2 DEF ServeInv, ServesItsRow
<1>7. (StopHasReason /\ RebindStopsAll /\ OffIsOff /\ OrphansStay)'
      BY <1>2, <1>3, <1>4, WhenAtRest
      DEF StopHasReason, RebindStopsAll, OffIsOff, OrphansStay, Rebinds, Releases, Current,
          SetDeviceKinds
<1>8. ASSUME NEW d \in Tracked', NotServed(d)'
      PROVE  Coming(d)'
  <2>1. d \in Droids /\ d # v
        BY <1>1, <1>2, <1>8 DEF Tracked, NotServed
  <2>2. NotServed(d) /\ d \in Tracked
        BY <1>1, <1>2, <1>8, <2>1, WhenAtRest, StillTracked DEF NotServed, Listening, Starting
  <2>3. Tells(changes, d)
        BY <2>2 DEF ServeInv, ComesUp, Coming, Rebinds, Restarts, SetDeviceKinds
  <2> QED
      BY <1>3, <2>1, <2>3 DEF Coming
<1>9. ComesUp'
      BY <1>8 DEF ComesUp
<1> QED
    BY <1>3, <1>5, <1>6, <1>7, <1>9 DEF ServeInv, Edits

\* setDevice writes the row of the device dev at the head, and restarts a listener
\* that the patch concerns.
LEMMA PatchServes ==
    ASSUME ListenersInv, ServeInv, TrackedKept, AtRest, HandedOver, changes # <<>>,
           Current.kind \in SetDeviceKinds, Current.stage # "restart",
           NEW dev \in Droids, Current.dev = dev, NEW q \in Nat, row' = [row EXCEPT ![dev] = q],
           \A o \in Droids \ {dev} : proxied'[o] = proxied[o],
           NEW S \in SUBSET {dev}, Stops("change", S),
           dev \notin Rowless /\ row[dev] # q => S = {dev},
           \/ changes' = Stage(changes, "restart", {})
           \/ changes' = Tail(changes) /\ S = {} /\ proxied' = proxied,
           UNCHANGED <<settingVars, presenceVars, socketVars>>
    PROVE  ServeInv'
<1>1. UNCHANGED <<enabled, serving, present, known, onl, failure, socket, at, starting>>
      BY DEF settingVars, presenceVars, socketVars
<1>2. /\ row'[dev] = q /\ q # Nothing /\ \A o \in Droids \ {dev} : row'[o] = row[o]
      BY ListenersAssumption DEF ListenersInv, ServiceTypeOK
<1>3. /\ stopping'["handover"] = stopping["handover"]
      /\ \A o \in Droids : stopping'["change"][o] = "waits" <=> o \in S
  <2>1. S \in SUBSET Droids /\ "change" \in Callers
        BY DEF Callers
  <2>2. \A o \in Droids : stopping'["change"][o] = IF o \in S THEN "waits" ELSE stopping["change"][o]
        BY <2>1, StopsTyped
  <2>3. stopping'["handover"] = stopping["handover"]
        BY <2>1, ChangeStops DEF StopsSome
  <2> QED
      BY <2>2, <2>3, WhenAtRest
<1>4. /\ Edits(changes') /\ \A d \in Droids : Tells(changes, d) => Tells(changes', d)
      /\ changes' # <<>> => Head(changes').stage \in {"restart", "queued"}
      /\ changes' = Stage(changes, "restart", {}) => Restarts(dev)'
  <2>1. CASE changes' = Stage(changes, "restart", {})
    <3>1. "restart" \in ChangeStages /\ {} \in SUBSET Droids
          BY DEF ChangeStages
    <3>2. /\ changes' # <<>> /\ Head(changes').kind = Current.kind
          /\ Head(changes').stage = "restart"
          BY <2>1, <3>1, QueueStaged DEF ListenersInv, Current
    <3>3. /\ Edits(changes') /\ Head(changes').dev = dev
          /\ \A d \in Droids : Tells(changes, d) => Tells(changes', d)
          BY <2>1, <3>1, StageTells DEF ListenersInv, ServeInv, Current, SetDeviceKinds
    <3> QED
        BY <3>2, <3>3 DEF Restarts, Current
  <2>2. CASE changes' = Tail(changes)
    <3>1. changes' # <<>> => Head(changes').stage = "queued"
          BY <2>2 DEF ListenersInv, QueueTyped
    <3>2. /\ Edits(changes') /\ \A d \in Droids : Tells(changes, d) => Tells(changes', d)
          BY <2>2, TailTells DEF ListenersInv, ServeInv, Current, SetDeviceKinds
    <3>3. changes' # Stage(changes, "restart", {})
      <4>1. Len(Stage(changes, "restart", {})) = Len(changes) /\ Len(changes) \in Nat \ {0}
            BY DEF Stage, ListenersInv, QueueTyped
      <4>2. Len(changes') = Len(changes) - 1
            BY <2>2 DEF ListenersInv, QueueTyped
      <4> QED
          BY <4>1, <4>2
    <3> QED
        BY <3>1, <3>2, <3>3
  <2> QED
      BY <2>1, <2>2
<1>5. /\ \A d \in Droids : starting'[d] = NotStarting /\ starting'[d].stage = "none"
      /\ Starting' = {} /\ Listening' = Listening
      BY <1>1, WhenAtRest DEF NotStarting, Starting, Listening
<1>6. BindsItsRow'
      BY <1>1, <1>2, <1>5 DEF ServeInv, BindsItsRow
<1>7. ServesItsRow'
  <2>1. SUFFICES ASSUME NEW o \in Tracked', o \in Listening', row'[o] # Nothing
                 PROVE  at'[o] = row'[o] \/ stopping'["change"][o] = "waits"
        BY DEF ServesItsRow
  <2>2. o \in Tracked /\ o \in Droids /\ o \in Listening /\ row[o] # Nothing
        BY <1>5, <2>1, WhenAtRest, StillTracked
  <2>3. at[o] = row[o]
        BY <2>2, WhenAtRest DEF ServeInv, ServesItsRow
  <2>4. CASE o # dev
        BY <1>1, <1>2, <2>1, <2>2, <2>3, <2>4
  <2>5. CASE o = dev
    <3>1. o \notin Rowless
          BY <2>2 DEF Rowless
    <3>2. CASE row[o] = q
          BY <1>1, <1>2, <2>3, <2>5, <3>1, <3>2
    <3>3. CASE row[o] # q
          BY <1>3, <2>2, <2>5, <3>1, <3>3
    <3> QED
        BY <3>2, <3>3
  <2> QED
      BY <2>4, <2>5
<1>8. (StartsOnce /\ HandoverTakesRow)'
      BY <1>3, <1>5 DEF StartsOnce, HandoverTakesRow, HandedOver
<1>9. StopHasReason'
  <2>1. SUFFICES ASSUME NEW o \in Droids, stopping'["change"][o] = "waits"
                 PROVE  Restarts(o)'
        BY DEF StopHasReason
  <2>2. o \in S /\ o = dev
        BY <1>3, <2>1
  <2> QED
      BY <1>4, <2>2
<1>10. (RebindStopsAll /\ OffIsOff /\ OrphansStay)'
       BY <1>4 DEF RebindStopsAll, OffIsOff, OrphansStay, Rebinds, Releases, Current
<1>11. ASSUME NEW d \in Tracked', NotServed(d)'
       PROVE  Coming(d)'
  <2>1. d \in Droids
        BY <1>11 DEF Tracked
  <2>2. CASE changes' = Stage(changes, "restart", {}) /\ d = dev
        BY <1>4, <2>2 DEF Coming
  <2>3. CASE (changes' = Tail(changes) /\ proxied' = proxied) \/ d # dev
    <3>1. proxied'[d] = proxied[d]
          BY <2>1, <2>3
    <3>2. NotServed(d) /\ d \in Tracked
          BY <1>1, <1>2, <1>11, <2>1, <3>1, WhenAtRest, StillTracked
          DEF NotServed, Listening, Starting
    <3>3. Tells(changes, d)
          BY <3>2 DEF ServeInv, ComesUp, Coming, Rebinds, Restarts, SetDeviceKinds
    <3> QED
        BY <1>4, <2>1, <3>3 DEF Coming
  <2> QED
      BY <2>2, <2>3
<1>12. ComesUp'
       BY <1>11 DEF ComesUp
<1> QED
    BY <1>4, <1>6, <1>7, <1>8, <1>9, <1>10, <1>12 DEF ServeInv, Edits

LEMMA DeviceChangeServes ==
    ASSUME ListenersInv, ServeInv, TrackedKept, DeviceChange
    PROVE  ServeInv'
<1> DEFINE d == Current.dev
<1>1. /\ AtRest /\ changes # <<>> /\ HandedOver
      /\ Current.kind \in SetDeviceKinds /\ Current.stage \in {"queued", "handover"}
      /\ UNCHANGED <<settingVars, presenceVars, socketVars>>
      BY DEF DeviceChange, Turn
<1>2. CASE /\ \E v \in Reclaimable : Reclaim(v)
           /\ changes' = Stage(changes, "handover", {}) /\ UNCHANGED proxied
      BY <1>1, <1>2, HandingServes
<1>3. CASE Done /\ UNCHANGED <<rowVars, stopping>>
  <2>1. changes' = Tail(changes) /\ Current.stage \notin {"stop", "restart"}
        /\ ~(Current.kind = "online" /\ Current.stage = "queued")
        BY <1>1, <1>3 DEF Done, SetDeviceKinds
  <2> QED
      BY <1>1, <1>3, <2>1, EndServes
<1>4. CASE /\ d \in known /\ (d \notin Rowless \/ Free # {})
           /\ LET p == IF d \in Rowless THEN Lowest(Free) ELSE row[d]
                  moves == {q \in Current.ports : q # p /\ q \in Free}
                  refused == Current.ports \ (moves \cup {p}) # {}
              IN /\ \E q \in IF moves = {} THEN {p} ELSE moves : row' = [row EXCEPT ![d] = q]
                 /\ proxied' = [proxied EXCEPT ![d] = CASE Current.kind = "enable" -> TRUE
                                                        [] Current.kind = "disable" -> FALSE
                                                        [] OTHER -> @]
                 /\ Stops("change", IF StopsDevice(moves) THEN {d} ELSE {})
                 /\ IF refused THEN Done ELSE changes' = Stage(changes, "restart", {})
  <2> DEFINE p == IF d \in Rowless THEN Lowest(Free) ELSE row[d]
             moves == {q \in Current.ports : q # p /\ q \in Free}
             refused == Current.ports \ (moves \cup {p}) # {}
             S == IF StopsDevice(moves) THEN {d} ELSE {}
  <2>1. d \in Droids
        BY <1>4 DEF ListenersInv, ServiceTypeOK
  <2>2. p \in Nat /\ Free \subseteq Nat
        BY <1>4, <2>1, FreeIsPorts, RowIsPort DEF ListenersInv, ServiceTypeOK, Rowless
  <2>3. PICK q \in IF moves = {} THEN {p} ELSE moves : row' = [row EXCEPT ![d] = q]
        BY <1>4
  <2>4. q \in Nat /\ (moves = {} => q = p)
        BY <2>2, <2>3
  <2>5. Stops("change", S) /\ S \in SUBSET {d} /\ (moves # {} => S = {d})
        BY <1>4 DEF StopsDevice
  <2>6. d \notin Rowless /\ row[d] # q => S = {d}
        BY <2>4, <2>5
  <2>7. \A o \in Droids \ {d} : proxied'[o] = proxied[o]
        BY <1>4, <2>1 DEF ListenersInv, ServiceTypeOK
  <2>8. refused => moves = {} /\ Current.kind = "port"
    <3>1. 1 \in DOMAIN changes /\ Current = changes[1]
          BY <1>1 DEF ListenersInv, QueueTyped, Current
    <3>2. IF Current.kind = "port" THEN \E x \in Nat : Current.ports = {x} ELSE Current.ports = {}
          BY <1>1, <3>1 DEF ServeInv, Edits, Edit
    <3> HIDE DEF p, d
    <3> QED
        BY <3>2
  <2>9. \/ changes' = Stage(changes, "restart", {})
        \/ changes' = Tail(changes) /\ S = {} /\ proxied' = proxied
    <3>1. CASE refused
      <4>1. changes' = Tail(changes) /\ S = {}
            BY <1>4, <2>8, <3>1 DEF Done, StopsDevice
      <4>2. proxied' = [proxied EXCEPT ![d] = @]
            BY <1>4, <2>8, <3>1
      <4> QED
          BY <2>1, <4>1, <4>2 DEF ListenersInv, ServiceTypeOK
    <3>2. CASE ~refused
          BY <1>4, <3>2
    <3> QED
        BY <3>1, <3>2
  <2>10. d = Current.dev /\ Current.stage # "restart"
         BY <1>1
  <2> HIDE DEF S, refused, moves, p, d
  <2> QED
      BY <1>1, <2>1, <2>3, <2>4, <2>5, <2>6, <2>7, <2>9, <2>10, PatchServes
<1>5. \/ /\ \E v \in Reclaimable : Reclaim(v)
         /\ changes' = Stage(changes, "handover", {}) /\ UNCHANGED proxied
      \/ Done /\ UNCHANGED <<rowVars, stopping>>
      \/ /\ d \in known /\ (d \notin Rowless \/ Free # {})
         /\ LET p == IF d \in Rowless THEN Lowest(Free) ELSE row[d]
                moves == {q \in Current.ports : q # p /\ q \in Free}
                refused == Current.ports \ (moves \cup {p}) # {}
            IN /\ \E q \in IF moves = {} THEN {p} ELSE moves : row' = [row EXCEPT ![d] = q]
               /\ proxied' = [proxied EXCEPT ![d] = CASE Current.kind = "enable" -> TRUE
                                                      [] Current.kind = "disable" -> FALSE
                                                      [] OTHER -> @]
               /\ Stops("change", IF StopsDevice(moves) THEN {d} ELSE {})
               /\ IF refused THEN Done ELSE changes' = Stage(changes, "restart", {})
      BY Zenon DEF DeviceChange
<1> QED
    BY <1>2, <1>3, <1>4, <1>5

-----------------------------------------------------------------------------
(* The port that is shown, in every state.                                 *)

LEMMA ServingBegins ==
    ASSUME ListenersInit
    PROVE  ServeInv
<1> DEFINE c == [Change("on", Nothing, {}) EXCEPT !.stage = "start"]
<1>1. c.kind = "on" /\ c.stage = "start"
      BY DEF Change
<1>2. changes = <<c>> \/ changes = <<>>
      BY DEF ListenersInit
<1> HIDE DEF c
<1>3. /\ Edits(changes) /\ (changes # <<>> => Current = c)
  <2>1. CASE changes = <<c>>
    <3>1. DOMAIN changes = {1} /\ changes[1] = c /\ Head(changes) = c
          BY <2>1
    <3> QED
        BY <1>1, <3>1 DEF Edits, Edit, SetDeviceKinds, Current
  <2>2. CASE changes = <<>>
        BY <2>2 DEF Edits
  <2> QED
      BY <1>2, <2>1, <2>2
<1>4. \A d \in Droids : \/ starting[d] = NotStarting /\ ~(enabled /\ d \in onl)
                        \/ starting[d] = At("row", Nothing) /\ enabled
      BY DEF ListenersInit
<1>5. NotStarting.stage = "none" /\ At("row", Nothing).stage = "row"
      /\ NotStarting # At("row", Nothing)
      BY DEF NotStarting, At
<1>6. Listening = {} /\ \A w \in Callers, d \in Droids : stopping[w][d] = "none"
      BY DEF ListenersInit, Listening
<1>7. BindsItsRow /\ ServesItsRow /\ StartsOnce
      BY <1>4, <1>5, <1>6 DEF ListenersInit, BindsItsRow, ServesItsRow, StartsOnce
<1>8. HandoverTakesRow /\ StopHasReason
      BY <1>6 DEF HandoverTakesRow, StopHasReason, Callers
<1>9. RebindStopsAll /\ OffIsOff /\ OrphansStay
      BY <1>1, <1>3 DEF RebindStopsAll, OffIsOff, OrphansStay, Rebinds, Releases
<1>10. ComesUp
       BY <1>4, <1>5 DEF ComesUp, NotServed, Starting, Tracked
<1> QED
    BY <1>3, <1>7, <1>8, <1>9, <1>10 DEF ServeInv

LEMMA ServingStep ==
    ASSUME ListenersInv, ServeInv, [ListenersNext]_listenerVars
    PROVE  ServeInv'
<1>0. TrackedKept
  <2>1. CASE Overlooked
        BY <2>1 DEF TrackedKept, Tracked, Overlooked, Rowless
  <2>2. CASE UNCHANGED listenerVars
    <3>1. UNCHANGED <<row, overlooked>>
          BY <2>2 DEF listenerVars, serviceVars, rowVars
    <3> QED
        BY <3>1 DEF TrackedKept, Tracked
  <2> QED
      BY <2>1, <2>2 DEF ListenersNext
<1>1. ASSUME NEW d \in Droids, DeviceStep(d)
      PROVE  ServeInv'
      BY <1>0, <1>1, EnsureRowServes, HandoverEndsServes, BindSucceedsServes, BindFailsServes,
         SocketClosedServes, StopProceedsServes DEF DeviceStep
<1>2. ASSUME ChangeStep
      PROVE  ServeInv'
      BY <1>0, <1>2, TurnOffServes, TurnOnServes, NewRangeServes, RebindServes, AllStoppedServes,
         OnlineChangeServes, DeviceChangeServes, DeviceRestartServes, RetryStepServes,
         ChangeEndsServes
      DEF ChangeStep
<1>3. ASSUME NEW d \in Droids, SetDevice(d) \/ Forget(d) \/ Polled(d)
      PROVE  ServeInv'
      BY <1>0, <1>3, SetDeviceServes, ForgetServes, PolledServes
<1>4. ASSUME NEW d \in Droids, NEW announced \in BOOLEAN,
             DeviceAppears(d, announced) \/ DeviceVanishes(d, announced)
      PROVE  ServeInv'
      BY <1>0, <1>4, DeviceAppearsServes, DeviceVanishesServes
<1>5. ASSUME UNCHANGED listenerVars
      PROVE  ServeInv'
      BY <1>0, <1>5, SameExtends, SameServes DEF listenerVars, serviceVars
<1> QED
    BY <1>0, <1>1, <1>2, <1>3, <1>4, <1>5, UpdateSettingsServes, ReconcileServes, StopServiceServes
    DEF ListenersNext, ServiceStep

\* Once the changes have run, a device that is online, switched on and shows no
\* failure is served at the port of its row: whichever change stopped its listener
\* started it again or left another change behind that does.  Overlooked devices are
\* excepted: an edit made their row beside an old listener, or refused its port.
THEOREM ShownPortsServe == ListenersSpec => []ShownPortServes
<1>1. ASSUME ListenersInv, ServeInv, Settled, AtRest, serving, enabled,
             NEW d \in onl \ (Rowless \cup overlooked), proxied[d], failure[d] = "none"
      PROVE  at[d] = row[d]
  <2>1. d \in Droids /\ d \in Tracked /\ row[d] # Nothing
        BY <1>1 DEF ListenersInv, ServiceTypeOK, Tracked, Rowless
  <2>2. ~Coming(d)
        BY <1>1 DEF Settled, Coming, Restarts, Rebinds, Tells
  <2>3. d \in Listening
        BY <1>1, <2>1, <2>2, WhenAtRest DEF ServeInv, ComesUp, NotServed
  <2> QED
      BY <1>1, <2>1, <2>3, WhenAtRest DEF ServeInv, ServesItsRow
<1>2. ListenersInv /\ ServeInv => ShownPortServes
      BY <1>1 DEF ShownPortServes
<1>3. ListenersSpec => []ServeInv
  <2>1. ListenersInit => ServeInv
        BY ServingBegins
  <2>2. ListenersInv /\ ServeInv /\ [ListenersNext]_listenerVars => ServeInv'
        BY ServingStep
  <2> QED
      BY <2>1, <2>2, ListenersInvHolds, PTL DEF ListenersSpec
<1> QED
    BY <1>2, <1>3, ListenersInvHolds, PTL

=============================================================================
