--------------------- MODULE AutomationScheduler_proof ---------------------
(***************************************************************************)
(* For any automations, devices and filters: the passes of processQueue    *)
(* never overlap, what leaves the queue leaves a trace, nothing that can   *)
(* run is dropped, and the health alert is armed for a waiting queue only. *)
(***************************************************************************)
EXTENDS AutomationScheduler, SequenceTheorems, FiniteSetTheorems, TLAPS

\* OneRunAtATime is inductive once processingQueue is known to be a Boolean.
RunInvariant == processing \in BOOLEAN /\ OneRunAtATime

\* Every call of processQueue, by the API, a tick or a timer, keeps the passes
\* apart: it starts a run only where none is awaited (lines 406-409).
LEMMA PassesStayApart ==
    ASSUME RunInvariant,
           NEW q, NEW armed, NEW pending, ProcessQueue(q, armed, pending)
    PROVE  RunInvariant'
<1>1. CASE UNCHANGED <<processing, awaited, busy>>
      BY <1>1 DEF RunInvariant, OneRunAtATime
<1>2. ASSUME ~Blocked, NEW a, NEW d, NEW unrecorded, NEW timedOut,
             Runs(a, d, unrecorded, timedOut, pending)
      PROVE  RunInvariant'
  <2>1. CASE PassSettles(TRUE, pending)
        BY <2>1, <1>1 DEF PassSettles
  <2>2. CASE /\ busy' = busy \cup ({d} \ {None})
             /\ processing' = TRUE
             /\ awaited' = awaited \cup {[automation |-> a, device |-> d]}
    <3>1. awaited = {}
          BY <1>2 DEF Blocked, RunInvariant, OneRunAtATime
    <3>2. awaited' = {[automation |-> a, device |-> d]}
          BY <2>2, <3>1
    <3>3. d = None \/ d \in busy'
          BY <2>2
    <3>4. processing' \in BOOLEAN /\ (processing' <=> awaited' # {})
          BY <2>2, <3>2
    <3>5. \A r, s \in awaited' : r = s
          BY <3>2
    <3>6. \A r \in awaited' : r.device = None \/ r.device \in busy'
          BY <3>2, <3>3
    <3> QED
        BY <3>4, <3>5, <3>6 DEF RunInvariant, OneRunAtATime
  <2> QED
      BY <1>2, <2>1, <2>2 DEF Runs
<1> QED
    BY <1>1, <1>2 DEF ProcessQueue, PassSettles

\* The passes are apart at the start, when nothing is queued.
LEMMA PassesApartAtInit == Init => RunInvariant
BY DEF Init, RunInvariant, OneRunAtATime

\* No step of the scheduler, its runs or their environment brings two together.
LEMMA PassesApartByNext == RunInvariant /\ [Next]_vars => RunInvariant'
<1> SUFFICES ASSUME RunInvariant, [Next]_vars PROVE RunInvariant'
    OBVIOUS
<1> USE DEF RunInvariant, OneRunAtATime,
        vars, rows, devices, queueVars
<1>1. CASE Tick
  <2>1. PICK q, armed : ProcessQueue(q, armed, redrain)
        BY <1>1 DEF Tick
  <2> QED
      BY <2>1, <1>1, PassesStayApart DEF Tick
<1>2. CASE Redrain
      BY <1>2, PassesStayApart DEF Redrain
<1>3. CASE RunFreesDevice
  <2>1. PICK r \in awaited : /\ r.device # None
                             /\ busy' = busy \ {r.device}
                             /\ awaited' = (awaited \ {r})
                                    \cup {[automation |-> r.automation, device |-> None]}
        BY <1>3 DEF RunFreesDevice
  <2>2. awaited' = {[automation |-> r.automation, device |-> None]}
        BY <2>1
  <2>3. processing' = processing
        BY <1>3 DEF RunFreesDevice
  <2>4. processing' <=> awaited' # {}
        BY <2>2, <2>3
  <2>5. \A s, t \in awaited' : s = t
        BY <2>2
  <2>6. \A s \in awaited' : s.device = None
        BY <2>2
  <2> QED
      BY <2>3, <2>4, <2>5, <2>6
<1>4. CASE PassEnds
      BY <1>4 DEF PassEnds
<1>5. CASE Restart
      BY <1>5 DEF Restart
<1>6. ASSUME NEW a \in Automations, Enqueue(a) PROVE RunInvariant'
      BY <1>6, PassesStayApart DEF Enqueue
<1>7. ASSUME NEW d \in Devices, OtherFrees(d) PROVE RunInvariant'
      BY <1>7 DEF OtherFrees
<1>8. ASSUME NEW d \in Devices, OtherTakes(d) \/ CaptureStops(d) \/ DeviceComesOrGoes(d)
      PROVE  RunInvariant'
      BY <1>8 DEF OtherTakes, CaptureStops, DeviceComesOrGoes
<1>9. CASE AlertFires \/ ClearQueue \/ PluginUnloads \/ PluginLoads
      BY <1>9 DEF AlertFires, ClearQueue, PluginUnloads, PluginLoads
<1>10. ASSUME NEW a \in Automations,
              \/ DeadlinePasses(a) \/ SetSchedule(a) \/ RemoveSchedule(a)
              \/ Enable(a) \/ Disable(a) \/ Delete(a)
       PROVE  RunInvariant'
       BY <1>10 DEF DeadlinePasses, SetSchedule, RemoveSchedule, Enable, Disable, Delete
<1>11. CASE UNCHANGED vars
       BY <1>11
<1> QED
    BY <1>1, <1>2, <1>3, <1>4, <1>5, <1>6, <1>7, <1>8, <1>9, <1>10, <1>11 DEF Next

\* processQueue awaits at most one run at any time, its flag says whether it does,
\* and the run holds its device until it has cleaned up (lines 406-409, 494-504).
THEOREM OneRunAlways == Spec => []OneRunAtATime
<1>1. RunInvariant => OneRunAtATime
      BY DEF RunInvariant
<1> QED
    BY <1>1, PassesApartAtInit, PassesApartByNext, PTL DEF Spec

-----------------------------------------------------------------------------
(* What the sweep leaves.  Its loop is a recursive function of the index,  *)
(* so what it returns is shown by induction over the index.  The induction *)
(* theorems of the library take an operator and cannot be instantiated;    *)
(* its theorem about minimal elements speaks of sets, and gives both of    *)
(* the following.                                                          *)

LEMMA LeastNatural ==
    ASSUME NEW S \in SUBSET Nat, S # {}
    PROVE  \E n \in S : \A m \in S : n <= m
<1> DEFINE R == {ss \in Nat \X Nat : ss[1] < ss[2]}
<1>1. IsWellFoundedOn(R, Nat)
      BY NatLessThanWellFounded DEF OpToRel
<1>2. PICK n \in S : \A m \in S : ~ (<<m, n>> \in R)
      BY <1>1, WFMin
<1>3. \A m \in S : m \in Nat /\ n \in Nat /\ ~(m < n)
      BY <1>2
<1> QED
    BY <1>3

LEMMA NatBySteps ==
    ASSUME NEW S \in SUBSET Nat, 0 \in S, \A n \in S : n + 1 \in S
    PROVE  S = Nat
<1> SUFFICES ASSUME Nat \ S # {} PROVE FALSE
    OBVIOUS
<1>1. PICK n \in Nat \ S : \A m \in Nat \ S : n <= m
      BY LeastNatural
<1>2. n - 1 \in Nat /\ n - 1 \in S
      BY <1>1
<1> QED
    BY <1>1, <1>2

\* F is what the loop has collected after each of its first n rounds.
Collects(q, F, n) ==
    F = [i \in 0 .. n |->
            IF i = 0 THEN <<>>
            ELSE IF Survives(q[i]) THEN Append(F[i - 1], Renewed(q[i]))
            ELSE F[i - 1]]

LEMMA LoopRuns ==
    ASSUME NEW q, NEW n \in Nat
    PROVE  \E F : Collects(q, F, n)
<1> DEFINE N == {m \in Nat : \E F : Collects(q, F, m)}
<1>1. 0 \in N
  <2>1. Collects(q, [i \in 0 .. 0 |-> <<>>], 0)
        BY DEF Collects
  <2> QED
      BY <2>1
<1>2. ASSUME NEW m \in N PROVE m + 1 \in N
  <2>1. PICK F : Collects(q, F, m)
        OBVIOUS
  <2> DEFINE G == [i \in 0 .. (m + 1) |->
                      IF i <= m THEN F[i]
                      ELSE IF Survives(q[i]) THEN Append(F[i - 1], Renewed(q[i]))
                      ELSE F[i - 1]]
             H == [i \in 0 .. (m + 1) |->
                      IF i = 0 THEN <<>>
                      ELSE IF Survives(q[i]) THEN Append(G[i - 1], Renewed(q[i]))
                      ELSE G[i - 1]]
  <2>2. \A i \in 0 .. m : F[i] = IF i = 0 THEN <<>>
                                 ELSE IF Survives(q[i]) THEN Append(F[i - 1], Renewed(q[i]))
                                 ELSE F[i - 1]
        BY <2>1 DEF Collects
  <2>3. \A i \in 0 .. (m + 1) : i # 0 => i - 1 \in 0 .. m /\ G[i - 1] = F[i - 1]
        OBVIOUS
  <2>4. \A i \in 0 .. (m + 1) : G[i] = H[i]
        BY <2>2, <2>3
  <2>5. Collects(q, G, m + 1)
        BY <2>4 DEF Collects
  <2> QED
      BY <2>5
<1>3. N = Nat
  <2> HIDE DEF N
  <2> QED
      BY <1>1, <1>2, NatBySteps DEF N
<1> QED
    BY <1>3

LEMMA AppendAdds ==
    ASSUME NEW S, NEW s \in Seq(S), NEW e \in S
    PROVE  Append(s, e) \in Seq(S) /\ ToSet(Append(s, e)) = ToSet(s) \cup {e}
<1>1. /\ Append(s, e) \in Seq(S) /\ DOMAIN Append(s, e) = 1 .. (Len(s) + 1)
      /\ DOMAIN s = 1 .. Len(s) /\ Len(s) \in Nat
      BY AppendProperties, LenProperties
<1>2. /\ \A i \in 1 .. Len(s) : Append(s, e)[i] = s[i]
      /\ Append(s, e)[Len(s) + 1] = e
      BY AppendProperties
<1>3. 1 .. (Len(s) + 1) = (1 .. Len(s)) \cup {Len(s) + 1}
      BY <1>1
<1> QED
    BY <1>1, <1>2, <1>3 DEF ToSet

\* The entries of q that survive, each as it is kept.
Kept(q) == {Renewed(e) : e \in {f \in ToSet(q) : Survives(f)}}

\* The sweep keeps every survivor and nothing else (lines 424-460).
LEMMA SweepKeepsSurvivors ==
    ASSUME NEW q \in Seq(Entries)
    PROVE  Swept(q) \in Seq(Entries) /\ ToSet(Swept(q)) = Kept(q)
<1>1. Len(q) \in Nat /\ DOMAIN q = 1 .. Len(q) /\ \A i \in 1 .. Len(q) : q[i] \in Entries
      BY LenProperties, ElementOfSeq
<1>2. PICK F : Collects(q, F, Len(q)) /\ Swept(q) = F[Len(q)]
  <2>1. Swept(q) = (CHOOSE F : Collects(q, F, Len(q)))[Len(q)]
        BY DEF Swept, Collects
  <2> QED
      BY <1>1, <2>1, LoopRuns
<1>3. /\ F[0] = <<>>
      /\ \A i \in 1 .. Len(q) : F[i] = IF Survives(q[i]) THEN Append(F[i - 1], Renewed(q[i]))
                                        ELSE F[i - 1]
  <2>1. \A i \in 0 .. Len(q) : F[i] = IF i = 0 THEN <<>>
                                      ELSE IF Survives(q[i]) THEN Append(F[i - 1], Renewed(q[i]))
                                      ELSE F[i - 1]
        BY <1>2 DEF Collects
  <2> QED
      BY <1>1, <2>1
<1> DEFINE Upto(i) == {Renewed(q[j]) : j \in {k \in 1 .. i : Survives(q[k])}}
           N == {i \in Nat : i <= Len(q) => F[i] \in Seq(Entries) /\ ToSet(F[i]) = Upto(i)}
<1>4. 0 \in N
  <2>1. F[0] \in Seq(Entries) /\ ToSet(F[0]) = {} /\ Upto(0) = {}
        BY <1>3, EmptySeq DEF ToSet
  <2> QED
      BY <2>1
<1>5. ASSUME NEW i \in N PROVE i + 1 \in N
  <2> SUFFICES ASSUME i + 1 <= Len(q)
               PROVE  F[i + 1] \in Seq(Entries) /\ ToSet(F[i + 1]) = Upto(i + 1)
      OBVIOUS
  <2> DEFINE e == q[i + 1]
  <2>1. i \in Nat /\ i + 1 \in 1 .. Len(q) /\ e \in Entries /\ (i + 1) - 1 = i
        BY <1>1
  <2>2. F[i] \in Seq(Entries) /\ ToSet(F[i]) = Upto(i)
        BY <2>1, <1>1
  <2>3. F[i + 1] = IF Survives(e) THEN Append(F[i], Renewed(e)) ELSE F[i]
        BY <1>3, <2>1
  <2>4. Upto(i + 1) = IF Survives(e) THEN Upto(i) \cup {Renewed(e)} ELSE Upto(i)
    <3>1. 1 .. (i + 1) = (1 .. i) \cup {i + 1}
          BY <2>1
    <3> QED
        BY <3>1
  <2>5. CASE Survives(e)
    <3>1. Renewed(e) \in Entries
          BY <2>1 DEF Renewed, Entries
    <3>2. /\ Append(F[i], Renewed(e)) \in Seq(Entries)
          /\ ToSet(Append(F[i], Renewed(e))) = ToSet(F[i]) \cup {Renewed(e)}
          BY <2>2, <3>1, AppendAdds
    <3> QED
        BY <2>2, <2>3, <2>4, <2>5, <3>2
  <2>6. CASE ~Survives(e)
        BY <2>2, <2>3, <2>4, <2>6
  <2> QED
      BY <2>5, <2>6
<1>6. N = Nat
  <2> HIDE DEF N
  <2> QED
      BY <1>4, <1>5, NatBySteps DEF N
<1>7. Swept(q) \in Seq(Entries) /\ ToSet(Swept(q)) = Upto(Len(q))
  <2>1. Len(q) \in N
        BY <1>1, <1>6
  <2> QED
      BY <1>1, <1>2, <2>1
<1>8. Upto(Len(q)) = Kept(q)
      BY <1>1 DEF Kept, ToSet
<1> QED
    BY <1>7, <1>8

-----------------------------------------------------------------------------
(* What one call of processQueue does to the queue.                        *)

\* splice(i, 1): what stood at i is all that goes.
LEMMA RemoveLeaves ==
    ASSUME NEW S, NEW s \in Seq(S), NEW i \in DOMAIN s
    PROVE  RemoveAt(s, i) \in Seq(S) /\ ToSet(s) \subseteq ToSet(RemoveAt(s, i)) \cup {s[i]}
<1> DEFINE before == SubSeq(s, 1, i - 1)
           after == SubSeq(s, i + 1, Len(s))
<1>1. /\ Len(s) \in Nat /\ DOMAIN s = 1 .. Len(s) /\ i \in 1 .. Len(s)
      /\ \A j \in 1 .. Len(s) : s[j] \in S
      BY LenProperties, ElementOfSeq
<1>2. /\ before \in Seq(S) /\ Len(before) = i - 1
      /\ \A j \in 1 .. i - 1 : before[j] = s[j]
  <2>1. \A j \in 1 .. i - 1 : s[j] \in S
        BY <1>1
  <2>2. /\ before \in Seq(S) /\ Len(before) = IF 1 <= i - 1 THEN (i - 1) - 1 + 1 ELSE 0
        /\ \A j \in 1 .. (i - 1) - 1 + 1 : before[j] = s[1 + j - 1]
        BY <1>1, <2>1, SubSeqProperties
  <2> HIDE DEF before
  <2> QED
      BY <1>1, <2>2
<1>3. /\ after \in Seq(S) /\ Len(after) = Len(s) - i
      /\ \A j \in 1 .. Len(s) - i : after[j] = s[i + j]
  <2>1. \A j \in i + 1 .. Len(s) : s[j] \in S
        BY <1>1
  <2>2. /\ after \in Seq(S)
        /\ Len(after) = IF i + 1 <= Len(s) THEN Len(s) - (i + 1) + 1 ELSE 0
        /\ \A j \in 1 .. Len(s) - (i + 1) + 1 : after[j] = s[(i + 1) + j - 1]
        BY <1>1, <2>1, SubSeqProperties
  <2> HIDE DEF after
  <2>3. Len(s) - (i + 1) + 1 = Len(s) - i /\ \A j \in 1 .. Len(s) - i : (i + 1) + j - 1 = i + j
        BY <1>1
  <2>4. Len(after) = Len(s) - i
        BY <1>1, <2>2
  <2> QED
      BY <2>2, <2>3, <2>4
<1> DEFINE r == before \o after
<1> HIDE DEF before, after
<1>4. /\ r \in Seq(S) /\ DOMAIN r = 1 .. Len(s) - 1
      /\ \A j \in 1 .. Len(s) - 1 : r[j] = IF j <= i - 1 THEN before[j] ELSE after[j - (i - 1)]
  <2>1. r \in Seq(S) /\ Len(r) = Len(before) + Len(after)
        BY <1>2, <1>3, ConcatProperties
  <2>2. \A j \in 1 .. Len(before) + Len(after) :
            r[j] = IF j <= Len(before) THEN before[j] ELSE after[j - Len(before)]
        BY <1>2, <1>3, ConcatProperties
  <2>3. Len(before) + Len(after) = Len(s) - 1
        BY <1>1, <1>2, <1>3
  <2>4. DOMAIN r = 1 .. Len(r)
        BY <2>1, LenProperties
  <2> QED
      BY <1>2, <2>1, <2>2, <2>3, <2>4
<1>5. ASSUME NEW j \in 1 .. Len(s), j # i PROVE s[j] \in ToSet(r)
  <2>1. CASE j <= i - 1
    <3>1. j \in 1 .. i - 1 /\ j \in 1 .. Len(s) - 1
          BY <1>1, <2>1
    <3>2. r[j] = s[j]
          BY <1>2, <1>4, <2>1, <3>1
    <3> QED
        BY <1>4, <3>1, <3>2 DEF ToSet
  <2>2. CASE j > i
    <3>1. /\ j - 1 \in 1 .. Len(s) - 1 /\ ~(j - 1 <= i - 1)
          /\ (j - 1) - (i - 1) \in 1 .. Len(s) - i /\ i + ((j - 1) - (i - 1)) = j
          BY <1>1, <2>2
    <3>2. r[j - 1] = s[j]
          BY <1>3, <1>4, <3>1
    <3> QED
        BY <1>4, <3>1, <3>2 DEF ToSet
  <2> QED
      BY <1>1, <1>5, <2>1, <2>2
<1> QED
    BY <1>1, <1>4, <1>5 DEF RemoveAt, ToSet, before, after

\* The first entry that can run is one of the queue's.
LEMMA FirstIsRunnable ==
    ASSUME NEW q \in Seq(Entries), RunnableIndices(q) # {}
    PROVE  LET first == Min(RunnableIndices(q))
           IN  /\ first \in DOMAIN q /\ q[first] \in Entries
               /\ Resolvable(q[first].automation)
<1>1. RunnableIndices(q) \in SUBSET Nat
      BY LenProperties DEF RunnableIndices
<1>2. Min(RunnableIndices(q)) \in RunnableIndices(q)
      BY <1>1, LeastNatural DEF Min
<1> QED
    BY <1>2, LenProperties, ElementOfSeq DEF RunnableIndices

\* The automations of the entries that survive, and of those that do not.
LEMMA SweepDivides ==
    ASSUME NEW q \in Seq(Entries), NEW a \in Names(q), a \notin Names(Swept(q))
    PROVE  a \in TimedOut(q) /\ ~Resolvable(a)
<1>1. PICK e \in ToSet(q) : a = e.automation
      BY DEF Names
<1>2. e \in Entries
      BY LenProperties, ElementOfSeq DEF ToSet
<1>3. Renewed(e).automation = a
      BY <1>1, <1>2 DEF Renewed, Entries
<1>4. ~Survives(e)
      BY <1>1, <1>3, SweepKeepsSurvivors DEF Names, Kept
<1> QED
    BY <1>1, <1>4 DEF TimedOut, Survives

LEMMA NamesAreAutomations ==
    ASSUME NEW q \in Seq(Entries)
    PROVE  Names(q) \subseteq Automations /\ TimedOut(q) \subseteq Names(q)
<1>1. \A e \in ToSet(q) : e \in Entries
      BY LenProperties, ElementOfSeq DEF ToSet
<1>2. \A e \in ToSet(q) : e.automation \in Automations
      BY <1>1 DEF Entries
<1> QED
    BY <1>2 DEF Names, TimedOut

\* What leaves the queue has a session row afterwards, or is refused by the runner;
\* what could have run is awaited, or refused.
LeavesVisibly(q) ==
    \A a \in Names(q) \ Names(queue') :
        /\ a \in recorded' \/ RunRefused(a)
        /\ Resolvable(a) => RunStarted(a) \/ RunRefused(a)

QueueTypes ==
    /\ queue \in Seq(Entries)
    /\ processing \in BOOLEAN /\ redrain \in BOOLEAN /\ alert \in BOOLEAN
    /\ awaited \subseteq AwaitedRuns
    /\ recorded \subseteq Automations /\ busy \subseteq Devices

LEMMA CallOfProcessQueue ==
    ASSUME TypeOK, RunInvariant, NEW q \in Seq(Entries),
           NEW armed \in BOOLEAN, NEW pending \in BOOLEAN, ProcessQueue(q, armed, pending)
    PROVE  /\ QueueTypes'
           /\ (queue' = q /\ alert' = armed) \/ (alert' => queue' # <<>>)
           /\ LeavesVisibly(q)
<1> DEFINE kept == Swept(q)
           unrecorded == recorded \ Names(q)
<1>1. kept \in Seq(Entries)
      BY SweepKeepsSurvivors
<1>2. unrecorded \subseteq Automations /\ TimedOut(q) \subseteq Automations
      BY NamesAreAutomations DEF TypeOK
<1>3. CASE /\ queue' = q /\ alert' = armed /\ recorded' = unrecorded /\ redrain' = pending
           /\ UNCHANGED <<processing, awaited, busy>>
      BY <1>2, <1>3 DEF QueueTypes, LeavesVisibly, TypeOK
<1>4. CASE /\ queue' = kept /\ alert' = AlertAfter(q, armed)
           /\ recorded' = unrecorded \cup TimedOut(q)
           /\ PassSettles(TimedOut(q) # {}, pending)
  <2>1. QueueTypes'
        BY <1>1, <1>2, <1>4 DEF QueueTypes, TypeOK, PassSettles, AlertAfter
  <2>2. LeavesVisibly(q)
        BY <1>4, SweepDivides DEF LeavesVisibly
  <2> QED
      BY <1>4, <2>1, <2>2 DEF AlertAfter
<1>5. CASE /\ ~Blocked /\ RunnableIndices(kept) # {}
           /\ LET first == Min(RunnableIndices(kept))
                  a == kept[first].automation
              IN  /\ queue' = RemoveAt(kept, first)
                  /\ alert' = AlertAfter(q, armed)
                  /\ \E d \in Holders(a) : Runs(a, d, unrecorded, TimedOut(q), pending)
  <2> DEFINE first == Min(RunnableIndices(kept))
             b == kept[first].automation
  <2>1. first \in DOMAIN kept /\ kept[first] \in Entries /\ Resolvable(b)
        BY <1>1, <1>5, FirstIsRunnable
  <2>2. PICK d \in Holders(b) : Runs(b, d, unrecorded, TimedOut(q), pending)
        BY <1>5
  <2> HIDE DEF first
  <2>3. b \in Automations /\ d \in Devices \cup {None}
    <3>1. b \in Automations
          BY <2>1 DEF Entries
    <3>2. Matches[b] \subseteq Devices
          BY <3>1, SchedulerAssumption
    <3> QED
        BY <2>2, <3>1, <3>2 DEF Holders, Available
  <2>4. queue' = RemoveAt(kept, first) /\ alert' = AlertAfter(q, armed)
        BY <1>5 DEF first
  <2>5. queue' \in Seq(Entries) /\ ToSet(kept) \subseteq ToSet(queue') \cup {kept[first]}
        BY <1>1, <2>1, <2>4, RemoveLeaves
  <2>6. /\ processing' \in BOOLEAN /\ redrain' \in BOOLEAN /\ awaited' \subseteq AwaitedRuns
        /\ recorded' \subseteq Automations /\ busy' \subseteq Devices
    <3>1. [automation |-> b, device |-> d] \in AwaitedRuns
          BY <2>3 DEF AwaitedRuns
    <3> QED
        BY <1>2, <2>2, <2>3, <3>1 DEF Runs, PassSettles, TypeOK
  <2>7. QueueTypes'
        BY <2>4, <2>5, <2>6 DEF QueueTypes, AlertAfter
  <2>8. TimedOut(q) \subseteq recorded'
        BY <2>2 DEF Runs
  <2>9. d \in captured => RunRefused(b)
        BY <2>2, SchedulerAssumption DEF Holders, RunRefused, TypeOK
  <2>10. d \notin captured => b \in recorded' /\ RunStarted(b)
    <3> SUFFICES ASSUME d \notin captured PROVE b \in recorded' /\ RunStarted(b)
        OBVIOUS
    <3>1. awaited = {}
          BY <1>5 DEF Blocked, RunInvariant, OneRunAtATime
    <3> HIDE DEF b
    <3>2. /\ b \in recorded'
          /\ [automation |-> b, device |-> d] \in awaited'
          BY <2>2 DEF Runs
    <3>3. [automation |-> b, device |-> d].automation = b
          OBVIOUS
    <3> QED
        BY <3>1, <3>2, <3>3 DEF RunStarted
  <2>11. ASSUME NEW a \in Names(q), a \notin Names(queue')
         PROVE  /\ a \in recorded' \/ RunRefused(a)
                /\ Resolvable(a) => RunStarted(a) \/ RunRefused(a)
    <3>1. CASE a \notin Names(kept)
          BY <2>8, <3>1, SweepDivides
    <3>2. CASE a \in Names(kept)
      <4>1. a = b
            BY <2>5, <2>11, <3>2 DEF Names
      <4> QED
          BY <2>9, <2>10, <4>1
    <3> QED
        BY <3>1, <3>2
  <2> QED
      BY <2>4, <2>7, <2>11 DEF LeavesVisibly, AlertAfter
<1> QED
    BY <1>3, <1>4, <1>5 DEF ProcessQueue

\* Who calls it, and on which queue: all that was queued and what is new.  The alert
\* is armed where an entry is queued.
LEMMA CallersOfProcessQueue ==
    ASSUME TypeOK, AlertMeansWaiting,
           Tick \/ Redrain \/ \E a \in Automations : Enqueue(a)
    PROVE  \E q \in Seq(Entries), armed \in BOOLEAN, pending \in BOOLEAN :
              /\ ProcessQueue(q, armed, pending)
              /\ Queued \subseteq Names(q)
              /\ armed => q # <<>>
<1>1. \A a \in Automations : NewEntry(a) \in Entries
      BY DEF NewEntry, PluginAway, Entries, TypeOK
<1>2. ASSUME NEW a \in Automations, Enqueue(a)
      PROVE  \E q \in Seq(Entries), armed \in BOOLEAN, pending \in BOOLEAN :
                /\ ProcessQueue(q, armed, pending)
                /\ Queued \subseteq Names(q)
                /\ armed => q # <<>>
  <2> DEFINE q == Append(queue, NewEntry(a))
  <2>1. q \in Seq(Entries) /\ ToSet(q) = ToSet(queue) \cup {NewEntry(a)} /\ q # <<>>
        BY <1>1, AppendAdds, AppendProperties DEF TypeOK
  <2>2. ProcessQueue(q, TRUE, redrain) /\ redrain \in BOOLEAN
        BY <1>2 DEF Enqueue, TypeOK
  <2>3. Queued \subseteq Names(q)
        BY <2>1 DEF Queued, Names
  <2> HIDE DEF q
  <2> QED
      BY <2>1, <2>2, <2>3
<1>3. CASE Redrain
      BY <1>3 DEF Redrain, TypeOK, Queued, AlertMeansWaiting
<1>4. CASE Tick
  <2>0. PICK due \in SUBSET (table' \ Queued) : \E order \in SetToSeqs(due) :
            ProcessQueue(queue \o [i \in DOMAIN order |-> NewEntry(order[i])],
                         alert \/ due # {}, redrain)
        BY <1>4 DEF Tick
  <2>1. PICK order \in SetToSeqs(due) :
            ProcessQueue(queue \o [i \in DOMAIN order |-> NewEntry(order[i])],
                         alert \/ due # {}, redrain)
        BY <2>0
  <2> DEFINE new == [i \in DOMAIN order |-> NewEntry(order[i])]
             q == queue \o new
  <2>2. due \subseteq Automations /\ IsFiniteSet(due) /\ Cardinality(due) \in Nat
    <3>1. due \subseteq Automations
          BY <1>4 DEF Tick, TypeOK
    <3> QED
        BY <3>1, SchedulerAssumption, FS_Subset, FS_CardinalityType
  <2>3. order \in [1 .. Cardinality(due) -> due]
        BY DEF SetToSeqs
  <2>4. new \in [1 .. Cardinality(due) -> Entries]
        BY <1>1, <2>2, <2>3
  <2>5. new \in Seq(Entries) /\ Len(new) = Cardinality(due)
    <3>1. new \in Seq(Entries)
          BY <2>2, <2>4, SeqDef
    <3>2. DOMAIN new = 1 .. Len(new) /\ Len(new) \in Nat
          BY <3>1, LenProperties
    <3> QED
        BY <2>2, <2>4, <3>1, <3>2
  <2> HIDE DEF new
  <2>6. /\ q \in Seq(Entries) /\ Len(q) = Len(queue) + Cardinality(due)
        /\ \A i \in 1 .. Len(queue) + Cardinality(due) :
              q[i] = IF i <= Len(queue) THEN queue[i] ELSE new[i - Len(queue)]
        /\ queue \in Seq(Entries) /\ Len(queue) \in Nat
        /\ DOMAIN queue = 1 .. Len(queue) /\ DOMAIN q = 1 .. Len(q)
        BY <2>5, ConcatProperties, LenProperties DEF TypeOK
  <2>7. ProcessQueue(q, alert \/ due # {}, redrain)
        BY <2>1 DEF new
  <2> HIDE DEF q
  <2>8. ToSet(queue) \subseteq ToSet(q)
    <3>1. \A i \in 1 .. Len(queue) : i \in DOMAIN q /\ q[i] = queue[i]
          BY <2>2, <2>6
    <3> QED
        BY <2>6, <3>1 DEF ToSet
  <2>9. Queued \subseteq Names(q)
        BY <2>8 DEF Queued, Names
  <2>10. (alert \/ due # {}) => q # <<>>
    <3>1. due # {} => Cardinality(due) > 0
          BY <2>2, FS_EmptySet
    <3>2. alert => Len(queue) > 0
          BY <2>6, EmptySeq DEF AlertMeansWaiting
    <3>3. q = <<>> => Len(q) = 0
          BY EmptySeq
    <3> QED
        BY <2>2, <2>6, <3>1, <3>2, <3>3
  <2>11. (alert \/ due # {}) \in BOOLEAN /\ redrain \in BOOLEAN
        BY DEF TypeOK
  <2> QED
      BY <2>6, <2>7, <2>9, <2>10, <2>11
<1> QED
    BY <1>2, <1>3, <1>4

-----------------------------------------------------------------------------
(* The invariant, and what a step may do to the queue.                     *)

SchedulerInv == TypeOK /\ AlertMeansWaiting /\ RunInvariant

\* No other step takes an entry off the queue, but for ClearQueue and Restart.
LEMMA OthersKeepTheQueue ==
    ASSUME SchedulerInv, [Next]_vars,
           ~Tick, ~Redrain, ~\E a \in Automations : Enqueue(a)
    PROVE  /\ TypeOK' /\ AlertMeansWaiting'
           /\ ClearQueue \/ Restart \/ Names(queue') = Queued
<1> USE DEF SchedulerInv, TypeOK, AlertMeansWaiting
<1>1. CASE UNCHANGED queue /\ ~ClearQueue /\ ~Restart /\ ~PluginUnloads
  <2> USE <1>1 DEF Queued
  <2>1. CASE RunFreesDevice
    <3>1. awaited' \subseteq AwaitedRuns
          BY <2>1 DEF RunFreesDevice, AwaitedRuns
    <3> QED
        BY <2>1, <3>1 DEF RunFreesDevice, rows
  <2>2. CASE PassEnds
        BY <2>2 DEF PassEnds, rows, devices
  <2>3. CASE AlertFires
        BY <2>3 DEF AlertFires, rows, devices
  <2>4. CASE PluginLoads
        BY <2>4 DEF PluginLoads, rows, devices, queueVars
  <2>5. ASSUME NEW a \in Automations,
               \/ DeadlinePasses(a) \/ SetSchedule(a) \/ RemoveSchedule(a)
               \/ Enable(a) \/ Disable(a) \/ Delete(a)
        PROVE  TypeOK' /\ AlertMeansWaiting'
        BY <2>5, SchedulerAssumption
        DEF DeadlinePasses, SetSchedule, RemoveSchedule, Enable, Disable, Delete, rows, devices,
            queueVars
  <2>6. ASSUME NEW d \in Devices,
               DeviceComesOrGoes(d) \/ CaptureStops(d) \/ OtherTakes(d) \/ OtherFrees(d)
        PROVE  TypeOK' /\ AlertMeansWaiting'
        BY <2>6 DEF DeviceComesOrGoes, CaptureStops, OtherTakes, OtherFrees, rows, queueVars
  <2>7. CASE UNCHANGED vars
        BY <2>7 DEF vars, rows, devices, queueVars
  <2> QED
      BY <2>1, <2>2, <2>3, <2>4, <2>5, <2>6, <2>7 DEF Next
<1>2. CASE ClearQueue \/ Restart
      BY <1>2, EmptySeq DEF ClearQueue, Restart, rows, devices
<1>3. ASSUME NEW a \in Automations, DeadlinePasses(a)
      PROVE  TypeOK' /\ AlertMeansWaiting' /\ Names(queue') = Queued
  <2>1. PICK i \in DOMAIN queue : queue' = [queue EXCEPT ![i].late = TRUE]
        BY <1>3 DEF DeadlinePasses
  <2>2. DOMAIN queue = 1 .. Len(queue) /\ \A j \in DOMAIN queue : queue[j] \in Entries
        BY LenProperties, ElementOfSeq
  <2>3. /\ DOMAIN queue' = DOMAIN queue
        /\ \A j \in DOMAIN queue : /\ queue'[j] \in Entries
                                    /\ queue'[j].automation = queue[j].automation
        BY <2>1, <2>2 DEF Entries
  <2>4. queue' \in Seq(Entries) /\ queue' # <<>>
    <3> DEFINE e == [queue[i] EXCEPT !.late = TRUE]
    <3>1. queue' = [queue EXCEPT ![i] = e] /\ i \in 1 .. Len(queue)
          BY <2>1, <2>2
    <3>2. e \in Entries
          BY <2>2 DEF Entries
    <3> HIDE DEF e
    <3>3. queue' \in Seq(Entries) /\ Len(queue') = Len(queue)
          BY <3>1, <3>2, ExceptSeq
    <3>4. Len(queue) # 0 /\ Len(<<>>) = 0
          BY <3>1, LenProperties, EmptySeq
    <3> QED
        BY <3>3, <3>4
  <2>5. Names(queue') = Queued
        BY <2>3 DEF Names, Queued, ToSet
  <2> QED
      BY <1>3, <2>4, <2>5 DEF DeadlinePasses, rows, devices
<1>4. CASE PluginUnloads
  <2>1. DOMAIN queue = 1 .. Len(queue) /\ Len(queue) \in Nat
        /\ \A j \in DOMAIN queue : queue[j] \in Entries
        BY LenProperties, ElementOfSeq
  <2>2. /\ DOMAIN queue' = DOMAIN queue
        /\ \A j \in DOMAIN queue : /\ queue'[j] \in Entries
                                    /\ queue'[j].automation = queue[j].automation
        BY <1>4, <2>1 DEF PluginUnloads, Entries
  <2>3. queue' \in [1 .. Len(queue) -> Entries]
        BY <1>4, <2>1, <2>2 DEF PluginUnloads
  <2>4. queue' \in Seq(Entries) /\ (queue # <<>> => queue' # <<>>)
        BY <2>1, <2>2, <2>3, SeqDef, LenProperties, EmptySeq
  <2>5. Names(queue') = Queued
        BY <2>2 DEF Names, Queued, ToSet
  <2> QED
      BY <1>4, <2>4, <2>5 DEF PluginUnloads, rows, devices
<1>5. \/ UNCHANGED queue \/ ClearQueue \/ Restart \/ PluginUnloads
      \/ \E a \in Automations : DeadlinePasses(a)
      BY DEF Next, vars, queueVars, RunFreesDevice, PassEnds, AlertFires, PluginLoads,
             SetSchedule, RemoveSchedule, Enable, Disable, Delete, DeviceComesOrGoes,
             CaptureStops, OtherTakes, OtherFrees
<1> QED
    BY <1>1, <1>2, <1>3, <1>4, <1>5

\* One step from a state of the invariant.
LEMMA SchedulerStep ==
    ASSUME SchedulerInv, [Next]_vars
    PROVE  /\ SchedulerInv'
           /\ ClearQueue \/ Restart \/ LeavesVisibly(queue)
<1>1. RunInvariant'
      BY PassesApartByNext DEF SchedulerInv
<1>2. CASE Tick \/ Redrain \/ \E a \in Automations : Enqueue(a)
  <2>1. PICK q \in Seq(Entries), armed \in BOOLEAN, pending \in BOOLEAN :
            /\ ProcessQueue(q, armed, pending)
            /\ Queued \subseteq Names(q)
            /\ armed => q # <<>>
        BY <1>2, CallersOfProcessQueue DEF SchedulerInv
  <2>2. /\ QueueTypes'
        /\ (queue' = q /\ alert' = armed) \/ (alert' => queue' # <<>>)
        /\ LeavesVisibly(q)
        BY <2>1, CallOfProcessQueue DEF SchedulerInv
  <2>3. TypeOK'
        BY <1>2, <2>2
        DEF Tick, Redrain, Enqueue, TypeOK, QueueTypes, SchedulerInv, rows
  <2>4. AlertMeansWaiting'
        BY <2>1, <2>2 DEF AlertMeansWaiting
  <2>5. LeavesVisibly(queue)
        BY <2>1, <2>2 DEF LeavesVisibly, Queued
  <2> QED
      BY <1>1, <2>3, <2>4, <2>5 DEF SchedulerInv
<1>3. CASE ~(Tick \/ Redrain \/ \E a \in Automations : Enqueue(a))
      BY <1>1, <1>3, OthersKeepTheQueue DEF SchedulerInv, LeavesVisibly, Queued
<1> QED
    BY <1>2, <1>3

LEMMA SchedulerInvHolds == Spec => []SchedulerInv
<1>1. Init => SchedulerInv
      BY PassesApartAtInit, EmptySeq, SchedulerAssumption
      DEF Init, SchedulerInv, TypeOK, AlertMeansWaiting
<1>2. SchedulerInv /\ [Next]_vars => SchedulerInv'
      BY SchedulerStep
<1> QED
    BY <1>1, <1>2, PTL DEF Spec

\* Every variable keeps its type; above all the queue, which the sweep, the splice
\* and the plug-in's absence rewrite, stays a sequence of entries.
THEOREM SchedulerTypes == Spec => []TypeOK
BY SchedulerInvHolds, PTL DEF SchedulerInv

\* The health alert is armed for a queue that waits, never for one that has drained
\* (lines 461-468, 488-492).
THEOREM AlertAlwaysMeansWaiting == Spec => []AlertMeansWaiting
BY SchedulerInvHolds, PTL DEF SchedulerInv

\* An entry leaves the queue with a session row, that of its run or of its timeout,
\* or because the runner refuses it, or by ClearQueue or Restart (lines 420-458).
THEOREM EntriesLeaveATrace == Spec => LeavesATrace
<1>1. SchedulerInv /\ [Next]_vars =>
          [\/ ClearQueue \/ Restart
           \/ \A a \in Queued \ Names(queue') : a \in recorded' \/ RunRefused(a)]_vars
      BY SchedulerStep DEF LeavesVisibly, Queued
<1> QED
    BY <1>1, SchedulerInvHolds, PTL DEF Spec, LeavesATrace

\* The sweep drops no entry that can run, however late it is (lines 425-430).
THEOREM RunnableIsNeverDropped == Spec => RunnableIsNotDropped
<1>1. SchedulerInv /\ [Next]_vars =>
          [\/ ClearQueue \/ Restart
           \/ \A a \in Queued \ Names(queue') :
                Resolvable(a) => RunStarted(a) \/ RunRefused(a)]_vars
      BY SchedulerStep DEF LeavesVisibly, Queued
<1> QED
    BY <1>1, SchedulerInvHolds, PTL DEF Spec, RunnableIsNotDropped

=============================================================================
