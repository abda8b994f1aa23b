------------------------ MODULE AutomationScheduler ------------------------
(***************************************************************************)
(* AutomationScheduler: the table of schedules, the queue of automations   *)
(* that wait for a device, and processQueue, which starts one of them at a *)
(* time.  A pass of processQueue is atomic up to its only await, that of   *)
(* the run it starts.  The runner and the lease appear as they are to the  *)
(* scheduler: the lease is the abstract one that DeviceControl implements. *)
(***************************************************************************)
EXTENDS Naturals, Sequences, FiniteSets, SequencesExt, FiniteSetsExt

CONSTANTS None,
          Automations,
          Needless,     \* automations with requiresDevice = false
          Managed,      \* automations that a plugin owns
          Edited,       \* automations whose rows the operator edits
          Devices,
          Matches       \* the devices that pass each automation's filter

ASSUME SchedulerAssumption ==
    /\ IsFiniteSet(Automations)
    /\ Needless \cup Managed \cup Edited \subseteq Automations
    /\ Matches \in [Automations -> SUBSET Devices]
    /\ None \notin Devices

VARIABLES
    existing, enabled, scheduled, \* the rows, those enabled, those with a schedule
    table,       \* schedules: the table in memory
    queue,       \* entries, oldest first
    processing,  \* processingQueue
    awaited,     \* the runs that a pass awaits
    redrain,     \* a setTimeout(processQueue, 0) is pending
    alert,       \* queueAlertTimer is armed
    recorded,    \* history: whose latest entry has left a session row
    online, busy, captured, \* devices; those with a capture nobody holds
    loaded       \* the plugin that owns Managed is loaded

rows == <<existing, enabled, scheduled>>
devices == <<online, busy, captured>>
queueVars == <<queue, processing, awaited, redrain, alert, recorded>>
vars == <<rows, table, queueVars, devices, loaded>>

\* late: the deadline has passed.  away: the plugin has been unloaded at some
\* moment since queuedAt.
Entries == [automation: Automations, late: BOOLEAN, away: BOOLEAN]

\* device is None for a run that holds none, or has freed it.
AwaitedRuns == [automation: Automations, device: Devices \cup {None}]

TypeOK ==
    /\ enabled \subseteq existing /\ existing \subseteq Automations
    /\ scheduled \subseteq existing
    /\ table \subseteq Automations
    /\ queue \in Seq(Entries)
    /\ processing \in BOOLEAN /\ redrain \in BOOLEAN /\ alert \in BOOLEAN
    /\ awaited \subseteq AwaitedRuns
    /\ recorded \subseteq Automations
    /\ online \cup busy \cup captured \subseteq Devices
    /\ loaded \in BOOLEAN

Names(q) == {e.automation : e \in ToSet(q)}

Queued == Names(queue)

Init ==
    /\ existing = Automations /\ enabled = Automations /\ scheduled = Automations
    /\ table = Automations
    /\ queue = <<>> /\ processing = FALSE /\ awaited = {}
    /\ redrain = FALSE /\ alert = FALSE /\ recorded = {}
    /\ online = {} /\ busy = {} /\ captured = {}
    /\ loaded = TRUE

-----------------------------------------------------------------------------
(* tryResolveEntry and findAvailableDevice. *)

PluginAway(a) == a \in existing \cap Managed /\ ~loaded

Available(a) == Matches[a] \cap (online \ busy)

Resolvable(a) ==
    /\ a \in existing
    /\ ~PluginAway(a)
    /\ a \in Needless \/ Available(a) # {}

Holders(a) == IF a \in Needless THEN {None} ELSE Available(a)

-----------------------------------------------------------------------------
(* processQueue. *)

\* Seeded bug: the sweep drops whatever is past its deadline.
SurvivesIfEarly(e) == ~e.late \/ PluginAway(e.automation)

\* Seeded bug: every entry that cannot run has its deadline renewed.
SurvivesForever(e) == TRUE

Survives(e) == Resolvable(e.automation) \/ ~e.late \/ PluginAway(e.automation)

\* While the plugin is away the deadline, and queuedAt, start afresh.
Renewed(e) ==
    IF e.late /\ PluginAway(e.automation) THEN [e EXCEPT !.late = FALSE, !.away = TRUE] ELSE e

\* The loop of the sweep over the queue.
Swept(q) ==
    LET survivors[i \in 0 .. Len(q)] ==
            IF i = 0 THEN <<>>
            ELSE IF Survives(q[i]) THEN Append(survivors[i - 1], Renewed(q[i]))
            ELSE survivors[i - 1]
    IN  survivors[Len(q)]

\* Seeded bug: the sweep records no session for what it drops.
NothingRecorded(q) == {}

\* recordQueueTimeout, for each entry that the sweep drops.
TimedOut(q) == {e.automation : e \in {f \in ToSet(q) : ~Survives(f)}}

RunnableIndices(q) == {i \in DOMAIN q : Resolvable(q[i].automation)}

\* Seeded bug: the sweep leaves the alert timer armed.
AlertAfterRunOnly(q, armed) == armed /\ (queue' # <<>> \/ RunnableIndices(Swept(q)) = {})

\* Both places where a pass clears the timer of an emptied queue.
AlertAfter(q, armed) == armed /\ queue' # <<>>

\* The pass ends without a run; it has changed something if it has dropped or
\* spliced an entry.
PassSettles(progress, pending) ==
    /\ redrain' = (pending \/ (progress /\ queue' # <<>>))
    /\ UNCHANGED <<processing, awaited, busy>>

\* The runner takes the lease and writes its session row; on a device that is
\* free yet captured it gives the lease back and throws, before the row.
Runs(a, d, unrecorded, timedOut, pending) ==
    \/ /\ d \notin captured
       /\ busy' = busy \cup ({d} \ {None})
       /\ processing' = TRUE
       /\ awaited' = awaited \cup {[automation |-> a, device |-> d]}
       /\ recorded' = (unrecorded \cup timedOut) \cup {a}
       /\ redrain' = pending
    \/ /\ d \in captured
       /\ recorded' = unrecorded \cup timedOut
       /\ PassSettles(TRUE, pending)

\* Seeded bug: a pass does not ask whether another one awaits its run.
BlockedNever == FALSE

Blocked == processing

\* One call of processQueue on the queue q, with the alert timer armed or not
\* and a redrain pending or not.
ProcessQueue(q, armed, pending) ==
    LET kept == Swept(q)
        runnable == RunnableIndices(kept)
        unrecorded == recorded \ Names(q)
    IN  \/ /\ Blocked \/ q = <<>>
           /\ queue' = q /\ alert' = armed /\ recorded' = unrecorded
           /\ redrain' = pending
           /\ UNCHANGED <<processing, awaited, busy>>
        \/ /\ ~Blocked /\ q # <<>> /\ runnable = {}
           /\ queue' = kept
           /\ alert' = AlertAfter(q, armed)
           /\ recorded' = unrecorded \cup TimedOut(q)
           /\ PassSettles(TimedOut(q) # {}, pending)
        \/ /\ ~Blocked /\ runnable # {}
           /\ LET first == Min(runnable)
                  a == kept[first].automation
              IN  /\ queue' = RemoveAt(kept, first)
                  /\ alert' = AlertAfter(q, armed)
                  /\ \E d \in Holders(a) : Runs(a, d, unrecorded, TimedOut(q), pending)

NewEntry(a) == [automation |-> a, late |-> FALSE, away |-> PluginAway(a)]

-----------------------------------------------------------------------------
(* What fills the queue, what drains it. *)

\* By the API; a queued automation is not queued again.
Enqueue(a) ==
    /\ a \in existing /\ a \notin Queued
    /\ ProcessQueue(Append(queue, NewEntry(a)), TRUE, redrain)
    /\ UNCHANGED <<rows, table, online, captured, loaded>>

\* The 60 s interval: checkSchedules forgets the schedules of deleted and
\* disabled rows and enqueues those that are due; then processQueue.  The calls
\* of processQueue in one tick come to one: after the first of them that starts
\* a run the others do nothing.
Tick ==
    /\ table' = table \cap enabled
    /\ \E due \in SUBSET (table' \ Queued) : \E order \in SetToSeqs(due) :
          ProcessQueue(queue \o [i \in DOMAIN order |-> NewEntry(order[i])],
                       alert \/ due # {}, redrain)
    /\ UNCHANGED <<rows, online, captured, loaded>>

Redrain ==
    /\ redrain
    /\ ProcessQueue(queue, alert, FALSE)
    /\ UNCHANGED <<rows, table, online, captured, loaded>>

\* The run's clean-up marks the device idle and then switches its screen off.
RunFreesDevice ==
    /\ \E r \in awaited :
          /\ r.device # None
          /\ busy' = busy \ {r.device}
          /\ awaited' = (awaited \ {r})
                \cup {[automation |-> r.automation, device |-> None]}
    /\ UNCHANGED <<rows, table, queue, processing, redrain, alert, recorded,
                   online, captured, loaded>>

\* The awaited run returns; the pass ends.
PassEnds ==
    /\ \E r \in awaited :
          /\ r.device = None
          /\ awaited' = awaited \ {r}
    /\ processing' = FALSE
    /\ redrain' = (redrain \/ queue # <<>>)
    /\ UNCHANGED <<rows, table, queue, alert, recorded, devices, loaded>>

DeadlinePasses(a) ==
    /\ \E i \in DOMAIN queue :
          /\ queue[i].automation = a /\ ~queue[i].late
          /\ queue' = [queue EXCEPT ![i].late = TRUE]
    /\ UNCHANGED <<rows, table, processing, awaited, redrain, alert, recorded,
                   devices, loaded>>

AlertFires ==
    /\ alert /\ alert' = FALSE
    /\ UNCHANGED <<rows, table, queue, processing, awaited, redrain, recorded,
                   devices, loaded>>

ClearQueue ==
    /\ queue # <<>>
    /\ queue' = <<>> /\ alert' = FALSE
    /\ UNCHANGED <<rows, table, processing, awaited, redrain, recorded, devices, loaded>>

-----------------------------------------------------------------------------
(* The rows of the automations, through the API. *)

\* Seeded bug: a schedule is set for a row that is gone.
SetScheduleAnyway(a) ==
    /\ a \in Edited
    /\ scheduled' = scheduled \cup {a} /\ table' = table \cup {a}
    /\ UNCHANGED <<existing, enabled, queueVars, devices, loaded>>

SetSchedule(a) ==
    /\ a \in Edited \cap existing
    /\ scheduled' = scheduled \cup {a} /\ table' = table \cup {a}
    /\ UNCHANGED <<existing, enabled, queueVars, devices, loaded>>

RemoveSchedule(a) ==
    /\ a \in Edited \cap existing
    /\ scheduled' = scheduled \ {a} /\ table' = table \ {a}
    /\ UNCHANGED <<existing, enabled, queueVars, devices, loaded>>

Enable(a) ==
    /\ a \in Edited \cap existing
    /\ enabled' = enabled \cup {a}
    /\ UNCHANGED <<existing, scheduled, table, queueVars, devices, loaded>>

Disable(a) ==
    /\ a \in Edited
    /\ enabled' = enabled \ {a}
    /\ UNCHANGED <<existing, scheduled, table, queueVars, devices, loaded>>

\* A queued entry stays.
Delete(a) ==
    /\ a \in Edited
    /\ existing' = existing \ {a} /\ enabled' = enabled \ {a}
    /\ scheduled' = scheduled \ {a} /\ table' = table \ {a}
    /\ UNCHANGED <<queueVars, devices, loaded>>

-----------------------------------------------------------------------------
(* The devices, the plugin and the process. *)

DeviceComesOrGoes(d) ==
    /\ online' = IF d \in online THEN online \ {d} ELSE online \cup {d}
    /\ UNCHANGED <<rows, table, queueVars, busy, captured, loaded>>

\* A capture session, a run of the API, or the Frida endpoints.
OtherTakes(d) ==
    /\ d \notin busy /\ busy' = busy \cup {d}
    /\ UNCHANGED <<rows, table, queueVars, online, captured, loaded>>

\* The other user frees the device, leaving its mitmdump or not.
OtherFrees(d) ==
    /\ d \in busy /\ \A r \in awaited : r.device # d
    /\ busy' = busy \ {d}
    /\ captured' \in {captured, captured \cup {d}}
    /\ UNCHANGED <<rows, table, queueVars, online, loaded>>

CaptureStops(d) ==
    /\ d \in captured /\ captured' = captured \ {d}
    /\ UNCHANGED <<rows, table, queueVars, online, busy, loaded>>

PluginUnloads ==
    /\ loaded /\ loaded' = FALSE
    /\ queue' = [i \in DOMAIN queue |->
          [queue[i] EXCEPT !.away = @ \/ queue[i].automation \in existing \cap Managed]]
    /\ UNCHANGED <<rows, table, processing, awaited, redrain, alert, recorded, devices>>

PluginLoads ==
    /\ ~loaded /\ loaded' = TRUE
    /\ UNCHANGED <<rows, table, queueVars, devices>>

\* A crash or a shutdown, and the start after it: loadSchedules.
Restart ==
    /\ table' = enabled \cap scheduled
    /\ queue' = <<>> /\ processing' = FALSE /\ awaited' = {}
    /\ redrain' = FALSE /\ alert' = FALSE
    /\ online' = {} /\ busy' = {} /\ captured' = {}
    /\ loaded' = TRUE
    /\ UNCHANGED <<rows, recorded>>

Next ==
    \/ Tick \/ Redrain \/ RunFreesDevice \/ PassEnds
    \/ AlertFires \/ ClearQueue \/ PluginUnloads \/ PluginLoads \/ Restart
    \/ \E a \in Automations :
          \/ Enqueue(a) \/ DeadlinePasses(a)
          \/ SetSchedule(a) \/ RemoveSchedule(a)
          \/ Enable(a) \/ Disable(a) \/ Delete(a)
    \/ \E d \in Devices :
          \/ DeviceComesOrGoes(d) \/ CaptureStops(d)
          \/ OtherTakes(d) \/ OtherFrees(d)

\* The interval and the timers fire; the runner bounds every run.
Fairness ==
    /\ WF_vars(Tick) /\ WF_vars(Redrain)
    /\ WF_vars(RunFreesDevice \/ PassEnds)
    /\ \A a \in Automations : WF_vars(DeadlinePasses(a))

Spec == Init /\ [][Next]_vars /\ Fairness

-----------------------------------------------------------------------------
(* Properties. *)

\* The health alert is never armed for a queue that has drained, whichever way it
\* drained: by a run, by the sweep, by the operator (lines 461-468, 488-492).
AlertMeansWaiting == alert => queue # <<>>

\* A pass awaits at most one run, processingQueue says whether it does, and a
\* run that has not cleaned up holds its device (lines 406-409).
OneRunAtATime ==
    /\ processing <=> awaited # {}
    /\ \A r, s \in awaited : r = s
    /\ \A r \in awaited : r.device = None \/ r.device \in busy

RunStarted(a) == \E r \in awaited' \ awaited : r.automation = a

\* The runner refuses to run a on a free device that is still being captured.
RunRefused(a) == a \notin Needless /\ Available(a) \cap captured # {}

\* Unless the operator clears the queue or the process restarts, an entry leaves
\* the queue only with a session row for the operator to see, that of its run or
\* that of its timeout (lines 420-458).  The code makes one exception: the run
\* that the runner refuses.
LeavesATrace ==
    [][\/ ClearQueue \/ Restart
       \/ \A a \in Queued \ Names(queue') : a \in recorded' \/ RunRefused(a)]_vars

\* An entry that can run when the sweep finds it is not dropped, however late it
\* is (lines 425-430): it leaves the queue by being run.
RunnableIsNotDropped ==
    [][\/ ClearQueue \/ Restart
       \/ \A a \in Queued \ Names(queue') :
            Resolvable(a) => RunStarted(a) \/ RunRefused(a)]_vars

\* No entry waits for ever: it runs or times out, unless its plugin is away
\* (lines 19-24).
EveryEntryLeaves ==
    \A a \in Automations : a \in Queued ~> (a \notin Queued \/ PluginAway(a))

\* The waiting time in the message of a timeout includes no time in which the
\* plugin was away (lines 431-448).
OutageIsNotWaited ==
    [][\A i \in DOMAIN queue :
         queue[i].away /\ queue[i].automation \in recorded' =>
            \/ queue[i].automation \in Names(queue')
            \/ RunStarted(queue[i].automation)]_vars

\* The table in memory holds the schedule of every enabled row that has one:
\* otherwise it would not take effect until a restart (api/managed-automations.ts
\* lines 281-283).
SchedulesInSync == enabled \cap scheduled \subseteq table

=============================================================================
