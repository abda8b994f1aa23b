------------------------ MODULE NotificationService ------------------------
(***************************************************************************)
(* Notifications (notification-service.ts): events of quiet hours wait in  *)
(* a database table, one row per source, until a timer, a restart or a     *)
(* user sends them; an event that is sent is tried up to MAX_RETRIES times *)
(* on each channel that subscribes to it.                                  *)
(***************************************************************************)
EXTENDS Naturals, FiniteSets

CONSTANTS Events,      \* each is emitted once
          Critical,    \* events that ignore quiet hours
          SourceOf,    \* sourceType and sourceId, or NoSource
          Channels, NoSource,
          MaxRetries   \* MAX_RETRIES

ASSUME NotificationAssumption ==
    /\ Critical \subseteq Events /\ MaxRetries \in Nat \ {0}

VARIABLES
    quiet,       \* isInQuietHours
    subscribed,  \* the channels that are enabled and subscribe
    emitted, up,
    rows,        \* notification_queue
    flushing,    \* what flushQueue has deleted from it and not dispatched yet
    flushTimer,
    attempts,    \* attempts left of a dispatch; 0 when there is none
    history,     \* notification_history
    dispatched   \* history variable: how often an event was dispatched

notificationVars == <<quiet, subscribed, emitted, up, rows, flushing, flushTimer, attempts, history,
                      dispatched>>

NoAttempts == [e \in Events |-> [c \in Channels |-> 0]]

NotificationInit ==
    /\ quiet = FALSE /\ subscribed = Channels /\ emitted = {} /\ up = TRUE
    /\ rows = {} /\ flushing = {} /\ flushTimer = FALSE
    /\ attempts = NoAttempts /\ history = {}
    /\ dispatched = [e \in Events |-> 0]

-----------------------------------------------------------------------------
\* dispatchEvent of all events of E.
Dispatch(E) ==
    /\ attempts' = [e \in Events |-> [c \in Channels |->
                      IF e \in E /\ c \in subscribed THEN MaxRetries ELSE attempts[e][c]]]
    /\ dispatched' = [e \in Events |-> IF e \in E THEN dispatched[e] + 1 ELSE dispatched[e]]

NoDispatch == UNCHANGED <<attempts, dispatched>>

\* The process runs, and is not in the middle of a flush, which awaits nothing.
Ready == up /\ flushing = {}

\* Seeded bug: the rows are deleted after the dispatch, which a crash may prevent.
FlushDispatchesFirst(R) ==
    rows' \in {rows, rows \ R} /\ Dispatch(R) /\ UNCHANGED flushing

\* flushQueue and sendQueued delete the rows R "first to avoid re-processing on crash".
FlushQueue(R) ==
    rows' = rows \ R /\ flushing' = R /\ NoDispatch

\* Then they dispatch them one by one; their order is left open.
DispatchFlushed(e) ==
    /\ up /\ e \in flushing /\ flushing' = flushing \ {e} /\ Dispatch({e})
    /\ UNCHANGED <<quiet, subscribed, emitted, up, rows, flushTimer, history>>

\* scheduleFlush.
ScheduleFlush ==
    IF flushTimer \/ rows = {} THEN NoDispatch /\ UNCHANGED <<rows, flushing, flushTimer>>
    ELSE IF quiet THEN flushTimer' = TRUE /\ NoDispatch /\ UNCHANGED <<rows, flushing>>
    ELSE FlushQueue(rows) /\ UNCHANGED flushTimer

\* The queued rows that a new event replaces.
SameSource(e) == {r \in rows : SourceOf[r] = SourceOf[e] /\ SourceOf[e] # NoSource}

\* A new row sees to it that a timer is set (scheduleFlush, in quiet hours).
Emit(e) ==
    /\ Ready /\ e \notin emitted /\ emitted' = emitted \cup {e}
    /\ \/ /\ e \in Critical \/ ~quiet
          /\ Dispatch({e}) /\ UNCHANGED <<rows, flushTimer>>
       \/ /\ e \notin Critical /\ quiet
          /\ IF subscribed = {} THEN UNCHANGED <<rows, flushTimer>>
             ELSE rows' = (rows \ SameSource(e)) \cup {e} /\ flushTimer' = TRUE
          /\ NoDispatch
    /\ UNCHANGED <<quiet, subscribed, up, flushing, history>>

\* The timer of scheduleFlush fires.
FlushTimerFires ==
    /\ Ready /\ flushTimer
    /\ IF quiet THEN flushTimer' = (rows # {}) /\ NoDispatch /\ UNCHANGED <<rows, flushing>>
                ELSE flushTimer' = FALSE /\ FlushQueue(rows)
    /\ UNCHANGED <<quiet, subscribed, emitted, up, history>>

\* sendQueued, and sendAllQueued for all rows.
SendQueued(R) ==
    /\ Ready /\ R # {} /\ FlushQueue(R)
    /\ UNCHANGED <<quiet, subscribed, emitted, up, flushTimer, history>>

DiscardQueued(e) ==
    /\ Ready /\ e \in rows /\ rows' = rows \ {e} /\ NoDispatch
    /\ UNCHANGED <<quiet, subscribed, emitted, up, flushing, flushTimer, history>>

\* One attempt on one channel.  The last failure, or a success, is written down.
Attempt(e, c, success) ==
    /\ Ready /\ attempts[e][c] > 0
    /\ LET done == success \/ attempts[e][c] = 1 IN
       /\ attempts' = [attempts EXCEPT ![e][c] = IF done THEN 0 ELSE @ - 1]
       /\ history' = IF done THEN history \cup {[event |-> e, channel |-> c, success |-> success]}
                     ELSE history
    /\ UNCHANGED <<quiet, subscribed, emitted, up, rows, flushing, flushTimer, dispatched>>

\* Also between the deletion of the rows and their dispatch.
Crash ==
    /\ up /\ up' = FALSE /\ flushTimer' = FALSE /\ flushing' = {} /\ attempts' = NoAttempts
    /\ UNCHANGED <<quiet, subscribed, emitted, rows, history, dispatched>>

\* Seeded bug: what was queued before the restart waits for the next event.
StartUpWithoutFlush ==
    /\ ~up /\ up' = TRUE /\ NoDispatch
    /\ UNCHANGED <<quiet, subscribed, emitted, rows, flushing, flushTimer, history>>

\* The constructor: what was queued before is flushed or scheduled.
StartUp ==
    /\ ~up /\ up' = TRUE /\ ScheduleFlush
    /\ UNCHANGED <<quiet, subscribed, emitted, history>>

\* The clock, or the settings of the quiet hours.
QuietHoursChange ==
    /\ quiet' = ~quiet
    /\ UNCHANGED <<subscribed, emitted, up, rows, flushing, flushTimer, attempts, history,
                   dispatched>>

\* A channel is enabled, disabled, or changes its events.
Subscribe(c) ==
    /\ flushing = {}
    /\ subscribed' = IF c \in subscribed THEN subscribed \ {c} ELSE subscribed \cup {c}
    /\ UNCHANGED <<quiet, emitted, up, rows, flushing, flushTimer, attempts, history, dispatched>>

-----------------------------------------------------------------------------
NotificationNext ==
    \/ \E e \in Events : Emit(e) \/ DiscardQueued(e) \/ DispatchFlushed(e)
    \/ \E R \in {{r} : r \in rows} \cup {rows} : SendQueued(R)
    \/ FlushTimerFires \/ Crash \/ StartUp \/ QuietHoursChange
    \/ \E c \in Channels : Subscribe(c)
    \/ \E e \in Events, c \in Channels, success \in BOOLEAN : Attempt(e, c, success)

NotificationSpec == NotificationInit /\ [][NotificationNext]_notificationVars

NotificationFairness ==
    /\ WF_notificationVars(FlushTimerFires) /\ WF_notificationVars(StartUp)
    /\ WF_notificationVars(\E e \in Events : DispatchFlushed(e))
    /\ \A e \in Events, c \in Channels :
         WF_notificationVars(\E success \in BOOLEAN : Attempt(e, c, success))

-----------------------------------------------------------------------------
(* Properties.                                                             *)

NotificationTypeOK ==
    /\ quiet \in BOOLEAN /\ up \in BOOLEAN /\ flushTimer \in BOOLEAN
    /\ subscribed \subseteq Channels /\ emitted \subseteq Events /\ rows \subseteq emitted
    /\ flushing \subseteq emitted
    /\ attempts \in [Events -> [Channels -> 0 .. MaxRetries]]
    /\ history \subseteq [event : Events, channel : Channels, success : BOOLEAN]
    /\ dispatched \in [Events -> Nat]

\* The timer, a restart, and the users of the queue page never send the same event
\* twice, wherever a crash cuts a flush off: what is dispatched or about to be is no
\* longer in the table.
SentOnce ==
    \A e \in Events :
        /\ dispatched[e] <= 1
        /\ e \in rows \cup flushing => dispatched[e] = 0
        /\ e \in flushing => e \notin rows

\* Once quiet hours stay over, the table is empty, no flush is in progress and no
\* attempt is left to make, so that what was dispatched is written down or was cut
\* off by a crash: no path leaves rows without a timer.
QueueDrains ==
    <>[]~quiet => <>[](rows = {} /\ flushing = {} /\ (up => attempts = NoAttempts))

=============================================================================
