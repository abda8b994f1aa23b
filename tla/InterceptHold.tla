--------------------------- MODULE InterceptHold ---------------------------
(***************************************************************************)
(* Interactive intercept: the mitmproxy addon posts a flow in each of its  *)
(* phases and waits, every connected UI shows it, and the first verdict,   *)
(* the timer of the hold or the stop of a capture lets it go               *)
(* (intercept-hold-store.ts, api/intercept-live.ts, mitmproxy_bridge.py).  *)
(***************************************************************************)
EXTENDS Naturals, Sequences, FiniteSets

CONSTANTS Posts,      \* the addon's posts; each waits for one verdict
          IdOf,       \* the flow id of a post
          Before,     \* the post of the flow's earlier phase, or Nobody
          UIs, Nobody

FlowIds == {IdOf[p] : p \in Posts}

ASSUME HoldAssumption ==
    /\ Nobody \notin Posts /\ Before \in [Posts -> Posts \cup {Nobody}]
    /\ \A p \in Posts : Before[p] # Nobody => IdOf[Before[p]] = IdOf[p]

VARIABLES
    armed,       \* armed.enabled
    addon,       \* what the addon knows of a post's verdict
    resolution,  \* what the promise of the hold endpoint resolved to
    heldFlows,   \* the post that is registered under a flow id
    doubled,     \* history: flow ids that were registered twice at once
    connected,   \* UIs with a websocket
    inbox,       \* messages on their way to each UI
    shown,       \* the UI's queue: the post it shows under a flow id
    verdicts     \* each UI's resolve requests on their way to the server

serverVars == <<resolution, heldFlows, doubled>>
uiVars == <<connected, inbox, shown, verdicts>>
holdVars == <<armed, addon, serverVars, uiVars>>

NoQueue == [i \in FlowIds |-> Nobody]

HoldInit ==
    /\ armed = FALSE
    /\ addon = [p \in Posts |-> "idle"]
    /\ resolution = [p \in Posts |-> "none"]
    /\ heldFlows = NoQueue /\ doubled = {}
    /\ connected = {} /\ inbox = [u \in UIs |-> <<>>]
    /\ shown = [u \in UIs |-> NoQueue] /\ verdicts = [u \in UIs |-> <<>>]

Broadcast(messages) ==
    inbox' = [u \in UIs |-> IF u \in connected THEN inbox[u] \o messages ELSE inbox[u]]

Ended(ids) == [kind |-> "resolved", ids |-> ids]

Registered == {heldFlows[i] : i \in FlowIds} \ {Nobody}

Unregister(P) ==
    heldFlows' = [i \in FlowIds |-> IF heldFlows[i] \in P THEN Nobody ELSE heldFlows[i]]

\* The promises of the posts P resolve.  Their handlers continue before any other
\* event is served: they tell the UIs and answer the addon.
Resolve(P, action) ==
    resolution' = [p \in Posts |-> IF p \in P THEN action ELSE resolution[p]]

-----------------------------------------------------------------------------
(* The addon and the hold endpoint.                                        *)

SetArmed(on) ==
    /\ armed # on /\ armed' = on
    /\ UNCHANGED <<addon, serverVars, uiVars>>

\* A flow that no longer matches, because the addon's copy of the armed state is
\* old, is forwarded at once.
PostUnmatched(p) ==
    /\ ~armed /\ Resolve({p}, "forward")
    /\ UNCHANGED <<heldFlows, doubled, uiVars>>

\* hold: a post that is registered under this id is forwarded.
PostHeld(p) ==
    /\ armed
    /\ LET i == IdOf[p]
           existing == {heldFlows[i]} \ {Nobody}
       IN /\ Broadcast(<<[kind |-> "held", id |-> i, post |-> p]>>
                       \o (IF existing = {} THEN <<>> ELSE <<Ended({i})>>))
          /\ Resolve(existing, "forward")
          /\ heldFlows' = [heldFlows EXCEPT ![i] = p]
          /\ doubled' = IF existing = {} THEN doubled ELSE doubled \cup {i}
    /\ UNCHANGED <<connected, shown, verdicts>>

AddonPosts(p) ==
    /\ addon[p] = "idle" /\ addon' = [addon EXCEPT ![p] = "waiting"]
    /\ Before[p] # Nobody => addon[Before[p]] \in {"forward", "drop"}
    /\ PostUnmatched(p) \/ PostHeld(p)
    /\ UNCHANGED armed

\* The answer reaches the addon.
AddonHears(p) ==
    /\ addon[p] = "waiting" /\ resolution[p] # "none"
    /\ addon' = [addon EXCEPT ![p] = resolution[p]]
    /\ UNCHANGED <<armed, serverVars, uiVars>>

\* The connection fails, or the addon's own timeout runs out: it fails open, and
\* the server does not notice.
AddonGivesUp(p) ==
    /\ addon[p] = "waiting" /\ addon' = [addon EXCEPT ![p] = "forward"]
    /\ UNCHANGED <<armed, serverVars, uiVars>>

\* Seeded bug: the UIs do not hear of a hold that ran out.
TimerFiresUnseen(p) ==
    /\ heldFlows[IdOf[p]] = p /\ Resolve({p}, "forward")
    /\ heldFlows' = [heldFlows EXCEPT ![IdOf[p]] = Nobody]
    /\ UNCHANGED <<armed, addon, doubled, uiVars>>

\* The timer of a hold lives as long as its entry, and deletes by flow id.
TimerFires(p) ==
    /\ heldFlows[IdOf[p]] = p /\ Resolve({p}, "forward")
    /\ heldFlows' = [heldFlows EXCEPT ![IdOf[p]] = Nobody]
    /\ Broadcast(<<Ended({IdOf[p]})>>)
    /\ UNCHANGED <<armed, addon, doubled, connected, shown, verdicts>>

\* Seeded bug: the map is cleared and the promises of its entries are forgotten.
DropUnanswered ==
    /\ Registered # {} /\ Unregister(Registered)
    /\ Broadcast(<<Ended({IdOf[p] : p \in Registered})>>)
    /\ UNCHANGED <<armed, addon, resolution, doubled, connected, shown, verdicts>>

\* A capture stops, on any device.
DropAllHeld ==
    /\ Registered # {} /\ Resolve(Registered, "forward") /\ Unregister(Registered)
    /\ Broadcast(<<Ended({IdOf[p] : p \in Registered})>>)
    /\ UNCHANGED <<armed, addon, doubled, connected, shown, verdicts>>

-----------------------------------------------------------------------------
(* The UIs: one websocket each, in order in both directions.               *)

\* It subscribes and asks for the held flows.
UIConnects(u) ==
    /\ u \notin connected /\ connected' = connected \cup {u}
    /\ inbox' = [inbox EXCEPT ![u] = <<[kind |-> "snapshot", queue |-> heldFlows]>>]
    /\ UNCHANGED <<armed, addon, serverVars, shown, verdicts>>

Shows(queue, m) ==
    CASE m.kind = "snapshot" -> m.queue
      [] m.kind = "held" -> [queue EXCEPT ![m.id] = IF @ = Nobody THEN m.post ELSE @]
      [] m.kind = "resolved" -> [i \in FlowIds |-> IF i \in m.ids THEN Nobody ELSE queue[i]]

UIReceives(u) ==
    /\ inbox[u] # <<>> /\ inbox' = [inbox EXCEPT ![u] = Tail(@)]
    /\ shown' = [shown EXCEPT ![u] = Shows(@, Head(inbox[u]))]
    /\ UNCHANGED <<armed, addon, serverVars, connected, verdicts>>

\* The flow leaves the UI's queue before the server has answered.
UIDecides(u, i, action) ==
    /\ shown[u][i] # Nobody /\ shown' = [shown EXCEPT ![u][i] = Nobody]
    /\ verdicts' = [verdicts EXCEPT ![u] =
                       Append(@, [id |-> i, post |-> shown[u][i], action |-> action])]
    /\ UNCHANGED <<armed, addon, serverVars, connected, inbox>>

\* resolveHold; the endpoint answers 404 for a flow id that is not held.
VerdictArrives(u) ==
    /\ verdicts[u] # <<>> /\ verdicts' = [verdicts EXCEPT ![u] = Tail(@)]
    /\ LET v == Head(verdicts[u])
           P == {heldFlows[v.id]} \ {Nobody}
       IN /\ Resolve(P, v.action) /\ Unregister(P)
          /\ Broadcast(IF P = {} THEN <<>> ELSE <<Ended({v.id})>>)
    /\ UNCHANGED <<armed, addon, doubled, connected, shown>>

-----------------------------------------------------------------------------
HoldNext ==
    \/ \E on \in BOOLEAN : SetArmed(on)
    \/ \E p \in Posts : AddonPosts(p) \/ AddonHears(p) \/ AddonGivesUp(p) \/ TimerFires(p)
    \/ DropAllHeld
    \/ \E u \in UIs : UIConnects(u) \/ UIReceives(u) \/ VerdictArrives(u)
    \/ \E u \in UIs, i \in FlowIds, action \in {"forward", "drop"} : UIDecides(u, i, action)

HoldSpec == HoldInit /\ [][HoldNext]_holdVars

\* Timers fire and messages arrive.  No UI has to decide, and no addon to give up.
HoldFairness ==
    /\ \A p \in Posts : WF_holdVars(AddonHears(p)) /\ WF_holdVars(TimerFires(p))
    /\ \A u \in UIs : WF_holdVars(UIReceives(u)) /\ WF_holdVars(VerdictArrives(u))

-----------------------------------------------------------------------------
(* Properties.                                                             *)

HoldTypeOK ==
    /\ armed \in BOOLEAN /\ connected \subseteq UIs /\ doubled \subseteq FlowIds
    /\ addon \in [Posts -> {"idle", "waiting", "forward", "drop"}]
    /\ resolution \in [Posts -> {"none", "forward", "drop"}]
    /\ heldFlows \in [FlowIds -> Posts \cup {Nobody}]
    /\ shown \in [UIs -> [FlowIds -> Posts \cup {Nobody}]]
    /\ \A u \in UIs : \A n \in DOMAIN verdicts[u] :
         verdicts[u][n] \in [id : FlowIds, post : Posts, action : {"forward", "drop"}]

\* A UI that has received everything shows exactly the flows that are held, but
\* for those it has decided on itself: nothing is held unseen, and no flow that
\* was resolved stays in a queue.  A flow id that two posts held at once is left
\* out: the message of the first one's end removes the second from the queues.
QueuesFollow ==
    \A u \in connected, i \in FlowIds \ doubled :
        inbox[u] = <<>> =>
            \/ shown[u][i] = heldFlows[i]
            \/ shown[u][i] = Nobody /\ \E n \in DOMAIN verdicts[u] : verdicts[u][n].id = i

\* No flow of a phone is stuck: every post is answered, and every queue is empty
\* in the end, whoever decides or connects and when.
HoldsEnd ==
    <>[](/\ \A p \in Posts : addon[p] # "waiting"
         /\ \A u \in UIs : \A i \in FlowIds : shown[u][i] = Nobody)

=============================================================================
