------------------------ MODULE InterceptHold_proof ------------------------
(***************************************************************************)
(* The queues of the UIs follow the server's map of held flows, for any    *)
(* posts, flow ids and UIs, however messages, verdicts and timers cross.   *)
(***************************************************************************)
EXTENDS InterceptHold, NaturalsInduction, WellFoundedInduction, TLAPS

Queues == [FlowIds -> Posts \cup {Nobody}]

Messages ==
    [kind : {"snapshot"}, queue : Queues] \cup [kind : {"held"}, id : FlowIds, post : Posts]
        \cup [kind : {"resolved"}, ids : SUBSET FlowIds]

Verdicts == [id : FlowIds, post : Posts, action : {"forward", "drop"}]

HoldTypes ==
    /\ armed \in BOOLEAN /\ connected \subseteq UIs /\ doubled \subseteq FlowIds
    /\ addon \in [Posts -> {"idle", "waiting", "forward", "drop"}]
    /\ resolution \in [Posts -> {"none", "forward", "drop"}]
    /\ heldFlows \in Queues /\ shown \in [UIs -> Queues]
    /\ inbox \in [UIs -> Seq(Messages)] /\ verdicts \in [UIs -> Seq(Verdicts)]

\* A post is registered under the id of its flow.
OwnId == \A i \in FlowIds : heldFlows[i] # Nobody => IdOf[heldFlows[i]] = i

-----------------------------------------------------------------------------
(* What a UI that shows post v (or Nobody) under flow id i will show when  *)
(* it has received its messages.                                           *)

After(v, m, i) ==
    CASE m.kind = "snapshot" -> m.queue[i]
      [] m.kind = "held" -> IF m.id = i /\ v = Nobody THEN m.post ELSE v
      [] m.kind = "resolved" -> IF i \in m.ids THEN Nobody ELSE v

Announces(m, i) == m.kind = "held" /\ m.id = i

\* The UI receives q one by one; a flow is announced when it shows none under its id.
Replays(q, v, i, f) ==
    /\ f \in [0 .. Len(q) -> Posts \cup {Nobody}] /\ f[0] = v
    /\ \A n \in 1 .. Len(q) :
          f[n] = After(f[n - 1], q[n], i) /\ (Announces(q[n], i) => f[n - 1] = Nobody)

Leads(q, v, w, i) == \E f : Replays(q, v, i, f) /\ f[Len(q)] = w

\* A verdict of UI u on flow i is on its way.
Pending(u, i) == \E n \in DOMAIN verdicts[u] : verdicts[u][n].id = i

Follows(u, i) ==
    \E w : /\ Leads(inbox[u], shown[u][i], w, i)
           /\ w = heldFlows[i] \/ (w = Nobody /\ Pending(u, i))

HoldInv ==
    /\ HoldTypes /\ OwnId
    /\ \A u \in connected, i \in FlowIds \ doubled : Follows(u, i)

-----------------------------------------------------------------------------
(* Replaying the messages.                                                 *)

LEMMA LeastNatural ==
    ASSUME NEW S \in SUBSET Nat, S # {}
    PROVE  \E n \in S : \A m \in S : n <= m
  <1> DEFINE R == {ss \in Nat \X Nat : ss[1] < ss[2]}
  <1>1. IsWellFoundedOn(R, Nat)
    BY NatLessThanWellFounded DEF OpToRel
  <1>2. PICK n \in S : \A m \in S : ~ (<<m, n>> \in R)
    BY <1>1, WFMin
  <1>3. \A m \in S : m \in Nat /\ n \in Nat /\ ~(m < n)
    BY <1>2
  <1> QED BY <1>3

LEMMA AfterType ==
    ASSUME NEW v \in Posts \cup {Nobody}, NEW m \in Messages, NEW i \in FlowIds
    PROVE  After(v, m, i) \in Posts \cup {Nobody}
  BY DEF After, Messages, Queues

\* What the UI does with a message is that, for each flow id.
LEMMA ShowsEach ==
    ASSUME NEW queue \in Queues, NEW m \in Messages
    PROVE  /\ Shows(queue, m) \in Queues
           /\ \A i \in FlowIds : Shows(queue, m)[i] = After(queue[i], m, i)
  <1>1. CASE m \in [kind : {"snapshot"}, queue : Queues]
    BY <1>1 DEF Shows, After
  <1>2. CASE m \in [kind : {"held"}, id : FlowIds, post : Posts]
    <2>1. Shows(queue, m) = [queue EXCEPT ![m.id] = IF @ = Nobody THEN m.post ELSE @]
      BY <1>2 DEF Shows
    <2> QED BY <1>2, <2>1 DEF After, Queues
  <1>3. CASE m \in [kind : {"resolved"}, ids : SUBSET FlowIds]
    <2>1. Shows(queue, m) = [i \in FlowIds |-> IF i \in m.ids THEN Nobody ELSE queue[i]]
      BY <1>3 DEF Shows
    <2> QED BY <1>3, <2>1 DEF After, Queues
  <1> QED BY <1>1, <1>2, <1>3 DEF Messages

LEMMA LeadsNowhere ==
    ASSUME NEW v \in Posts \cup {Nobody}, NEW w, NEW i \in FlowIds
    PROVE  Leads(<<>>, v, w, i) <=> w = v
  <1>1. Len(<<>>) = 0 /\ 0 .. 0 = {0} /\ 1 .. 0 = {} OBVIOUS
  <1>2. Replays(<<>>, v, i, [n \in {0} |-> v])
    BY <1>1 DEF Replays
  <1>3. \A f : Replays(<<>>, v, i, f) => f[Len(<<>>)] = v
    BY <1>1 DEF Replays
  <1> QED BY <1>1, <1>2, <1>3 DEF Leads

\* One message more.
LEMMA LeadsOn ==
    ASSUME NEW q \in Seq(Messages), NEW m \in Messages, NEW i \in FlowIds,
           NEW v, NEW w, Leads(q, v, w, i), Announces(m, i) => w = Nobody
    PROVE  Leads(Append(q, m), v, After(w, m, i), i)
  <1>1. PICK f : Replays(q, v, i, f) /\ f[Len(q)] = w
    BY DEF Leads
  <1> DEFINE l == Len(q) + 1
             g == [n \in 0 .. l |-> IF n = l THEN After(w, m, i) ELSE f[n]]
  <1>2. /\ Len(q) \in Nat /\ l \in Nat /\ Len(Append(q, m)) = l /\ Append(q, m)[l] = m
        /\ \A n \in 1 .. Len(q) : Append(q, m)[n] = q[n]
    OBVIOUS
  <1>3. w \in Posts \cup {Nobody} /\ After(w, m, i) \in Posts \cup {Nobody}
    BY <1>1, <1>2, AfterType DEF Replays
  <1>4. g \in [0 .. l -> Posts \cup {Nobody}] /\ g[0] = v /\ g[l] = After(w, m, i)
        /\ g[l - 1] = w
    BY <1>1, <1>2, <1>3 DEF Replays
  <1>5. ASSUME NEW n \in 1 .. l
        PROVE  /\ g[n] = After(g[n - 1], Append(q, m)[n], i)
               /\ Announces(Append(q, m)[n], i) => g[n - 1] = Nobody
    <2>1. CASE n = l
      BY <1>2, <1>4, <2>1
    <2>2. CASE n # l
      <3>1. n \in 1 .. Len(q) /\ n - 1 \in 0 .. Len(q) /\ g[n] = f[n] /\ g[n - 1] = f[n - 1]
        BY <1>2, <2>2
      <3> QED BY <1>1, <1>2, <3>1 DEF Replays
    <2> QED BY <2>1, <2>2
  <1> HIDE DEF g
  <1>6. Replays(Append(q, m), v, i, g) /\ g[Len(Append(q, m))] = After(w, m, i)
    BY <1>2, <1>4, <1>5 DEF Replays
  <1> QED BY <1>6 DEF Leads

\* The first message is received.
LEMMA LeadsPast ==
    ASSUME NEW q \in Seq(Messages), q # <<>>, NEW i \in FlowIds, NEW v, NEW w,
           Leads(q, v, w, i)
    PROVE  Leads(Tail(q), After(v, Head(q), i), w, i)
  <1>1. PICK f : Replays(q, v, i, f) /\ f[Len(q)] = w
    BY DEF Leads
  <1> DEFINE l == Len(q) - 1
             g == [n \in 0 .. l |-> f[n + 1]]
  <1>2. /\ Len(q) \in Nat /\ l \in Nat /\ Len(Tail(q)) = l /\ Head(q) = q[1]
        /\ \A n \in 1 .. l : Tail(q)[n] = q[n + 1]
    OBVIOUS
  <1>3. g \in [0 .. l -> Posts \cup {Nobody}] /\ g[0] = After(v, Head(q), i) /\ g[l] = w
    BY <1>1, <1>2 DEF Replays
  <1>4. ASSUME NEW n \in 1 .. l
        PROVE  /\ g[n] = After(g[n - 1], Tail(q)[n], i)
               /\ Announces(Tail(q)[n], i) => g[n - 1] = Nobody
    <2>1. /\ n + 1 \in 1 .. Len(q) /\ (n + 1) - 1 = n /\ n - 1 \in 0 .. l /\ (n - 1) + 1 = n
          /\ g[n] = f[n + 1] /\ g[n - 1] = f[n] /\ Tail(q)[n] = q[n + 1]
      BY <1>2
    <2> QED BY <1>1, <2>1 DEF Replays
  <1> HIDE DEF g
  <1>5. Replays(Tail(q), After(v, Head(q), i), i, g) /\ g[Len(Tail(q))] = w
    BY <1>2, <1>3, <1>4 DEF Replays
  <1> QED BY <1>5 DEF Leads

\* A flow that the UI takes from its queue: what comes for its id later is as before.
LEMMA LeadsWithout ==
    ASSUME NEW q \in Seq(Messages), NEW i \in FlowIds, NEW v, v # Nobody, NEW w,
           Leads(q, v, w, i)
    PROVE  Leads(q, Nobody, w, i) \/ Leads(q, Nobody, Nobody, i)
  <1>1. PICK f : Replays(q, v, i, f) /\ f[Len(q)] = w
    BY DEF Leads
  <1> DEFINE Settles(n) == q[n].kind = "snapshot" \/ (q[n].kind = "resolved" /\ i \in q[n].ids)
             Settled(n) == \E k \in 1 .. n : Settles(k)
             g == [n \in 0 .. Len(q) |-> IF Settled(n) THEN f[n] ELSE Nobody]
  <1>2. Len(q) \in Nat /\ \A n \in 1 .. Len(q) : q[n] \in Messages
    OBVIOUS
  <1>3. g \in [0 .. Len(q) -> Posts \cup {Nobody}] /\ g[0] = Nobody
    BY <1>1, <1>2 DEF Replays
  <1>4. \* Until then the UI would show v.
        \A n \in 0 .. Len(q) : ~Settled(n) => f[n] = v
    <2> DEFINE S == {n \in 0 .. Len(q) : ~Settled(n) /\ f[n] # v}
    <2> SUFFICES ASSUME S # {} PROVE FALSE
      OBVIOUS
    <2>1. S \in SUBSET Nat
      BY <1>2
    <2>2. PICK n \in S : \A m \in S : n <= m
      BY <2>1, LeastNatural
    <2>3. /\ n \in 1 .. Len(q) /\ n - 1 \in 0 .. Len(q) /\ n - 1 \notin S
          /\ q[n] \in Messages /\ 1 .. n = (1 .. (n - 1)) \cup {n}
      BY <1>1, <1>2, <2>2 DEF Replays
    <2>4. ~Settled(n - 1) /\ ~Settles(n) /\ f[n] # v
      BY <2>2, <2>3
    <2>5. f[n - 1] = v
      BY <2>3, <2>4
    <2> HIDE DEF S, Settled, g
    <2>6. f[n] = After(v, q[n], i)
      BY <1>1, <2>3, <2>5 DEF Replays
    <2> QED BY <2>3, <2>4, <2>6 DEF After, Messages
  <1>5. ASSUME NEW n \in 1 .. Len(q)
        PROVE  /\ g[n] = After(g[n - 1], q[n], i)
               /\ Announces(q[n], i) => g[n - 1] = Nobody
    <2>1. /\ n - 1 \in 0 .. Len(q) /\ q[n] \in Messages
          /\ Settled(n) <=> Settled(n - 1) \/ Settles(n)
          /\ f[n] = After(f[n - 1], q[n], i) /\ (Announces(q[n], i) => f[n - 1] = Nobody)
      <3>1. n - 1 \in 0 .. Len(q) /\ q[n] \in Messages /\ 1 .. n = (1 .. (n - 1)) \cup {n}
        BY <1>2
      <3>2. Settled(n) <=> Settled(n - 1) \/ Settles(n) BY <3>1
      <3> QED BY <1>1, <3>1, <3>2 DEF Replays
    <2>2. g[n] = (IF Settled(n) THEN f[n] ELSE Nobody)
          /\ g[n - 1] = (IF Settled(n - 1) THEN f[n - 1] ELSE Nobody)
      BY <2>1
    <2> HIDE DEF g, Settled
    <2>3. CASE Settles(n)
      BY <2>1, <2>2, <2>3 DEF After, Announces, Messages
    <2>4. CASE ~Settles(n) /\ Settled(n - 1)
      BY <2>1, <2>2, <2>4
    <2>5. CASE ~Settles(n) /\ ~Settled(n - 1)
      <3>1. ~Announces(q[n], i)
        BY <1>4, <2>1, <2>5
      <3> QED BY <2>1, <2>2, <2>5, <3>1 DEF After, Announces, Messages
    <2> QED BY <2>3, <2>4, <2>5
  <1>6. g[Len(q)] \in {w, Nobody}
    BY <1>1, <1>2
  <1> HIDE DEF g
  <1>7. Replays(q, Nobody, i, g)
    BY <1>3, <1>5 DEF Replays
  <1> QED BY <1>6, <1>7 DEF Leads

-----------------------------------------------------------------------------
(* What a message to a UI does to what it will show.                       *)

Heard(i, p) == [kind |-> "held", id |-> i, post |-> p]

LEMMA HearsHeld ==
    ASSUME NEW q \in Seq(Messages), NEW i \in FlowIds, NEW v, NEW w, Leads(q, v, w, i),
           NEW j \in FlowIds, NEW p \in Posts, j = i => w = Nobody
    PROVE  /\ Append(q, Heard(j, p)) \in Seq(Messages)
           /\ Leads(Append(q, Heard(j, p)), v, IF j = i THEN p ELSE w, i)
  <1>1. Heard(j, p) \in Messages
    BY DEF Heard, Messages
  <1>2. (Announces(Heard(j, p), i) <=> j = i)
        /\ After(w, Heard(j, p), i) = IF j = i THEN p ELSE w
    BY DEF Heard, Announces, After
  <1>3. Leads(Append(q, Heard(j, p)), v, After(w, Heard(j, p), i), i)
    BY <1>1, <1>2, LeadsOn
  <1> QED BY <1>1, <1>2, <1>3

LEMMA HearsEnd ==
    ASSUME NEW q \in Seq(Messages), NEW i \in FlowIds, NEW v, NEW w, Leads(q, v, w, i),
           NEW ids \in SUBSET FlowIds
    PROVE  /\ Append(q, Ended(ids)) \in Seq(Messages)
           /\ i \in ids => Leads(Append(q, Ended(ids)), v, Nobody, i)
           /\ i \notin ids => Leads(Append(q, Ended(ids)), v, w, i)
  <1>1. Ended(ids) \in Messages
    BY DEF Ended, Messages
  <1>2. ~Announces(Ended(ids), i)
        /\ After(w, Ended(ids), i) = IF i \in ids THEN Nobody ELSE w
    BY DEF Ended, Announces, After
  <1>3. Leads(Append(q, Ended(ids)), v, After(w, Ended(ids), i), i)
    BY <1>1, <1>2, LeadsOn
  <1> QED BY <1>1, <1>2, <1>3

-----------------------------------------------------------------------------
(* The steps.                                                              *)

LEMMA InboxTypes ==
    ASSUME HoldTypes, NEW u \in UIs
    PROVE  /\ inbox[u] \in Seq(Messages) /\ verdicts[u] \in Seq(Verdicts)
           /\ shown[u] \in Queues /\ \A i \in FlowIds : shown[u][i] \in Posts \cup {Nobody}
  BY DEF HoldTypes, Queues

\* Nothing that concerns the flow.
LEMMA StillFollows ==
    ASSUME NEW u, NEW i, Follows(u, i), heldFlows'[i] = heldFlows[i], inbox'[u] = inbox[u],
           shown'[u][i] = shown[u][i], Pending(u, i) => Pending(u, i)'
    PROVE  Follows(u, i)'
  BY DEF Follows

\* The server tells every UI of the end of the flows ids.
LEMMA EndsTold ==
    ASSUME HoldInv, NEW ids \in SUBSET FlowIds, Broadcast(<<Ended(ids)>>),
           UNCHANGED <<doubled, connected, shown>>,
           heldFlows' = [i \in FlowIds |-> IF i \in ids THEN Nobody ELSE heldFlows[i]],
           \A u \in UIs, i \in FlowIds \ ids : Pending(u, i) => Pending(u, i)'
    PROVE  /\ inbox' \in [UIs -> Seq(Messages)] /\ heldFlows' \in Queues /\ OwnId'
           /\ \A u \in connected', i \in FlowIds \ doubled' : Follows(u, i)'
  <1>1. ASSUME NEW u \in UIs
        PROVE  inbox'[u] \in Seq(Messages)
               /\ (u \in connected => inbox'[u] = Append(inbox[u], Ended(ids)))
    <2>1. Ended(ids) \in Messages BY DEF Ended, Messages
    <2>2. inbox[u] \in Seq(Messages) BY InboxTypes DEF HoldInv
    <2>3. inbox[u] \o <<Ended(ids)>> = Append(inbox[u], Ended(ids))
      BY <2>1, <2>2
    <2>4. Append(inbox[u], Ended(ids)) \in Seq(Messages)
      BY <2>1, <2>2
    <2> QED BY <2>2, <2>3, <2>4 DEF Broadcast
  <1>2. inbox' \in [UIs -> Seq(Messages)]
    BY <1>1 DEF Broadcast
  <1>3. heldFlows' \in Queues /\ OwnId'
    BY DEF HoldInv, HoldTypes, Queues, OwnId
  <1>4. ASSUME NEW u \in connected, NEW i \in FlowIds \ doubled PROVE Follows(u, i)'
    <2>1. u \in UIs /\ inbox[u] \in Seq(Messages) /\ shown[u][i] \in Posts \cup {Nobody}
      BY InboxTypes DEF HoldInv, HoldTypes
    <2>2. PICK w : /\ Leads(inbox[u], shown[u][i], w, i)
                   /\ w = heldFlows[i] \/ (w = Nobody /\ Pending(u, i))
      BY DEF HoldInv, Follows
    <2>3. /\ i \in ids => Leads(inbox'[u], shown'[u][i], Nobody, i)
          /\ i \notin ids => Leads(inbox'[u], shown'[u][i], w, i)
      <3>1. /\ i \in ids => Leads(Append(inbox[u], Ended(ids)), shown[u][i], Nobody, i)
            /\ i \notin ids => Leads(Append(inbox[u], Ended(ids)), shown[u][i], w, i)
        BY <2>1, <2>2, HearsEnd
      <3> QED BY <1>1, <2>1, <3>1
    <2>4. CASE i \in ids
      BY <2>3, <2>4 DEF Follows
    <2>5. CASE i \notin ids
      BY <2>1, <2>2, <2>3, <2>5 DEF Follows
    <2> QED BY <2>4, <2>5
  <1> QED BY <1>2, <1>3, <1>4

\* A post is answered, or held and announced.
LEMMA PostKeeps ==
    ASSUME HoldInv, NEW p \in Posts, AddonPosts(p)
    PROVE  HoldInv'
  <1> DEFINE i == IdOf[p]
  <1>0. i \in FlowIds /\ HoldTypes /\ OwnId
    BY DEF FlowIds, HoldInv
  <1>1. addon' \in [Posts -> {"idle", "waiting", "forward", "drop"}] /\ armed' = armed
    BY <1>0 DEF AddonPosts, HoldTypes
  <1>2. CASE PostUnmatched(p)
    <2>1. /\ UNCHANGED <<heldFlows, doubled, connected, inbox, shown, verdicts>>
          /\ resolution' \in [Posts -> {"none", "forward", "drop"}]
      BY <1>0, <1>2 DEF PostUnmatched, Resolve, uiVars, HoldTypes
    <2> QED BY <1>0, <1>1, <2>1 DEF HoldInv, HoldTypes, OwnId, Follows, Pending
  <1>3. CASE PostHeld(p)
    <2> DEFINE existing == {heldFlows[i]} \ {Nobody}
    <2>1. /\ Broadcast(<<Heard(i, p)>> \o (IF existing = {} THEN <<>> ELSE <<Ended({i})>>))
          /\ heldFlows' = [heldFlows EXCEPT ![i] = p]
          /\ doubled' = IF existing = {} THEN doubled ELSE doubled \cup {i}
          /\ resolution' \in [Posts -> {"none", "forward", "drop"}]
          /\ UNCHANGED <<connected, shown, verdicts>>
      BY <1>0, <1>3 DEF PostHeld, Resolve, HoldTypes, Heard
    <2>2. heldFlows' \in Queues /\ OwnId' /\ doubled' \subseteq FlowIds
      BY <1>0, <2>1 DEF HoldTypes, Queues, OwnId
    <2>3. ASSUME NEW u \in UIs
          PROVE  /\ inbox'[u] \in Seq(Messages)
                 /\ u \in connected =>
                       inbox'[u] = IF existing = {} THEN Append(inbox[u], Heard(i, p))
                                   ELSE Append(Append(inbox[u], Heard(i, p)), Ended({i}))
      <3>1. inbox[u] \in Seq(Messages) /\ Heard(i, p) \in Messages /\ Ended({i}) \in Messages
        BY <1>0, InboxTypes DEF Heard, Ended, Messages
      <3>2. inbox[u] \o (<<Heard(i, p)>> \o <<>>) = Append(inbox[u], Heard(i, p))
        BY <3>1
      <3>3. inbox[u] \o (<<Heard(i, p)>> \o <<Ended({i})>>)
               = Append(Append(inbox[u], Heard(i, p)), Ended({i}))
        BY <3>1
      <3>4. /\ Append(inbox[u], Heard(i, p)) \in Seq(Messages)
            /\ Append(Append(inbox[u], Heard(i, p)), Ended({i})) \in Seq(Messages)
        BY <3>1
      <3> HIDE DEF i, existing
      <3> QED BY <2>1, <3>1, <3>2, <3>3, <3>4 DEF Broadcast
    <2>4. inbox' \in [UIs -> Seq(Messages)]
      BY <2>1, <2>3 DEF Broadcast
    <2>5. ASSUME NEW u \in connected, NEW j \in FlowIds \ doubled' PROVE Follows(u, j)'
      <3>1. /\ u \in UIs /\ j \in FlowIds \ doubled /\ inbox[u] \in Seq(Messages)
            /\ j = i => existing = {}
        BY <1>0, <2>1, InboxTypes DEF HoldTypes
      <3>2. PICK w : /\ Leads(inbox[u], shown[u][j], w, j)
                     /\ w = heldFlows[j] \/ (w = Nobody /\ Pending(u, j))
        BY <3>1 DEF HoldInv, Follows
      <3>3. j = i => w = Nobody
        BY <3>1, <3>2
      <3> HIDE DEF i, existing
      <3>4. /\ Append(inbox[u], Heard(i, p)) \in Seq(Messages)
            /\ Leads(Append(inbox[u], Heard(i, p)), shown[u][j], IF i = j THEN p ELSE w, j)
        BY <1>0, <3>1, <3>2, <3>3, HearsHeld
      <3>5. CASE existing = {}
        <4>1. Leads(inbox'[u], shown'[u][j], IF i = j THEN p ELSE w, j)
          BY <2>1, <2>3, <3>1, <3>4, <3>5
        <4>2. heldFlows'[j] = IF i = j THEN p ELSE heldFlows[j]
          BY <1>0, <2>1 DEF HoldTypes, Queues
        <4>3. CASE i = j BY <4>1, <4>2, <4>3 DEF Follows
        <4>4. CASE i # j BY <2>1, <3>2, <4>1, <4>2, <4>4 DEF Follows, Pending
        <4> QED BY <4>3, <4>4
      <3>6. CASE existing # {}
        <4>1. i # j BY <3>1, <3>6
        <4>2. Leads(Append(inbox[u], Heard(i, p)), shown[u][j], w, j)
          BY <3>4, <4>1
        <4>3. Leads(Append(Append(inbox[u], Heard(i, p)), Ended({i})), shown[u][j], w, j)
          BY <1>0, <3>1, <3>4, <4>1, <4>2, HearsEnd
        <4>4. Leads(inbox'[u], shown'[u][j], w, j) /\ heldFlows'[j] = heldFlows[j]
          BY <2>1, <2>3, <3>1, <3>6, <4>1, <4>3
        <4> QED BY <2>1, <3>2, <4>4 DEF Follows, Pending
      <3> QED BY <3>5, <3>6
    <2>6. HoldTypes'
      BY <1>0, <1>1, <2>1, <2>2, <2>4 DEF HoldTypes
    <2> QED BY <2>1, <2>2, <2>5, <2>6 DEF HoldInv
  <1> QED BY <1>2, <1>3 DEF AddonPosts

\* The end of a hold, by its timer, by the stop of a capture or by a verdict.
LEMMA EndKeeps ==
    ASSUME HoldInv,
           DropAllHeld \/ \E p \in Posts : TimerFires(p)
    PROVE  HoldInv'
  <1>0. HoldTypes /\ OwnId
    BY DEF HoldInv
  <1>1. PICK ids \in SUBSET FlowIds :
           /\ Broadcast(<<Ended(ids)>>) /\ UNCHANGED <<armed, addon, doubled, connected, shown, verdicts>>
           /\ heldFlows' = [i \in FlowIds |-> IF i \in ids THEN Nobody ELSE heldFlows[i]]
           /\ resolution' \in [Posts -> {"none", "forward", "drop"}]
    <2>1. CASE DropAllHeld
      <3> DEFINE ids == {IdOf[p] : p \in Registered}
      <3>1. \A i \in FlowIds : heldFlows[i] # Nobody => heldFlows[i] \in Registered /\ i \in ids
        BY <1>0 DEF Registered, OwnId
      <3>2. ids \in SUBSET FlowIds
        BY <1>0 DEF Registered, FlowIds, HoldTypes, Queues
      <3>3. heldFlows' = [i \in FlowIds |-> IF i \in ids THEN Nobody ELSE heldFlows[i]]
        <4>1. \A i \in FlowIds : heldFlows[i] \in Registered => i \in ids
          BY <3>1 DEF Registered
        <4>2. \A i \in FlowIds : heldFlows[i] \notin Registered => heldFlows[i] = Nobody
          BY <3>1
        <4>3. heldFlows' = [i \in FlowIds |-> IF heldFlows[i] \in Registered THEN Nobody ELSE heldFlows[i]]
          BY <2>1 DEF DropAllHeld, Unregister
        <4> HIDE DEF ids
        <4> QED BY <4>1, <4>2, <4>3
      <3>4. resolution' \in [Posts -> {"none", "forward", "drop"}]
        BY <1>0, <2>1 DEF DropAllHeld, Resolve, HoldTypes
      <3>5. Broadcast(<<Ended(ids)>>) /\ UNCHANGED <<armed, addon, doubled, connected, shown, verdicts>>
        BY <2>1 DEF DropAllHeld
      <3> HIDE DEF ids
      <3> QED BY <3>2, <3>3, <3>4, <3>5
    <2>2. ASSUME NEW p \in Posts, TimerFires(p)
          PROVE  \E ids \in SUBSET FlowIds :
                    /\ Broadcast(<<Ended(ids)>>)
                    /\ UNCHANGED <<armed, addon, doubled, connected, shown, verdicts>>
                    /\ heldFlows' = [i \in FlowIds |-> IF i \in ids THEN Nobody ELSE heldFlows[i]]
                    /\ resolution' \in [Posts -> {"none", "forward", "drop"}]
      <3>1. {IdOf[p]} \in SUBSET FlowIds
        BY DEF FlowIds
      <3>2. heldFlows' = [i \in FlowIds |-> IF i \in {IdOf[p]} THEN Nobody ELSE heldFlows[i]]
        BY <1>0, <2>2 DEF TimerFires, HoldTypes, Queues
      <3>3. resolution' \in [Posts -> {"none", "forward", "drop"}]
        BY <1>0, <2>2 DEF TimerFires, Resolve, HoldTypes
      <3> QED BY <2>2, <3>1, <3>2, <3>3 DEF TimerFires
    <2> QED BY <2>1, <2>2
  <1>2. \A u \in UIs, i \in FlowIds \ ids : Pending(u, i) => Pending(u, i)'
    BY <1>1 DEF Pending
  <1>3. /\ inbox' \in [UIs -> Seq(Messages)] /\ heldFlows' \in Queues /\ OwnId'
        /\ \A u \in connected', i \in FlowIds \ doubled' : Follows(u, i)'
    BY <1>1, <1>2, EndsTold
  <1> QED BY <1>0, <1>1, <1>3 DEF HoldInv, HoldTypes

LEMMA VerdictKeeps ==
    ASSUME HoldInv, NEW v \in UIs, VerdictArrives(v)
    PROVE  HoldInv'
  <1> DEFINE verdict == Head(verdicts[v])
             P == {heldFlows[verdict.id]} \ {Nobody}
  <1>0. HoldTypes /\ OwnId
    BY DEF HoldInv
  <1>1. /\ verdicts[v] # <<>> /\ verdicts' = [verdicts EXCEPT ![v] = Tail(@)]
        /\ Resolve(P, verdict.action) /\ Unregister(P)
        /\ Broadcast(IF P = {} THEN <<>> ELSE <<Ended({verdict.id})>>)
        /\ UNCHANGED <<armed, addon, doubled, connected, shown>>
    BY DEF VerdictArrives
  <1>2. /\ verdicts[v] \in Seq(Verdicts) /\ Tail(verdicts[v]) \in Seq(Verdicts)
        /\ verdict \in Verdicts /\ verdicts[v][1] = verdict
        /\ Len(Tail(verdicts[v])) = Len(verdicts[v]) - 1 /\ Len(verdicts[v]) \in Nat
        /\ \A n \in 1 .. Len(Tail(verdicts[v])) : Tail(verdicts[v])[n] = verdicts[v][n + 1]
    BY <1>0, <1>1, InboxTypes
  <1>3. verdict.id \in FlowIds /\ verdict.action \in {"forward", "drop"}
    BY <1>2 DEF Verdicts
  <1>4. \A u \in UIs, i \in FlowIds \ {verdict.id} : Pending(u, i) => Pending(u, i)'
    <2> SUFFICES ASSUME NEW u \in UIs, NEW i \in FlowIds \ {verdict.id}, Pending(u, i)
                 PROVE  Pending(u, i)'
      OBVIOUS
    <2>1. CASE u # v
      BY <1>0, <1>1, <2>1 DEF Pending, HoldTypes
    <2>2. CASE u = v
      <3>1. PICK n \in DOMAIN verdicts[v] : verdicts[v][n].id = i
        BY <2>2 DEF Pending
      <3>2. n \in 1 .. Len(verdicts[v]) /\ n # 1
        BY <1>2, <3>1
      <3>3. verdicts'[v] = Tail(verdicts[v])
        BY <1>0, <1>1 DEF HoldTypes
      <3>4. n - 1 \in 1 .. Len(Tail(verdicts[v])) /\ Tail(verdicts[v])[n - 1] = verdicts[v][n]
        BY <1>2, <3>2
      <3>5. n - 1 \in DOMAIN verdicts'[v] /\ verdicts'[v][n - 1].id = i
        BY <1>2, <3>1, <3>3, <3>4
      <3> QED BY <2>2, <3>5 DEF Pending
    <2> QED BY <2>1, <2>2
  <1>5. /\ verdicts' \in [UIs -> Seq(Verdicts)]
        /\ resolution' \in [Posts -> {"none", "forward", "drop"}]
    BY <1>0, <1>1, <1>2, <1>3 DEF HoldTypes, Resolve
  <1> HIDE DEF verdict
  <1>6. CASE P = {}
    <2>1. heldFlows[verdict.id] = Nobody /\ heldFlows' = heldFlows
      BY <1>0, <1>1, <1>6 DEF Unregister, HoldTypes, Queues
    <2>2. inbox' = inbox
      <3>1. \A u \in UIs : inbox[u] \o <<>> = inbox[u]
        BY <1>0, InboxTypes
      <3> QED BY <1>0, <1>1, <1>6, <3>1 DEF Broadcast, HoldTypes
    <2>3. ASSUME NEW u \in connected, NEW i \in FlowIds \ doubled PROVE Follows(u, i)'
      <3>1. u \in UIs BY <1>0 DEF HoldTypes
      <3>2. Follows(u, i) BY DEF HoldInv
      <3>3. CASE i # verdict.id
        BY <1>1, <1>4, <2>1, <2>2, <3>1, <3>2, <3>3, StillFollows
      <3>4. CASE i = verdict.id
        BY <1>1, <2>1, <2>2, <3>2, <3>4 DEF Follows
      <3> QED BY <3>3, <3>4
    <2> QED BY <1>0, <1>1, <1>5, <2>1, <2>2, <2>3 DEF HoldInv, HoldTypes, OwnId
  <1>7. CASE P # {}
    <2>1. heldFlows' = [i \in FlowIds |-> IF i \in {verdict.id} THEN Nobody ELSE heldFlows[i]]
      <3>1. \A i \in FlowIds : heldFlows[i] \in P <=> i = verdict.id
        BY <1>0, <1>3, <1>7 DEF OwnId
      <3> QED BY <1>1, <3>1 DEF Unregister
    <2>2. Broadcast(<<Ended({verdict.id})>>) /\ {verdict.id} \in SUBSET FlowIds
      BY <1>1, <1>3, <1>7
    <2>3. /\ inbox' \in [UIs -> Seq(Messages)] /\ heldFlows' \in Queues /\ OwnId'
          /\ \A u \in connected', i \in FlowIds \ doubled' : Follows(u, i)'
      BY <1>1, <1>4, <2>1, <2>2, EndsTold
    <2> QED BY <1>0, <1>1, <1>5, <2>3 DEF HoldInv, HoldTypes
  <1> QED BY <1>6, <1>7

\* A UI connects, receives a message, or decides on a flow.
LEMMA UIKeeps ==
    ASSUME HoldInv, NEW u \in UIs,
           \/ UIConnects(u) \/ UIReceives(u)
           \/ \E i \in FlowIds, action \in {"forward", "drop"} : UIDecides(u, i, action)
    PROVE  HoldInv'
  <1>0. /\ HoldTypes /\ OwnId
        /\ inbox[u] \in Seq(Messages) /\ verdicts[u] \in Seq(Verdicts) /\ shown[u] \in Queues
    BY InboxTypes DEF HoldInv
  <1>1. CASE UIConnects(u)
    <2> DEFINE m == [kind |-> "snapshot", queue |-> heldFlows]
    <2>1. /\ connected' = connected \cup {u} /\ inbox' = [inbox EXCEPT ![u] = <<m>>]
          /\ UNCHANGED <<armed, addon, resolution, heldFlows, doubled, shown, verdicts>>
      BY <1>1 DEF UIConnects, serverVars
    <2>2. m \in Messages /\ <<m>> \in Seq(Messages) /\ <<m>> = Append(<<>>, m)
      <3>1. m \in Messages BY <1>0 DEF Messages, HoldTypes
      <3> HIDE DEF m
      <3> QED BY <3>1
    <2>3. \A i \in FlowIds : ~Announces(m, i) /\ \A w : After(w, m, i) = heldFlows[i]
      BY DEF Announces, After
    <2> HIDE DEF m
    <2>4. HoldTypes' /\ OwnId'
      BY <1>0, <2>1, <2>2 DEF HoldTypes, OwnId
    <2>5. ASSUME NEW t \in connected', NEW i \in FlowIds \ doubled' PROVE Follows(t, i)'
      <3>1. CASE t = u
        <4>1. shown[u][i] \in Posts \cup {Nobody}
          BY <1>0 DEF Queues
        <4>2. Leads(<<>>, shown[u][i], shown[u][i], i)
          BY <4>1, LeadsNowhere
        <4>3. Leads(Append(<<>>, m), shown[u][i], After(shown[u][i], m, i), i)
          <5>1. <<>> \in Seq(Messages) OBVIOUS
          <5> QED BY <2>2, <2>3, <4>2, <5>1, LeadsOn
        <4>4. inbox'[u] = Append(<<>>, m)
          BY <1>0, <2>1, <2>2 DEF HoldTypes
        <4>5. After(shown[u][i], m, i) = heldFlows[i] BY <2>3
        <4> QED BY <2>1, <3>1, <4>3, <4>4, <4>5 DEF Follows
      <3>2. CASE t # u
        <4>1. t \in connected /\ t \in UIs /\ inbox'[t] = inbox[t] /\ i \in FlowIds \ doubled
          BY <1>0, <2>1, <3>2 DEF HoldTypes
        <4>2. Follows(t, i) BY <4>1 DEF HoldInv
        <4> QED BY <2>1, <4>1, <4>2 DEF Follows, Pending
      <3> QED BY <3>1, <3>2
    <2> QED BY <2>4, <2>5 DEF HoldInv
  <1>2. CASE UIReceives(u)
    <2> DEFINE m == Head(inbox[u])
    <2>1. /\ inbox[u] # <<>> /\ inbox' = [inbox EXCEPT ![u] = Tail(inbox[u])]
          /\ shown' = [shown EXCEPT ![u] = Shows(shown[u], m)]
          /\ UNCHANGED <<armed, addon, resolution, heldFlows, doubled, connected, verdicts>>
      BY <1>2 DEF UIReceives, serverVars
    <2>2. m \in Messages /\ Tail(inbox[u]) \in Seq(Messages)
      BY <1>0, <2>1
    <2>3. Shows(shown[u], m) \in Queues
          /\ \A i \in FlowIds : Shows(shown[u], m)[i] = After(shown[u][i], m, i)
      BY <1>0, <2>2, ShowsEach
    <2>4. HoldTypes' /\ OwnId'
      BY <1>0, <2>1, <2>2, <2>3 DEF HoldTypes, OwnId
    <2>5. ASSUME NEW t \in connected, NEW i \in FlowIds \ doubled PROVE Follows(t, i)'
      <3>1. t \in UIs /\ Follows(t, i) BY <1>0 DEF HoldTypes, HoldInv
      <3>2. CASE t = u
        <4>1. PICK w : /\ Leads(inbox[u], shown[u][i], w, i)
                       /\ w = heldFlows[i] \/ (w = Nobody /\ Pending(u, i))
          BY <3>1, <3>2 DEF Follows
        <4>2. Leads(Tail(inbox[u]), After(shown[u][i], m, i), w, i)
          BY <1>0, <2>1, <4>1, LeadsPast
        <4>3. inbox'[u] = Tail(inbox[u]) /\ shown'[u][i] = After(shown[u][i], m, i)
          <5> HIDE DEF m
          <5> QED BY <1>0, <2>1, <2>3 DEF HoldTypes
        <4>4. Leads(inbox'[u], shown'[u][i], w, i)
          BY <4>2, <4>3
        <4> QED BY <2>1, <3>2, <4>1, <4>4 DEF Follows, Pending
      <3>3. CASE t # u
        <4>1. inbox'[t] = inbox[t] /\ shown'[t] = shown[t]
          BY <1>0, <2>1, <3>1, <3>3 DEF HoldTypes
        <4> QED BY <2>1, <3>1, <4>1 DEF Follows, Pending
      <3> QED BY <3>2, <3>3
    <2> QED BY <2>1, <2>4, <2>5 DEF HoldInv
  <1>3. ASSUME NEW j \in FlowIds, NEW action \in {"forward", "drop"}, UIDecides(u, j, action)
        PROVE  HoldInv'
    <2> DEFINE verdict == [id |-> j, post |-> shown[u][j], action |-> action]
    <2>1. /\ shown[u][j] # Nobody /\ shown' = [shown EXCEPT ![u] = [shown[u] EXCEPT ![j] = Nobody]]
          /\ verdicts' = [verdicts EXCEPT ![u] = Append(verdicts[u], verdict)]
          /\ UNCHANGED <<armed, addon, resolution, heldFlows, doubled, connected, inbox>>
      BY <1>3 DEF UIDecides, serverVars
    <2>2. verdict \in Verdicts
      BY <1>0, <2>1 DEF Verdicts, Queues
    <2>3. verdict.id = j
      OBVIOUS
    <2> HIDE DEF verdict
    <2>4. /\ Append(verdicts[u], verdict) \in Seq(Verdicts)
          /\ Len(Append(verdicts[u], verdict)) = Len(verdicts[u]) + 1 /\ Len(verdicts[u]) \in Nat
          /\ Append(verdicts[u], verdict)[Len(verdicts[u]) + 1] = verdict
          /\ \A n \in 1 .. Len(verdicts[u]) : Append(verdicts[u], verdict)[n] = verdicts[u][n]
      BY <1>0, <2>2
    <2>5. [shown[u] EXCEPT ![j] = Nobody] \in Queues
      BY <1>0 DEF Queues
    <2>6. HoldTypes' /\ OwnId'
      BY <1>0, <2>1, <2>4, <2>5 DEF HoldTypes, OwnId
    <2>7. /\ verdicts'[u] = Append(verdicts[u], verdict) /\ shown'[u] = [shown[u] EXCEPT ![j] = Nobody]
          /\ \A t \in UIs \ {u} : verdicts'[t] = verdicts[t] /\ shown'[t] = shown[t]
      BY <1>0, <2>1 DEF HoldTypes
    <2>8. Pending(u, j)' /\ \A i : Pending(u, i) => Pending(u, i)'
      <3>1. DOMAIN verdicts[u] = 1 .. Len(verdicts[u])
            /\ DOMAIN verdicts'[u] = 1 .. (Len(verdicts[u]) + 1)
        BY <1>0, <2>4, <2>7
      <3>2. Len(verdicts[u]) + 1 \in DOMAIN verdicts'[u]
            /\ DOMAIN verdicts[u] \subseteq DOMAIN verdicts'[u]
        BY <2>4, <3>1
      <3> QED BY <2>3, <2>4, <2>7, <3>1, <3>2 DEF Pending
    <2>9. ASSUME NEW t \in connected, NEW i \in FlowIds \ doubled PROVE Follows(t, i)'
      <3>1. t \in UIs /\ Follows(t, i) BY <1>0 DEF HoldTypes, HoldInv
      <3>2. CASE t # u
        BY <2>1, <2>7, <3>1, <3>2 DEF Follows, Pending
      <3>3. CASE t = u /\ i # j
        <4>1. shown'[u][i] = shown[u][i] BY <1>0, <2>7, <3>3 DEF Queues
        <4> QED BY <2>1, <2>8, <3>1, <3>3, <4>1, StillFollows
      <3>4. CASE t = u /\ i = j
        <4>1. PICK w : /\ Leads(inbox[u], shown[u][i], w, i)
                       /\ w = heldFlows[i] \/ (w = Nobody /\ Pending(u, i))
          BY <3>1, <3>4 DEF Follows
        <4>2. Leads(inbox[u], Nobody, w, i) \/ Leads(inbox[u], Nobody, Nobody, i)
          BY <1>0, <2>1, <3>4, <4>1, LeadsWithout
        <4>3. shown'[u][i] = Nobody BY <1>0, <2>7, <3>4 DEF Queues
        <4> QED BY <2>1, <2>8, <3>4, <4>1, <4>2, <4>3 DEF Follows
      <3> QED BY <3>2, <3>3, <3>4
    <2> QED BY <2>1, <2>6, <2>9 DEF HoldInv
  <1> QED BY <1>1, <1>2, <1>3

-----------------------------------------------------------------------------
\* The invariant holds in every reachable state of the holds.
THEOREM HoldInvHolds == HoldSpec => []HoldInv
  <1>1. HoldInit => HoldInv
    <2> SUFFICES ASSUME HoldInit PROVE HoldInv
      OBVIOUS
    <2>1. HoldTypes /\ OwnId
      <3>1. <<>> \in Seq(Messages) /\ <<>> \in Seq(Verdicts) OBVIOUS
      <3> QED BY <3>1 DEF HoldInit, HoldTypes, OwnId, Queues, NoQueue
    <2> QED BY <2>1 DEF HoldInv, HoldInit
  <1>2. HoldInv /\ [HoldNext]_holdVars => HoldInv'
    <2> SUFFICES ASSUME HoldInv, [HoldNext]_holdVars PROVE HoldInv'
      OBVIOUS
    <2>1. ASSUME /\ UNCHANGED <<heldFlows, doubled, connected, inbox, shown, verdicts>>
                 /\ armed' \in BOOLEAN
                 /\ addon' \in [Posts -> {"idle", "waiting", "forward", "drop"}]
                 /\ resolution' \in [Posts -> {"none", "forward", "drop"}]
          PROVE  HoldInv'
      BY <2>1 DEF HoldInv, HoldTypes, OwnId, Follows, Pending
    <2>2. CASE UNCHANGED holdVars
      BY <2>1, <2>2 DEF holdVars, serverVars, uiVars, HoldInv, HoldTypes
    <2>3. ASSUME NEW on \in BOOLEAN, SetArmed(on) PROVE HoldInv'
      BY <2>1, <2>3 DEF SetArmed, serverVars, uiVars, HoldInv, HoldTypes
    <2>4. ASSUME NEW p \in Posts, AddonHears(p) \/ AddonGivesUp(p) PROVE HoldInv'
      <3>1. resolution[p] \in {"none", "forward", "drop"}
        BY DEF HoldInv, HoldTypes
      <3> QED BY <2>1, <2>4, <3>1 DEF AddonHears, AddonGivesUp, serverVars, uiVars, HoldInv, HoldTypes
    <2> QED
      BY <2>2, <2>3, <2>4, PostKeeps, EndKeeps, VerdictKeeps, UIKeeps DEF HoldNext
  <1> QED BY <1>1, <1>2, PTL DEF HoldSpec

\* Every variable of the holds keeps its type.
THEOREM HoldTypesHold == HoldSpec => []HoldTypeOK
  <1>1. HoldInv => HoldTypeOK
    <2> SUFFICES ASSUME HoldInv PROVE HoldTypeOK
      OBVIOUS
    <2>1. \A u \in UIs : \A n \in DOMAIN verdicts[u] : verdicts[u][n] \in Verdicts
      BY DEF HoldInv, HoldTypes
    <2> QED BY <2>1 DEF HoldInv, HoldTypes, HoldTypeOK, Queues, Verdicts
  <1> QED BY <1>1, HoldInvHolds, PTL

\* A UI that has received everything shows what is held, but for its own decisions.
THEOREM QueuesAlwaysFollow == HoldSpec => []QueuesFollow
  <1>1. HoldInv => QueuesFollow
    <2> SUFFICES ASSUME HoldInv, NEW u \in connected, NEW i \in FlowIds \ doubled, inbox[u] = <<>>
                 PROVE  \/ shown[u][i] = heldFlows[i]
                        \/ shown[u][i] = Nobody /\ \E n \in DOMAIN verdicts[u] :
                                                       verdicts[u][n].id = i
      BY DEF QueuesFollow
    <2>1. PICK w : /\ Leads(<<>>, shown[u][i], w, i)
                   /\ w = heldFlows[i] \/ (w = Nobody /\ Pending(u, i))
      BY DEF HoldInv, Follows
    <2>2. shown[u][i] \in Posts \cup {Nobody}
      BY DEF HoldInv, HoldTypes, Queues
    <2>3. w = shown[u][i]
      BY <2>1, <2>2, LeadsNowhere
    <2> QED BY <2>1, <2>3 DEF Pending
  <1> QED BY <1>1, HoldInvHolds, PTL

=============================================================================
