----------------------------- MODULE AdbPairing -----------------------------
(***************************************************************************)
(* The handshake of the ADB proxy's sessions: the pre-auth limit, proof of *)
(* a key, the operator's decision on an unknown key, the admission per key *)
(* and the banner (session.ts, auth-gate.ts, pending.ts, limits.ts), while *)
(* keys are revoked, forgotten and restricted and devices come and go      *)
(* (adb-proxy-service.ts).                                                 *)
(***************************************************************************)
EXTENDS Naturals, FiniteSets

CONSTANTS Conns,       \* connections; each is one session
          Keys, Devices,
          KeyOf,       \* the key whose possession the connection's client proves
          DeviceOf,    \* the device whose listener accepted it
          MaxPreAuth, MaxPending,   \* limits of connections and requests
          MaxPerDevice, MaxPerKey   \* sessions of a key on one device, on all

ASSUME PairingAssumption ==
    /\ KeyOf \in [Conns -> Keys] /\ DeviceOf \in [Conns -> Devices]
    /\ IsFiniteSet(Conns)
    /\ {MaxPreAuth, MaxPending, MaxPerDevice, MaxPerKey} \subseteq Nat

VARIABLES
    session,    \* state of each connection's session; "idle": not connected yet
    leftPreAuth,\* preAuthLeft
    preAuth,    \* PreAuthLimiter.total
    slots,      \* the pending requests, by the session that waits
    verdict,    \* how the request's promise settled
    record,     \* status of each key's record, "none" without one
    allowed,    \* its allow-list; all devices when it is empty
    online      \* the service's online devices

gateVars == <<session, leftPreAuth, preAuth, slots, verdict>>
pairingVars == <<gateVars, record, allowed, online>>

SessionState == {"idle", "await-cnxn", "await-auth", "pending", "finishing", "ready", "closed"}

PairingInit ==
    /\ session = [c \in Conns |-> "idle"]
    /\ leftPreAuth = [c \in Conns |-> FALSE] /\ preAuth = 0
    /\ slots = {} /\ verdict = [c \in Conns |-> "none"]
    /\ record = [k \in Keys |-> "none"] /\ allowed = [k \in Keys |-> Devices]
    /\ online = Devices

Live == {c \in Conns : session[c] \notin {"idle", "closed"}}

ApprovedFor(c) == record[KeyOf[c]] = "approved" /\ DeviceOf[c] \in allowed[KeyOf[c]]

\* Seeded bug: the promises of the requests S do not settle.
NotTold(S, decision) == verdict

Told(S, decision) == [c \in Conns |-> IF c \in S THEN decision ELSE verdict[c]]

\* finish, for the requests of the sessions S.
Settle(S, decision) ==
    /\ slots' = slots \ S
    /\ verdict' = [c \in Conns |-> IF c \in S \cap slots THEN decision ELSE verdict[c]]

\* Seeded bug: the limit is given back again.
GivenBackTwice(S) == S

\* leavePreAuth, which counts a session once.
StillPreAuth(S) == {c \in S : ~leftPreAuth[c]}

\* Seeded bug: a session that closes leaves its request behind.
CloseKeepsRequest(S) ==
    /\ session' = [c \in Conns |-> IF c \in S THEN "closed" ELSE session[c]]
    /\ leftPreAuth' = [c \in Conns |-> leftPreAuth[c] \/ c \in S]
    /\ preAuth' = preAuth - Cardinality(StillPreAuth(S))
    /\ UNCHANGED <<slots, verdict>>

\* close, for the sessions S: each leaves the pre-auth limit if it had not, and
\* withdraws its request.
Close(S) ==
    /\ session' = [c \in Conns |-> IF c \in S THEN "closed" ELSE session[c]]
    /\ leftPreAuth' = [c \in Conns |-> leftPreAuth[c] \/ c \in S]
    /\ preAuth' = preAuth - Cardinality(StillPreAuth(S))
    /\ Settle(S, "denied")

\* The other sessions that overSessionCap counts.
Rivals(c) == {d \in Conns \ {c} : session[d] \in {"finishing", "ready"} /\ KeyOf[d] = KeyOf[c]}

OverSessionCap(c) ==
    \/ Cardinality(Rivals(c)) >= MaxPerKey
    \/ Cardinality({d \in Rivals(c) : DeviceOf[d] = DeviceOf[c]}) >= MaxPerDevice

\* becomeReady up to the banner.
Admit(c) ==
    IF DeviceOf[c] \notin online \/ OverSessionCap(c)
    THEN Close({c})
    ELSE /\ session' = [session EXCEPT ![c] = "finishing"]
         /\ UNCHANGED <<leftPreAuth, preAuth, slots, verdict>>

-----------------------------------------------------------------------------
(* The session's events.                                                   *)

Accept(c) ==
    /\ session[c] = "idle" /\ DeviceOf[c] \in online
    /\ preAuth < MaxPreAuth
    /\ session' = [session EXCEPT ![c] = "await-cnxn"]
    /\ preAuth' = preAuth + 1
    /\ UNCHANGED <<leftPreAuth, slots, verdict, record, allowed, online>>

OnCnxn(c) ==
    /\ session[c] = "await-cnxn"
    /\ IF DeviceOf[c] \in online
       THEN /\ session' = [session EXCEPT ![c] = "await-auth"]
            /\ UNCHANGED <<leftPreAuth, preAuth, slots, verdict>>
       ELSE Close({c})
    /\ UNCHANGED <<record, allowed, online>>

\* A signature by a key that may reach the device.
OnSignature(c) ==
    /\ session[c] = "await-auth" /\ ApprovedFor(c)
    /\ Admit(c)
    /\ UNCHANGED <<record, allowed, online>>

\* offer of an unknown key: a new request replaces the one for the same key and
\* device, and one beyond the limits is refused.  takeRate is left open.
AskOperator(c) ==
    LET same == {d \in slots : KeyOf[d] = KeyOf[c] /\ DeviceOf[d] = DeviceOf[c]} IN
    \/ same = {} /\ Close({c})
    \/ /\ same # {} \/ Cardinality(slots) < MaxPending
       /\ session' = [session EXCEPT ![c] = "pending"]
       /\ leftPreAuth' = [leftPreAuth EXCEPT ![c] = TRUE]
       /\ preAuth' = preAuth - 1
       /\ slots' = (slots \ same) \cup {c}
       /\ verdict' = Told(same, "denied")

\* A public key whose private key the client holds.
OnPublicKey(c) ==
    /\ session[c] = "await-auth"
    /\ IF record[KeyOf[c]] = "none" THEN AskOperator(c)
       ELSE IF ApprovedFor(c) THEN Admit(c) ELSE Close({c})
    /\ UNCHANGED <<record, allowed, online>>

\* The request's promise settled; this continuation runs after whoever settled it.
DecisionArrives(c) ==
    /\ session[c] = "pending" /\ verdict[c] # "none"
    /\ IF verdict[c] = "approved" THEN Admit(c) ELSE Close({c})
    /\ UNCHANGED <<record, allowed, online>>

\* The banner is there; deviceBanner fails at the latest by its timeout.
BannerArrives(c) ==
    /\ session[c] = "finishing"
    /\ \/ /\ session' = [session EXCEPT ![c] = "ready"]
          /\ leftPreAuth' = [leftPreAuth EXCEPT ![c] = TRUE]
          /\ preAuth' = IF leftPreAuth[c] THEN preAuth ELSE preAuth - 1
          /\ UNCHANGED <<slots, verdict>>
       \/ Close({c})
    /\ UNCHANGED <<record, allowed, online>>

PreAuthTimeout(c) ==
    /\ c \in Live /\ ~leftPreAuth[c] /\ Close({c})
    /\ UNCHANGED <<record, allowed, online>>

PendingTimeout(c) ==
    /\ c \in slots /\ Settle({c}, "denied")
    /\ UNCHANGED <<session, leftPreAuth, preAuth, record, allowed, online>>

\* The client's socket closes or breaks the protocol, or the listener stops.
Disconnect(c) ==
    /\ c \in Live /\ Close({c})
    /\ UNCHANGED <<record, allowed, online>>

-----------------------------------------------------------------------------
(* The operator and the devices.                                           *)

\* Seeded bug: a session that waits for its banner is overlooked.
IdentifiedButForBanner(k) ==
    {c \in Conns : session[c] \in {"pending", "ready"} /\ KeyOf[c] = k}

\* Sessions that have named their key.
Identified(k) ==
    {c \in Conns : session[c] \in {"pending", "finishing", "ready"} /\ KeyOf[c] = k}

\* Seeded bug: the other requests of the key go on waiting.
OnlyThis(c) == {c}

\* The requests that resolveKey settles.
Waiting(c) == {d \in slots : KeyOf[d] = KeyOf[c]}

\* decide, on the request of session c.
Decide(c, status) ==
    LET k == KeyOf[c]
        waiting == Waiting(c)
        permitted == {d \in waiting : status = "approved" /\ DeviceOf[d] \in allowed[k]}
        refused == status = "approved" /\ c \notin permitted
    IN /\ c \in slots
       /\ IF record[k] \in {"denied", "revoked"}
          THEN Settle(waiting, "denied") /\ UNCHANGED <<session, leftPreAuth, preAuth, record>>
          ELSE IF status = "denied" /\ record[k] = "approved"
          THEN Close(Identified(k)) /\ record' = [record EXCEPT ![k] = status]
          ELSE /\ record' = IF refused THEN record ELSE [record EXCEPT ![k] = status]
               /\ slots' = slots \ waiting
               /\ verdict' = [d \in Conns |-> IF d \in permitted THEN "approved"
                                              ELSE IF d \in waiting THEN "denied" ELSE verdict[d]]
               /\ UNCHANGED <<session, leftPreAuth, preAuth>>
       /\ UNCHANGED <<allowed, online>>

RevokeKey(k) ==
    /\ record[k] = "approved"
    /\ record' = [record EXCEPT ![k] = "revoked"]
    /\ Close(Identified(k))
    /\ UNCHANGED <<allowed, online>>

ForgetKey(k) ==
    /\ record[k] # "none"
    /\ record' = [record EXCEPT ![k] = "none"]
    /\ allowed' = [allowed EXCEPT ![k] = Devices]
    /\ Close(Identified(k))
    /\ UNCHANGED online

SetKeyDevices(k, ids) ==
    /\ record[k] # "none"
    /\ allowed' = [allowed EXCEPT ![k] = ids]
    /\ Close({c \in Identified(k) : DeviceOf[c] \notin ids})
    /\ UNCHANGED <<record, online>>

DeviceOffline(d) ==
    /\ d \in online /\ online' = online \ {d}
    /\ Close({c \in Live : DeviceOf[c] = d})
    /\ UNCHANGED <<record, allowed>>

DeviceOnline(d) ==
    /\ d \notin online /\ online' = online \cup {d}
    /\ UNCHANGED <<gateVars, record, allowed>>

-----------------------------------------------------------------------------
ConnStep(c) ==
    \/ OnCnxn(c) \/ OnSignature(c) \/ OnPublicKey(c) \/ DecisionArrives(c)
    \/ BannerArrives(c) \/ PreAuthTimeout(c) \/ PendingTimeout(c) \/ Disconnect(c)

PairingNext ==
    \/ \E c \in Conns : Accept(c) \/ ConnStep(c)
    \/ \E c \in Conns, status \in {"approved", "denied"} : Decide(c, status)
    \/ \E k \in Keys : RevokeKey(k) \/ ForgetKey(k)
    \/ \E k \in Keys, ids \in SUBSET Devices \ {{}} : SetKeyDevices(k, ids)
    \/ \E d \in Devices : DeviceOffline(d) \/ DeviceOnline(d)

PairingSpec == PairingInit /\ [][PairingNext]_pairingVars

\* A session moves on by its timers: they run out, settled promises continue, and
\* deviceBanner ends by its timeout.  Clients, operators and devices need not do
\* anything.
PairingFairness ==
    \A c \in Conns :
        WF_pairingVars(\/ PreAuthTimeout(c) \/ PendingTimeout(c)
                       \/ DecisionArrives(c) \/ BannerArrives(c))

-----------------------------------------------------------------------------
(* Properties.                                                             *)

PairingTypeOK ==
    /\ session \in [Conns -> SessionState]
    /\ leftPreAuth \in [Conns -> BOOLEAN] /\ preAuth \in Nat
    /\ slots \subseteq Conns
    /\ verdict \in [Conns -> {"none", "approved", "denied"}]
    /\ record \in [Keys -> {"none", "approved", "denied", "revoked"}]
    /\ allowed \in [Keys -> SUBSET Devices] /\ online \subseteq Devices

\* A session that passes for authenticated has a key that is approved for its
\* device at this moment: no decision that is still on its way to a session, and
\* no banner that it waits for, outlives a revocation, a restriction or a denial.
AuthenticatedIsApproved ==
    \A c \in Conns : session[c] \in {"finishing", "ready"} =>
        ApprovedFor(c) /\ DeviceOf[c] \in online

\* A request is listed exactly while its session waits for it, so that no way out
\* of the handshake takes one of the few slots along, and none is left undecided.
WaitingIsListed ==
    slots = {c \in Conns : session[c] = "pending" /\ verdict[c] = "none"}

\* A key that an operator is asked about has no record: a decision settles the
\* requests of its key on every device at once, and nobody is asked twice about
\* a key on the same device.
AskedOnce ==
    \A c \in slots :
        /\ record[KeyOf[c]] = "none"
        /\ \A d \in slots : KeyOf[d] = KeyOf[c] /\ DeviceOf[d] = DeviceOf[c] => d = c

\* The pre-auth limit counts exactly the sessions in their handshake, whichever
\* of pairing, ready and close comes first, and is never exceeded.
PreAuthExact ==
    /\ preAuth = Cardinality({c \in Live : ~leftPreAuth[c]})
    /\ preAuth <= MaxPreAuth

\* Every connection ends up ready or closed: none stays in a stage of the
\* handshake that no timer covers.
HandshakesEnd == <>[](\A c \in Conns : session[c] \in {"idle", "ready", "closed"})

=============================================================================
