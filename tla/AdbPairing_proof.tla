-------------------------- MODULE AdbPairing_proof --------------------------
(***************************************************************************)
(* Admission to the ADB proxy, for any connections, keys, devices and      *)
(* limits: who passes for authenticated is approved at that moment, and    *)
(* nobody waits for an answer that nobody is asked for.                    *)
(***************************************************************************)
EXTENDS AdbPairing, FiniteSetTheorems, TLAPS

\* PairingTypeOK without preAuth, which is an invariant of its own below.
GateTypes ==
    /\ session \in [Conns -> SessionState]
    /\ leftPreAuth \in [Conns -> BOOLEAN]
    /\ slots \subseteq Conns
    /\ verdict \in [Conns -> {"none", "approved", "denied"}]
    /\ record \in [Keys -> {"none", "approved", "denied", "revoked"}]
    /\ allowed \in [Keys -> SUBSET Devices] /\ online \subseteq Devices

\* An approval on its way to its session still stands.
ApprovalStands ==
    \A c \in Conns : session[c] = "pending" /\ verdict[c] = "approved" => ApprovedFor(c)

\* A session that has not asked has no verdict.
NoEarlyVerdict ==
    \A c \in Conns : session[c] \in {"idle", "await-cnxn", "await-auth"} => verdict[c] = "none"

\* An unknown key is restricted to nothing, so that an approval holds for every
\* device that it was asked for.
UnknownUnrestricted == \A k \in Keys : record[k] = "none" => allowed[k] = Devices

PairingInv ==
    /\ GateTypes /\ AuthenticatedIsApproved /\ WaitingIsListed /\ AskedOnce
    /\ ApprovalStands /\ NoEarlyVerdict /\ UnknownUnrestricted

\* Closing sessions keeps the invariant while keys and devices change, if all that
\* the change concerns are among them.
LEMMA CloseKeeps ==
    ASSUME PairingInv, NEW S \in SUBSET Conns, Close(S),
           record' \in [Keys -> {"none", "approved", "denied", "revoked"}],
           allowed' \in [Keys -> SUBSET Devices], online' \subseteq Devices,
           \A c \in Conns \ S : session[c] \in {"finishing", "ready"}
              => ApprovedFor(c)' /\ DeviceOf[c] \in online',
           \A c \in Conns \ S : session[c] = "pending" /\ verdict[c] = "approved"
              => ApprovedFor(c)',
           \A c \in slots \ S : record'[KeyOf[c]] = "none",
           UnknownUnrestricted'
    PROVE  PairingInv'
  <1> USE DEF PairingInv, GateTypes
  <1>1. /\ session' \in [Conns -> SessionState]
        /\ leftPreAuth' \in [Conns -> BOOLEAN]
        /\ \A c \in Conns : session'[c] = IF c \in S THEN "closed" ELSE session[c]
    BY DEF Close, SessionState
  <1>2. /\ slots' = slots \ S
        /\ verdict' \in [Conns -> {"none", "approved", "denied"}]
        /\ \A c \in Conns : verdict'[c] = IF c \in S \cap slots THEN "denied" ELSE verdict[c]
    BY DEF Close, Settle
  <1>3. GateTypes'
    BY <1>1, <1>2
  <1>4. AuthenticatedIsApproved'
    BY <1>1 DEF AuthenticatedIsApproved
  <1>5. WaitingIsListed'
    BY <1>1, <1>2 DEF WaitingIsListed
  <1>6. AskedOnce'
    BY <1>2 DEF AskedOnce
  <1>7. ApprovalStands'
    BY <1>1, <1>2 DEF ApprovalStands
  <1>8. NoEarlyVerdict'
    BY <1>1, <1>2 DEF NoEarlyVerdict
  <1> QED BY <1>3, <1>4, <1>5, <1>6, <1>7, <1>8

\* A session that closes alone.
LEMMA CloseOneKeeps ==
    ASSUME PairingInv, NEW c \in Conns, Close({c}), UNCHANGED <<record, allowed, online>>
    PROVE  PairingInv'
  <1>1. \A d \in Conns : ApprovedFor(d)' <=> ApprovedFor(d)
    BY DEF ApprovedFor
  <1> QED
    BY <1>1, CloseKeeps
    DEF PairingInv, GateTypes, AuthenticatedIsApproved, ApprovalStands, AskedOnce,
        UnknownUnrestricted

\* becomeReady admits a session that proved an approved key and waits no more.
LEMMA AdmitKeeps ==
    ASSUME PairingInv, NEW c \in Conns, session[c] \in {"await-auth", "pending"},
           c \notin slots, ApprovedFor(c), Admit(c), UNCHANGED <<record, allowed, online>>
    PROVE  PairingInv'
  <1>1. CASE Close({c})
    BY <1>1, CloseOneKeeps
  <1>2. CASE /\ DeviceOf[c] \in online
             /\ session' = [session EXCEPT ![c] = "finishing"]
             /\ UNCHANGED <<leftPreAuth, preAuth, slots, verdict>>
    <2>1. \A d \in Conns : ApprovedFor(d)' <=> ApprovedFor(d)
      BY DEF ApprovedFor
    <2> USE <1>2, <2>1 DEF PairingInv, GateTypes
    <2>2. GateTypes' BY DEF SessionState
    <2>3. AuthenticatedIsApproved' BY DEF AuthenticatedIsApproved
    <2>4. WaitingIsListed' BY DEF WaitingIsListed
    <2>5. AskedOnce' BY DEF AskedOnce
    <2>6. ApprovalStands' /\ NoEarlyVerdict' /\ UnknownUnrestricted'
      BY DEF ApprovalStands, NoEarlyVerdict, UnknownUnrestricted
    <2> QED BY <2>2, <2>3, <2>4, <2>5, <2>6
  <1> QED BY <1>1, <1>2 DEF Admit

\* A session that asks takes the place of the one that waits for the same key and
\* device.
LEMMA AskKeeps ==
    ASSUME PairingInv, NEW c \in Conns, session[c] = "await-auth",
           record[KeyOf[c]] = "none", AskOperator(c),
           UNCHANGED <<record, allowed, online>>
    PROVE  PairingInv'
  <1> DEFINE same == {d \in slots : KeyOf[d] = KeyOf[c] /\ DeviceOf[d] = DeviceOf[c]}
  <1>1. CASE Close({c})
    BY <1>1, CloseOneKeeps
  <1>2. CASE /\ session' = [session EXCEPT ![c] = "pending"]
             /\ leftPreAuth' = [leftPreAuth EXCEPT ![c] = TRUE]
             /\ slots' = (slots \ same) \cup {c}
             /\ verdict' = Told(same, "denied")
    <2>1. \A d \in Conns : ApprovedFor(d)' <=> ApprovedFor(d)
      BY DEF ApprovedFor
    <2>2. c \notin slots /\ verdict[c] = "none"
      BY DEF PairingInv, GateTypes, WaitingIsListed, NoEarlyVerdict
    <2>3. /\ verdict' \in [Conns -> {"none", "approved", "denied"}]
          /\ \A d \in Conns : verdict'[d] = IF d \in same THEN "denied" ELSE verdict[d]
      BY <1>2 DEF Told, PairingInv, GateTypes
    <2> USE <1>2, <2>1, <2>2, <2>3 DEF PairingInv, GateTypes
    <2>4. GateTypes' BY DEF SessionState
    <2>5. AuthenticatedIsApproved' BY DEF AuthenticatedIsApproved
    <2>6. WaitingIsListed' BY DEF WaitingIsListed
    <2>7. AskedOnce' BY DEF AskedOnce
    <2>8. ApprovalStands' BY DEF ApprovalStands
    <2>9. NoEarlyVerdict' BY DEF NoEarlyVerdict, WaitingIsListed
    <2>10. UnknownUnrestricted' BY DEF UnknownUnrestricted
    <2> QED BY <2>4, <2>5, <2>6, <2>7, <2>8, <2>9, <2>10
  <1> QED BY <1>1, <1>2 DEF AskOperator

\* A decision is for all the requests of the key, and what it approves was asked
\* for by an unknown key, which is restricted to nothing.
LEMMA DecideKeeps ==
    ASSUME PairingInv, NEW c \in Conns, NEW status \in {"approved", "denied"},
           Decide(c, status)
    PROVE  PairingInv'
  <1> DEFINE k == KeyOf[c]
             permitted == {d \in Waiting(c) : status = "approved" /\ DeviceOf[d] \in allowed[k]}
  <1>1. c \in slots /\ k \in Keys /\ \A d \in Conns : KeyOf[d] \in Keys /\ DeviceOf[d] \in Devices
    BY PairingAssumption DEF Decide
  <1>2. record[k] = "none" /\ allowed[k] = Devices
    BY <1>1 DEF PairingInv, AskedOnce, UnknownUnrestricted
  <1>3. permitted = {d \in Waiting(c) : status = "approved"} /\ Waiting(c) \subseteq slots
    BY <1>1, <1>2 DEF Waiting, PairingInv, GateTypes
  <1>4. c \in Waiting(c)
    BY <1>1 DEF Waiting
  <1>5. /\ record' = [record EXCEPT ![k] = status]
        /\ slots' = slots \ Waiting(c)
        /\ verdict' = [d \in Conns |-> IF d \in permitted THEN "approved"
                                       ELSE IF d \in Waiting(c) THEN "denied" ELSE verdict[d]]
        /\ UNCHANGED <<session, leftPreAuth, allowed, online>>
    BY <1>2, <1>3, <1>4 DEF Decide
  <1>6. /\ \A d \in Conns : KeyOf[d] # k => (ApprovedFor(d)' <=> ApprovedFor(d))
        /\ \A d \in Conns : KeyOf[d] = k => ~ApprovedFor(d)
        /\ status = "approved" => \A d \in Conns : KeyOf[d] = k => ApprovedFor(d)'
    BY <1>1, <1>2, <1>5 DEF ApprovedFor, PairingInv, GateTypes
  <1>7. \A d \in Conns : d \in slots => session[d] = "pending"
    BY DEF PairingInv, WaitingIsListed
  <1> HIDE DEF k, permitted
  <1> USE <1>1, <1>3, <1>5, <1>6, <1>7 DEF PairingInv, GateTypes
  <1>8. GateTypes'
    <2>1. verdict' \in [Conns -> {"none", "approved", "denied"}] OBVIOUS
    <2>2. record' \in [Keys -> {"none", "approved", "denied", "revoked"}] OBVIOUS
    <2> QED BY <2>1, <2>2
  <1>9. AuthenticatedIsApproved' BY DEF AuthenticatedIsApproved
  <1>10. WaitingIsListed' BY DEF WaitingIsListed
  <1>11. AskedOnce'
    BY DEF AskedOnce, Waiting, k
  <1>12. ApprovalStands'
    BY DEF ApprovalStands, Waiting, k
  <1>13. NoEarlyVerdict' BY DEF NoEarlyVerdict
  <1>14. UnknownUnrestricted' BY DEF UnknownUnrestricted
  <1> QED BY <1>8, <1>9, <1>10, <1>11, <1>12, <1>13, <1>14

\* A step of a session.
LEMMA ConnStepKeeps ==
    ASSUME PairingInv, NEW c \in Conns, Accept(c) \/ ConnStep(c)
    PROVE  PairingInv'
  <1>0. \A d \in Conns : UNCHANGED <<record, allowed>> => (ApprovedFor(d)' <=> ApprovedFor(d))
    BY DEF ApprovedFor
  <1>1. CASE Accept(c)
    BY <1>0, <1>1
    DEF Accept, PairingInv, GateTypes, SessionState, AuthenticatedIsApproved, WaitingIsListed,
        AskedOnce, ApprovalStands, NoEarlyVerdict, UnknownUnrestricted
  <1>2. CASE OnCnxn(c)
    <2>1. CASE Close({c}) BY <1>2, <2>1, CloseOneKeeps DEF OnCnxn
    <2>2. CASE ~Close({c})
      BY <1>0, <1>2, <2>2
      DEF OnCnxn, PairingInv, GateTypes, SessionState, AuthenticatedIsApproved,
          WaitingIsListed, AskedOnce, ApprovalStands, NoEarlyVerdict, UnknownUnrestricted
    <2> QED BY <2>1, <2>2
  <1>3. CASE OnSignature(c)
    BY <1>3, AdmitKeeps DEF OnSignature, PairingInv, WaitingIsListed
  <1>4. CASE OnPublicKey(c)
    BY <1>4, AdmitKeeps, AskKeeps, CloseOneKeeps DEF OnPublicKey, PairingInv, WaitingIsListed
  <1>5. CASE DecisionArrives(c)
    BY <1>5, AdmitKeeps, CloseOneKeeps
    DEF DecisionArrives, PairingInv, WaitingIsListed, ApprovalStands
  <1>6. CASE BannerArrives(c)
    <2>1. CASE Close({c}) BY <1>6, <2>1, CloseOneKeeps DEF BannerArrives
    <2>2. CASE ~Close({c})
      <3>1. /\ session[c] = "finishing" /\ session' = [session EXCEPT ![c] = "ready"]
            /\ leftPreAuth' = [leftPreAuth EXCEPT ![c] = TRUE]
            /\ UNCHANGED <<slots, verdict, record, allowed, online>>
        BY <1>6, <2>2 DEF BannerArrives
      <3> USE <1>0, <3>1 DEF PairingInv, GateTypes
      <3>2. GateTypes' BY DEF SessionState
      <3>3. AuthenticatedIsApproved' BY DEF AuthenticatedIsApproved
      <3>4. WaitingIsListed' /\ AskedOnce' BY DEF WaitingIsListed, AskedOnce
      <3>5. ApprovalStands' /\ NoEarlyVerdict' /\ UnknownUnrestricted'
        BY DEF ApprovalStands, NoEarlyVerdict, UnknownUnrestricted
      <3> QED BY <3>2, <3>3, <3>4, <3>5
    <2> QED BY <2>1, <2>2
  <1>7. CASE PreAuthTimeout(c)
    BY <1>7, CloseOneKeeps DEF PreAuthTimeout
  <1>8. CASE PendingTimeout(c)
    <2>1. /\ slots' = slots \ {c} /\ c \in slots
          /\ verdict' \in [Conns -> {"none", "approved", "denied"}]
          /\ \A d \in Conns : verdict'[d] = IF d = c THEN "denied" ELSE verdict[d]
          /\ UNCHANGED <<session, leftPreAuth, record, allowed, online>>
      BY <1>8 DEF PendingTimeout, Settle, PairingInv, GateTypes
    <2> USE <1>0, <2>1 DEF PairingInv, GateTypes
    <2>2. GateTypes' OBVIOUS
    <2>3. AuthenticatedIsApproved' BY DEF AuthenticatedIsApproved
    <2>4. WaitingIsListed' BY DEF WaitingIsListed
    <2>5. AskedOnce' BY DEF AskedOnce
    <2>6. ApprovalStands' BY DEF ApprovalStands
    <2>7. NoEarlyVerdict' BY DEF NoEarlyVerdict, WaitingIsListed
    <2>8. UnknownUnrestricted' BY DEF UnknownUnrestricted
    <2> QED BY <2>2, <2>3, <2>4, <2>5, <2>6, <2>7, <2>8
  <1>9. CASE Disconnect(c)
    BY <1>9, CloseOneKeeps DEF Disconnect
  <1> QED
    BY <1>1, <1>2, <1>3, <1>4, <1>5, <1>6, <1>7, <1>8, <1>9 DEF ConnStep

\* The operator revokes, forgets and restricts keys, and devices come and go.
LEMMA EnvironmentKeeps ==
    ASSUME PairingInv,
           \/ \E k \in Keys : RevokeKey(k) \/ ForgetKey(k)
           \/ \E k \in Keys, ids \in SUBSET Devices \ {{}} : SetKeyDevices(k, ids)
           \/ \E d \in Devices : DeviceOffline(d) \/ DeviceOnline(d)
    PROVE  PairingInv'
  <1> USE PairingAssumption
      DEF PairingInv, GateTypes, AuthenticatedIsApproved, ApprovalStands, AskedOnce,
          UnknownUnrestricted, ApprovedFor
  <1>0. \A d \in Conns : d \in slots => session[d] = "pending"
    BY DEF WaitingIsListed
  <1>1. ASSUME NEW k \in Keys, RevokeKey(k) PROVE PairingInv'
    BY <1>0, <1>1, CloseKeeps DEF RevokeKey, Identified
  <1>2. ASSUME NEW k \in Keys, ForgetKey(k) PROVE PairingInv'
    BY <1>0, <1>2, CloseKeeps DEF ForgetKey, Identified
  <1>3. ASSUME NEW k \in Keys, NEW ids \in SUBSET Devices, SetKeyDevices(k, ids)
        PROVE PairingInv'
    BY <1>0, <1>3, CloseKeeps DEF SetKeyDevices, Identified
  <1>4. ASSUME NEW d \in Devices, DeviceOffline(d) PROVE PairingInv'
    BY <1>4, CloseKeeps DEF DeviceOffline, Live
  <1>5. ASSUME NEW d \in Devices, DeviceOnline(d) PROVE PairingInv'
    BY <1>5 DEF DeviceOnline, gateVars, WaitingIsListed, NoEarlyVerdict
  <1> QED BY <1>1, <1>2, <1>3, <1>4, <1>5

\* The invariant holds in every reachable state.
THEOREM PairingInvHolds == PairingSpec => []PairingInv
  <1>1. PairingInit => PairingInv
    BY PairingAssumption
    DEF PairingInit, PairingInv, GateTypes, SessionState, AuthenticatedIsApproved,
        WaitingIsListed, AskedOnce, ApprovalStands, NoEarlyVerdict, UnknownUnrestricted
  <1>2. PairingInv /\ [PairingNext]_pairingVars => PairingInv'
    <2> SUFFICES ASSUME PairingInv, [PairingNext]_pairingVars PROVE PairingInv'
      OBVIOUS
    <2>1. CASE UNCHANGED pairingVars
      BY <2>1
      DEF pairingVars, gateVars, PairingInv, GateTypes, AuthenticatedIsApproved, WaitingIsListed,
          AskedOnce, ApprovalStands, NoEarlyVerdict, UnknownUnrestricted, ApprovedFor
    <2> QED
      BY <2>1, ConnStepKeeps, DecideKeeps, EnvironmentKeeps DEF PairingNext
  <1> QED BY <1>1, <1>2, PTL DEF PairingSpec

\* No session is authenticated that a revocation, a denial, a restriction or the
\* loss of its device has overtaken.
THEOREM PairingAuthenticates == PairingSpec => []AuthenticatedIsApproved
  BY PairingInvHolds, PTL DEF PairingInv

\* Every request is listed while its session waits, and no longer.
THEOREM PairingLists == PairingSpec => []WaitingIsListed
  BY PairingInvHolds, PTL DEF PairingInv

\* Nobody is asked twice about a key on a device, or about a key that is decided.
THEOREM PairingAsksOnce == PairingSpec => []AskedOnce
  BY PairingInvHolds, PTL DEF PairingInv

-----------------------------------------------------------------------------
(* The limit of handshakes.  A session is counted from its acceptance      *)
(* until the first of asking, being ready and closing; leavePreAuth finds  *)
(* its own flag set at the others.                                         *)

Counted == {c \in Live : ~leftPreAuth[c]}

\* Which stages a session reaches counted, and which only after it left.
LeftInStage ==
    \A c \in Conns :
        /\ session[c] \in {"idle", "await-cnxn", "await-auth"} => ~leftPreAuth[c]
        /\ session[c] \in {"pending", "ready"} => leftPreAuth[c]

CountInv == GateTypes /\ LeftInStage /\ preAuth \in Nat /\ PreAuthExact

LEMMA CountedIsFinite == ASSUME GateTypes PROVE IsFiniteSet(Counted)
  BY PairingAssumption, FS_Subset DEF Counted, Live

\* One session fewer is counted.
LEMMA OneLeaves ==
    ASSUME CountInv, NEW c \in Counted, Counted' = Counted \ {c}, preAuth' = preAuth - 1
    PROVE  preAuth' \in Nat /\ PreAuthExact'
  <1>1. IsFiniteSet(Counted) /\ IsFiniteSet(Counted')
    BY CountedIsFinite, FS_RemoveElement DEF CountInv
  <1>2. Cardinality(Counted') = Cardinality(Counted) - 1 /\ Cardinality(Counted') \in Nat
    BY <1>1, FS_RemoveElement, FS_CardinalityType
  <1> QED
    BY <1>2, PairingAssumption DEF CountInv, PreAuthExact, Counted, Live

\* Closing connected sessions gives back what they had of the limit, no more.
LEMMA CloseCounts ==
    ASSUME CountInv, NEW S \in SUBSET Live, Close(S)
    PROVE  LeftInStage' /\ preAuth' \in Nat /\ PreAuthExact'
  <1>1. /\ \A c \in Conns : session'[c] = IF c \in S THEN "closed" ELSE session[c]
        /\ \A c \in Conns : leftPreAuth'[c] = (leftPreAuth[c] \/ c \in S)
        /\ S \subseteq Conns
    BY DEF Close, Live
  <1>2. LeftInStage'
    BY <1>1 DEF CountInv, LeftInStage
  <1>3. Counted' = Counted \ StillPreAuth(S) /\ StillPreAuth(S) \subseteq Counted
    BY <1>1 DEF Counted, Live, StillPreAuth
  <1>4. IsFiniteSet(Counted)
    BY CountedIsFinite DEF CountInv
  <1>5. /\ Cardinality(Counted) \in Nat /\ Cardinality(Counted') \in Nat
        /\ Cardinality(StillPreAuth(S)) \in Nat
        /\ Cardinality(Counted') = Cardinality(Counted) - Cardinality(StillPreAuth(S))
    <2>1. Counted \cap StillPreAuth(S) = StillPreAuth(S) /\ IsFiniteSet(StillPreAuth(S))
      BY <1>3, <1>4, FS_Subset
    <2>2. Cardinality(Counted \ StillPreAuth(S)) = Cardinality(Counted) - Cardinality(StillPreAuth(S))
      BY <1>4, <2>1, FS_Difference
    <2>3. Cardinality(Counted) \in Nat /\ Cardinality(StillPreAuth(S)) \in Nat
      BY <1>4, <2>1, FS_CardinalityType
    <2>4. Cardinality(Counted \ StillPreAuth(S)) \in Nat
      BY <1>4, FS_Difference, FS_CardinalityType
    <2> QED BY <1>3, <2>2, <2>3, <2>4
  <1>6. preAuth' = preAuth - Cardinality(StillPreAuth(S))
    BY DEF Close
  <1>7. preAuth = Cardinality(Counted) /\ preAuth <= MaxPreAuth /\ MaxPreAuth \in Nat
    BY PairingAssumption DEF CountInv, PreAuthExact, Counted
  <1>8. preAuth' = Cardinality(Counted') /\ preAuth' <= MaxPreAuth
    BY <1>5, <1>6, <1>7
  <1>9. PreAuthExact'
    BY <1>8 DEF PreAuthExact, Counted
  <1> QED BY <1>2, <1>5, <1>8, <1>9

\* Admission closes the session or leaves the count alone.
LEMMA AdmitCounts ==
    ASSUME CountInv, NEW c \in Live, Admit(c)
    PROVE  LeftInStage' /\ preAuth' \in Nat /\ PreAuthExact'
  <1>1. CASE Close({c})
    BY <1>1, CloseCounts
  <1>2. CASE session' = [session EXCEPT ![c] = "finishing"] /\ UNCHANGED <<leftPreAuth, preAuth>>
    <2>1. Live' = Live /\ LeftInStage'
      BY <1>2 DEF Live, LeftInStage, CountInv, GateTypes
    <2> QED BY <1>2, <2>1 DEF CountInv, PreAuthExact
  <1> QED BY <1>1, <1>2 DEF Admit

\* What a session does to the count.
LEMMA ConnStepCounts ==
    ASSUME CountInv, NEW c \in Conns, Accept(c) \/ ConnStep(c)
    PROVE  LeftInStage' /\ preAuth' \in Nat /\ PreAuthExact'
  <1>0. c \in Live => {c} \subseteq Live
    OBVIOUS
  <1>1. CASE Accept(c)
    <2>1. Counted' = Counted \cup {c} /\ c \notin Counted /\ LeftInStage'
      BY <1>1 DEF Accept, Counted, Live, CountInv, LeftInStage, GateTypes
    <2>2. Cardinality(Counted') = Cardinality(Counted) + 1
      BY <2>1, CountedIsFinite, FS_AddElement DEF CountInv
    <2>3. preAuth = Cardinality(Counted) /\ preAuth \in Nat /\ MaxPreAuth \in Nat
      BY PairingAssumption DEF CountInv, PreAuthExact, Counted
    <2>4. preAuth' = Cardinality(Counted') /\ preAuth' <= MaxPreAuth /\ preAuth' \in Nat
      BY <1>1, <2>2, <2>3 DEF Accept
    <2> QED BY <2>1, <2>4 DEF PreAuthExact, Counted
  <1>2. CASE OnCnxn(c)
    <2>1. CASE Close({c}) BY <1>0, <1>2, <2>1, CloseCounts DEF OnCnxn, Live
    <2>2. CASE session' = [session EXCEPT ![c] = "await-auth"] /\ UNCHANGED <<leftPreAuth, preAuth>>
      <3>1. Live' = Live /\ LeftInStage'
        BY <1>2, <2>2 DEF OnCnxn, Live, LeftInStage, CountInv, GateTypes
      <3> QED BY <2>2, <3>1 DEF CountInv, PreAuthExact
    <2> QED BY <1>2, <2>1, <2>2 DEF OnCnxn
  <1>3. CASE OnSignature(c)
    BY <1>3, AdmitCounts DEF OnSignature, Live
  <1>4. CASE OnPublicKey(c)
    <2>1. CASE Admit(c) BY <1>4, <2>1, AdmitCounts DEF OnPublicKey, Live
    <2>2. CASE Close({c}) BY <1>0, <1>4, <2>2, CloseCounts DEF OnPublicKey, Live
    <2>3. CASE /\ session' = [session EXCEPT ![c] = "pending"]
               /\ leftPreAuth' = [leftPreAuth EXCEPT ![c] = TRUE]
               /\ preAuth' = preAuth - 1
      <3>1. c \in Counted /\ Counted' = Counted \ {c} /\ LeftInStage'
        BY <1>4, <2>3 DEF OnPublicKey, Counted, Live, CountInv, LeftInStage, GateTypes
      <3> QED BY <2>3, <3>1, OneLeaves
    <2> QED BY <1>4, <2>1, <2>2, <2>3 DEF OnPublicKey, AskOperator
  <1>5. CASE DecisionArrives(c)
    BY <1>0, <1>5, AdmitCounts, CloseCounts DEF DecisionArrives, Live
  <1>6. CASE BannerArrives(c)
    <2>1. CASE Close({c}) BY <1>0, <1>6, <2>1, CloseCounts DEF BannerArrives, Live
    <2>2. CASE /\ session' = [session EXCEPT ![c] = "ready"]
               /\ leftPreAuth' = [leftPreAuth EXCEPT ![c] = TRUE]
               /\ preAuth' = IF leftPreAuth[c] THEN preAuth ELSE preAuth - 1
      <3>1. Counted' = Counted \ {c} /\ c \in Live /\ LeftInStage'
        BY <1>6, <2>2 DEF BannerArrives, Counted, Live, CountInv, LeftInStage, GateTypes
      <3>2. CASE leftPreAuth[c]
        BY <2>2, <3>1, <3>2 DEF CountInv, PreAuthExact, Counted
      <3>3. CASE ~leftPreAuth[c]
        BY <2>2, <3>1, <3>3, OneLeaves DEF Counted
      <3> QED BY <3>2, <3>3
    <2> QED BY <1>6, <2>1, <2>2 DEF BannerArrives
  <1>7. CASE PreAuthTimeout(c)
    BY <1>0, <1>7, CloseCounts DEF PreAuthTimeout
  <1>8. CASE PendingTimeout(c)
    BY <1>8 DEF PendingTimeout, CountInv, LeftInStage, PreAuthExact, Live
  <1>9. CASE Disconnect(c)
    BY <1>0, <1>9, CloseCounts DEF Disconnect
  <1> QED
    BY <1>1, <1>2, <1>3, <1>4, <1>5, <1>6, <1>7, <1>8, <1>9 DEF ConnStep

\* What operators and devices do to it: they close connected sessions at most.
LEMMA OthersCount ==
    ASSUME CountInv,
           \/ \E c \in Conns, status \in {"approved", "denied"} : Decide(c, status)
           \/ \E k \in Keys : RevokeKey(k) \/ ForgetKey(k)
           \/ \E k \in Keys, ids \in SUBSET Devices \ {{}} : SetKeyDevices(k, ids)
           \/ \E d \in Devices : DeviceOffline(d) \/ DeviceOnline(d)
    PROVE  LeftInStage' /\ preAuth' \in Nat /\ PreAuthExact'
  <1>1. \A k : Identified(k) \subseteq Live
    BY DEF Identified, Live
  <1>2. CASE UNCHANGED <<session, leftPreAuth, preAuth>>
    BY <1>2 DEF CountInv, LeftInStage, PreAuthExact, Live
  <1>3. ASSUME NEW c \in Conns, NEW status \in {"approved", "denied"}, Decide(c, status)
        PROVE  LeftInStage' /\ preAuth' \in Nat /\ PreAuthExact'
    BY <1>1, <1>2, <1>3, CloseCounts DEF Decide
  <1>4. ASSUME NEW k \in Keys, RevokeKey(k) \/ ForgetKey(k)
        PROVE  LeftInStage' /\ preAuth' \in Nat /\ PreAuthExact'
    BY <1>1, <1>4, CloseCounts DEF RevokeKey, ForgetKey
  <1>5. ASSUME NEW k \in Keys, NEW ids \in SUBSET Devices, SetKeyDevices(k, ids)
        PROVE  LeftInStage' /\ preAuth' \in Nat /\ PreAuthExact'
    <2>1. {c \in Identified(k) : DeviceOf[c] \notin ids} \subseteq Live BY <1>1
    <2> QED BY <1>5, <2>1, CloseCounts DEF SetKeyDevices
  <1>6. ASSUME NEW d \in Devices, DeviceOffline(d) \/ DeviceOnline(d)
        PROVE  LeftInStage' /\ preAuth' \in Nat /\ PreAuthExact'
    <2>1. {c \in Live : DeviceOf[c] = d} \subseteq Live OBVIOUS
    <2> QED BY <1>2, <1>6, <2>1, CloseCounts DEF DeviceOffline, DeviceOnline, gateVars
  <1> QED BY <1>3, <1>4, <1>5, <1>6

\* The count is exact at every state.
THEOREM CountInvHolds == PairingSpec => []CountInv
  <1>1. PairingInit => CountInv
    <2> SUFFICES ASSUME PairingInit PROVE CountInv OBVIOUS
    <2>1. GateTypes /\ LeftInStage
      BY PairingAssumption DEF PairingInit, GateTypes, SessionState, LeftInStage
    <2>2. {c \in Live : ~leftPreAuth[c]} = {}
      BY DEF PairingInit, Live
    <2>3. preAuth = 0 /\ Cardinality({c \in Live : ~leftPreAuth[c]}) = 0 /\ MaxPreAuth \in Nat
      BY <2>2, FS_EmptySet, PairingAssumption DEF PairingInit
    <2> QED BY <2>1, <2>3 DEF CountInv, PreAuthExact
  <1>2. CountInv /\ GateTypes' /\ [PairingNext]_pairingVars => CountInv'
    <2> SUFFICES ASSUME CountInv, GateTypes', [PairingNext]_pairingVars PROVE CountInv'
      OBVIOUS
    <2>1. CASE UNCHANGED pairingVars
      BY <2>1 DEF pairingVars, gateVars, CountInv, LeftInStage, PreAuthExact, Live
    <2> QED
      BY <2>1, ConnStepCounts, OthersCount DEF PairingNext, CountInv
  <1>3. PairingInv => GateTypes
    BY DEF PairingInv
  <1> QED BY <1>1, <1>2, <1>3, PairingInvHolds, PTL DEF PairingSpec

\* The pre-auth limit counts the sessions in their handshake, each once, and no
\* order of asking, being admitted, timing out and closing loses or doubles one.
THEOREM PairingCounts == PairingSpec => []PreAuthExact
  BY CountInvHolds, PTL DEF CountInv

\* Every variable keeps its type.
THEOREM PairingTypes == PairingSpec => []PairingTypeOK
  <1>1. CountInv => PairingTypeOK
    BY DEF CountInv, GateTypes, PairingTypeOK
  <1> QED BY <1>1, CountInvHolds, PTL

=============================================================================
