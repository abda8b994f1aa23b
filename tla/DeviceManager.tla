--------------------------- MODULE DeviceManager ---------------------------
(***************************************************************************)
(* DeviceManager's state for one device (every one of its maps is keyed by *)
(* the device): the busy lease and the WireGuard tunnel it sets up on the  *)
(* phone over adb.  The lease carries no owner.                            *)
(***************************************************************************)
CONSTANT HalfActivations  \* an activation may fail half way (BOOLEAN)

VARIABLES busy,     \* busyDevices.has(deviceId)
          tunnel    \* wg0 and its routing rules exist on the phone

deviceVars == <<busy, tunnel>>

DeviceInit == busy = FALSE /\ tunnel = FALSE

DeviceTypeOK == busy \in BOOLEAN /\ tunnel \in BOOLEAN

-----------------------------------------------------------------------------
(* The lease.  tryAcquireBusy is the only operation that looks first.      *)

\* Seeded bug: markBusy in its place, which does not look.
AcquireUnconditionally == busy' = TRUE

TryAcquireBusy == ~busy /\ busy' = TRUE

MarkBusy == busy' = TRUE

MarkIdle == busy' = FALSE

-----------------------------------------------------------------------------
(* The tunnel.  Activation first tears an old tunnel down, then creates    *)
(* the interface and its rules in one command chain on the phone.  It may  *)
(* fail before the chain starts, or, where the instance allows it, in the  *)
(* middle, which leaves an unusable interface or none.  Deactivation       *)
(* swallows its errors; the phone is assumed to be reachable when it runs. *)

ActivateWireGuardTunnel == tunnel' = TRUE

ActivationFails ==
    \/ UNCHANGED tunnel
    \/ HalfActivations /\ tunnel' \in BOOLEAN

DeactivateWireGuardTunnel == tunnel' = FALSE

=============================================================================
