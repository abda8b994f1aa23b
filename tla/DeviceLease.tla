---------------------------- MODULE DeviceLease ----------------------------
(***************************************************************************)
(* What the busy lease of one device promises.  An automation run or a     *)
(* capture session takes the device only while nobody holds it, and the    *)
(* device becomes free only because its holder let it go.                  *)
(***************************************************************************)
CONSTANT Clients    \* the runs and capture sessions that may take the device

VARIABLE holders    \* those that hold it

LeaseInit == holders = {}

Take(p) == holders = {} /\ holders' = {p}

Yield(p) == holders = {p} /\ holders' = {}

LeaseNext == \E p \in Clients : Take(p) \/ Yield(p)

LeaseSpec == LeaseInit /\ [][LeaseNext]_holders

=============================================================================
