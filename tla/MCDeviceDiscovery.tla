-------------------------- MODULE MCDeviceDiscovery --------------------------
(***************************************************************************)
(* Discovery of one device, by one poll at a time.                         *)
(***************************************************************************)
EXTENDS DeviceDiscovery

CONSTANTS d1, q1

OnePhone == {d1}
OnePoll == {q1}

=============================================================================
