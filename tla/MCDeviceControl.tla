-------------------------- MODULE MCDeviceControl --------------------------
(***************************************************************************)
(* Instances of DeviceControl for TLC.                                     *)
(***************************************************************************)
EXTENDS DeviceControl

CONSTANTS r1, r2, s1, q1, q2, k1, k2, c1, c2

OneRun == {r1}
TwoRuns == {r1, r2}
SecondRun == {r2}
OneScript == {s1}
OneCapture == {q1}
TwoCaptures == {q1, q2}
OneStop == {k1}
TwoStops == {k1, k2}
TwoChildren == {c1, c2}

\* The script calls belong to the first run.
ScriptOwner == [s \in OneScript |-> r1]
NoScriptOwner == [s \in {} |-> r1]

LeaseThreads == TwoRuns \cup OneScript \cup TwoCaptures \cup OneStop
CaptureThreads == OneCapture \cup OneStop
StatusThreads == OneRun \cup OneCapture \cup OneStop
LateCallThreads == OneRun \cup OneScript \cup OneCapture \cup OneStop
StopThreads == TwoCaptures \cup TwoStops
RunThreads == TwoRuns \cup OneScript

=============================================================================
