-------------------------- MODULE MCBackendServices --------------------------
(***************************************************************************)
(* Small instances of the backend services.                                *)
(***************************************************************************)
EXTENDS BackendServices, TLC

CONSTANTS s1, s2, c1, c2, c3, k1, d1, d2, p1, p2, f, u1, u2, q1, q2, e1, e2, e3, a, ch,
          v1, v2, m1

\* The session: a shell that may announce a restart and on which the client
\* writes too, and a service that always restarts the device.
TwoStreams == {s1, s2}
ServiceOf == s1 :> "if-announced" @@ s2 :> "always"
PiecesOf == s1 :> 2 @@ s2 :> 0
ClientWriters == {s1}

\* The handshake: two clients of one key on one device, a third on another one.
ThreeConns == {c1, c2, c3}
OneKey == {k1}
TwoDevices == {d1, d2}
KeyOfConn == c1 :> k1 @@ c2 :> k1 @@ c3 :> k1
DeviceOfConn == c1 :> d1 @@ c2 :> d1 @@ c3 :> d2

\* The listeners: two devices that compete for one port, or one with two ports that
\* its edits can move it between.  One device comes, goes, is forgotten and edited.
OneOrTwoPorts == {{1}, {1, 2}}
OnePort == {{1}}
TwoInstallations == {[devices |-> {d1, d2}, range |-> {1}], [devices |-> {d1}, range |-> {1, 2}]}
GoesAway == {d1}

\* The intercept hold: the request and the response of one flow, in two UIs.
TwoPosts == {p1, p2}
OneFlow == [p \in TwoPosts |-> f]
ResponseAfterRequest == p1 :> Nobody @@ p2 :> p1
TwoUIs == {u1, u2}

\* Discovery: one device, two polls that overlap.
OnePhone == {d1}
TwoPolls == {q1, q2}

\* Notifications: two events of one source, and a critical one without.
ThreeEvents == {e1, e2, e3}
CriticalEvents == {e3}
SourceOfEvent == e1 :> a @@ e2 :> a @@ e3 :> NoSource
OneChannel == {ch}

\* The live stream: two viewers, one stream after the other.
TwoViewers == {v1, v2}
OneFeed == {m1}

=============================================================================
