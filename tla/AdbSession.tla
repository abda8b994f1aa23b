----------------------------- MODULE AdbSession -----------------------------
(***************************************************************************)
(* A ready session of the ADB proxy (adb-proxy/session.ts): the streams of *)
(* one client connection, each bridged to a socket of the device.  A       *)
(* packet is its command; payloads are counted in pieces, a piece being    *)
(* what one WRTE carries.  Packets of one stream arrive in order; between  *)
(* streams their order is left open, which allows more than the one TCP    *)
(* connection does.                                                        *)
(***************************************************************************)
EXTENDS Naturals, Sequences, FiniteSets

LOCAL INSTANCE Functions

CONSTANTS Streams,     \* the OPENs of the client, by its own stream id
          MaxStreams,  \* opts.maxStreams
          Pieces,      \* bound: pieces the device writes on each stream
          Service,     \* what each OPEN asks for
          Writers      \* streams on which the client writes

ServiceKinds == {"refused", "never", "always", "if-announced"}

ASSUME StreamsAssumption ==
    /\ Service \in [Streams -> ServiceKinds] /\ Writers \subseteq Streams
    /\ MaxStreams \in Nat /\ Pieces \in [Streams -> Nat]

VARIABLES
    link,        \* "up", "restarting" (this.restarting) or "closed"
    stream,      \* the session's record of each stream
    dialing,     \* openService has not settled yet
    sock,        \* the device's socket: "none", "paused", "flowing", "destroyed"
    written,     \* pieces the device wrote to it
    unread,      \* those the session has not read
    deviceEnd,   \* the device's side of it: "running", "ended" or "failed"
    toClient,    \* packets on their way, per stream
    toProxy,
    client,      \* the client: "new", "opening", "open", "closed" or "lost"
    owes,        \* it has a WRTE that it has not acknowledged
    got,         \* pieces it received
    aborted      \* history: the session closed it, not the end of the device's data

recordVars == <<link, stream, dialing, sock, toClient, aborted>>
peerVars == <<client, owes, got>>
adbVars == <<recordVars, written, unread, deviceEnd, toProxy, peerVars>>

Packets == {"OPEN", "OKAY", "WRTE", "CLSE"}

\* stage "opening" is a stream without a backend, "gone" one that was removed.
StreamRecord == [stage : {"none", "opening", "open", "gone"}, queue : Nat,
                 window : BOOLEAN, ack : BOOLEAN, ended : BOOLEAN]

Fresh(stage) == [stage |-> stage, queue |-> 0, window |-> FALSE,
                 ack |-> FALSE, ended |-> FALSE]

AdbInit ==
    /\ link = "up"
    /\ stream = [s \in Streams |-> Fresh("none")]
    /\ dialing = [s \in Streams |-> FALSE]
    /\ sock = [s \in Streams |-> "none"]
    /\ written = [s \in Streams |-> 0] /\ unread = [s \in Streams |-> 0]
    /\ deviceEnd = [s \in Streams |-> "running"]
    /\ toClient = [s \in Streams |-> <<>>] /\ toProxy = [s \in Streams |-> <<>>]
    /\ client = [s \in Streams |-> "new"]
    /\ owes = [s \in Streams |-> FALSE] /\ got = [s \in Streams |-> 0]
    /\ aborted = [s \in Streams |-> FALSE]

Listed == {s \in Streams : stream[s].stage \in {"opening", "open"}}

Packet(s, p) == toProxy[s] # <<>> /\ Head(toProxy[s]) = p

Consumed(s) == toProxy' = [toProxy EXCEPT ![s] = Tail(@)]

-----------------------------------------------------------------------------
(* What the handlers are built from.                                       *)

\* The rule of the service; an announcement is in the first output read.
RestartsDevice(s) ==
    \/ Service[s] = "always"
    \/ Service[s] = "if-announced" /\ written[s] > unread[s]

\* Seeded bug: the stream stays in the map.
CloseForgetsRemoval(s, before, why) ==
    /\ sock' = [sock EXCEPT ![s] = "destroyed"]
    /\ toClient' = [toClient EXCEPT ![s] = @ \o before \o <<"CLSE">>]
    /\ link' = IF RestartsDevice(s) THEN "restarting" ELSE link
    /\ aborted' = [aborted EXCEPT ![s] = why # "end"]
    /\ UNCHANGED stream

\* closeStream, after the packets before have been sent.
CloseStream(s, before, why) ==
    /\ stream' = [stream EXCEPT ![s] = Fresh("gone")]
    /\ sock' = [sock EXCEPT ![s] = "destroyed"]
    /\ toClient' = [toClient EXCEPT ![s] = @ \o before \o <<"CLSE">>]
    /\ link' = IF RestartsDevice(s) THEN "restarting" ELSE link
    /\ aborted' = [aborted EXCEPT ![s] = why # "end"]

\* Seeded bug: a WRTE leaves the window open.
WindowKept(r) == r.window

WindowAfter(r) == r.window /\ r.queue = 0

\* Seeded bug: the end of the socket closes the stream before its queue is sent.
OverAtEnd(r, left) == r.ended

\* All is sent and acknowledged, and nothing will follow.
Over(r, left) == left = 0 /\ r.ended /\ WindowAfter(r)

\* Seeded bug: the socket stays paused.
ResumesNever(r, left) == FALSE

Resumes(r, left) == r.stage = "open" /\ left = 0 /\ ~r.ended /\ WindowAfter(r)

\* pump, on the stream's record r, with its socket left in state flow and after
\* the packets before have been sent.
Pump(s, r, flow, before) ==
    LET sends == r.window /\ r.queue > 0
        left == IF sends THEN r.queue - 1 ELSE r.queue
    IN IF Over(r, left)
       THEN CloseStream(s, before, "end")
       ELSE /\ stream' = [stream EXCEPT ![s] =
                             [r EXCEPT !.queue = left, !.window = WindowAfter(r)]]
            /\ sock' = [sock EXCEPT ![s] =
                           IF left > 0 THEN "paused"
                           ELSE IF Resumes(r, left) THEN "flowing" ELSE flow]
            /\ toClient' = [toClient EXCEPT ![s] =
                               @ \o before \o IF sends THEN <<"WRTE">> ELSE <<>>]
            /\ UNCHANGED <<link, aborted>>

\* refuse: a CLSE for an OPEN that has no stream, or has it no more.
Refuse(s) ==
    /\ stream' = [stream EXCEPT ![s] = Fresh("gone")]
    /\ toClient' = [toClient EXCEPT ![s] = Append(@, "CLSE")]
    /\ aborted' = [aborted EXCEPT ![s] = TRUE]
    /\ UNCHANGED <<link, sock>>

\* close: every socket of the map is destroyed and the map is cleared; packets
\* that were not read are lost with the connection.
CloseSession ==
    /\ link' = "closed"
    /\ stream' = [s \in Streams |-> IF s \in Listed THEN Fresh("gone") ELSE stream[s]]
    /\ sock' = [s \in Streams |->
                   IF s \in Listed /\ sock[s] # "none" THEN "destroyed" ELSE sock[s]]
    /\ aborted' = [s \in Streams |-> aborted[s] \/ s \in Listed]
    /\ toProxy' = [s \in Streams |-> <<>>]
    /\ UNCHANGED toClient

-----------------------------------------------------------------------------
(* The session's handlers.  A packet that arrives while the session is     *)
(* restarting, or for a stream that it does not list, is dropped.          *)

OnOpen(s) ==
    /\ Packet(s, "OPEN") /\ Consumed(s) /\ link = "up"
    /\ IF Service[s] = "refused" \/ Cardinality(Listed) >= MaxStreams
       THEN Refuse(s) /\ UNCHANGED dialing
       ELSE /\ stream' = [stream EXCEPT ![s] = Fresh("opening")]
            /\ dialing' = [dialing EXCEPT ![s] = TRUE]
            /\ UNCHANGED <<link, sock, toClient, aborted>>
    /\ UNCHANGED <<written, unread, deviceEnd, peerVars>>

\* Seeded bug: a socket that comes too late is left to itself.
LateSocketKept(s) == sock' = [sock EXCEPT ![s] = "paused"]

LateSocket(s) == sock' = [sock EXCEPT ![s] = "destroyed"]

\* The device's socket arrives, perhaps with a first piece, perhaps ended; the
\* session or its stream may be gone by then.
OpenResolves(s) ==
    /\ dialing[s] /\ dialing' = [dialing EXCEPT ![s] = FALSE]
    /\ \E n \in 0 .. 1, end \in {"running", "ended"} :
          /\ n <= Pieces[s]
          /\ written' = [written EXCEPT ![s] = n] /\ unread' = [unread EXCEPT ![s] = n]
          /\ deviceEnd' = [deviceEnd EXCEPT ![s] = end]
          /\ IF link = "closed" \/ s \notin Listed
             THEN LateSocket(s) /\ UNCHANGED <<link, stream, toClient, aborted>>
             ELSE Pump(s, [Fresh("open") EXCEPT !.window = TRUE,
                                                !.ended = n = 0 /\ end = "ended"],
                       "flowing", <<"OKAY">>)
    /\ UNCHANGED <<toProxy, peerVars>>

OpenRejects(s) ==
    /\ dialing[s] /\ dialing' = [dialing EXCEPT ![s] = FALSE]
    /\ IF s \in Listed THEN Refuse(s) ELSE UNCHANGED <<link, stream, sock, toClient, aborted>>
    /\ UNCHANGED <<written, unread, deviceEnd, toProxy, peerVars>>

\* DeviceUnavailableError: the whole session closes.
DeviceUnavailable(s) ==
    /\ dialing[s] /\ s \in Listed /\ dialing' = [dialing EXCEPT ![s] = FALSE]
    /\ CloseSession
    /\ UNCHANGED <<written, unread, deviceEnd, peerVars>>

\* A chunk of n pieces; the socket is paused before the pump.
BackendData(s) ==
    /\ stream[s].stage = "open" /\ sock[s] = "flowing"
    /\ \E n \in 1 .. unread[s] :
          /\ unread' = [unread EXCEPT ![s] = @ - n]
          /\ Pump(s, [stream[s] EXCEPT !.queue = @ + n], "paused", <<>>)
    /\ UNCHANGED <<dialing, written, deviceEnd, toProxy, peerVars>>

BackendEnds(s) ==
    /\ stream[s].stage = "open" /\ ~stream[s].ended
    /\ deviceEnd[s] = "ended" /\ unread[s] = 0
    /\ Pump(s, [stream[s] EXCEPT !.ended = TRUE], sock[s], <<>>)
    /\ UNCHANGED <<dialing, written, unread, deviceEnd, toProxy, peerVars>>

BackendError(s) ==
    /\ stream[s].stage = "open" /\ deviceEnd[s] = "failed"
    /\ CloseStream(s, <<>>, "error")
    /\ UNCHANGED <<dialing, written, unread, deviceEnd, toProxy, peerVars>>

\* A second WRTE before the first is acknowledged is a protocol error.
OnWrite(s) ==
    /\ Packet(s, "WRTE") /\ Consumed(s) /\ link = "up" /\ stream[s].stage = "open"
    /\ IF stream[s].ack
       THEN CloseStream(s, <<>>, "protocol")
       ELSE /\ stream' = [stream EXCEPT ![s].ack = TRUE]
            /\ UNCHANGED <<link, sock, toClient, aborted>>
    /\ UNCHANGED <<dialing, written, unread, deviceEnd, peerVars>>

\* The callback of backend.write, with an error when the device hung up.
WriteDone(s) ==
    /\ stream[s].ack
    /\ \/ /\ stream' = [stream EXCEPT ![s].ack = FALSE]
          /\ toClient' = [toClient EXCEPT ![s] = Append(@, "OKAY")]
          /\ UNCHANGED <<link, sock, aborted>>
       \/ deviceEnd[s] # "running" /\ CloseStream(s, <<>>, "error")
    /\ UNCHANGED <<dialing, written, unread, deviceEnd, toProxy, peerVars>>

OnOkay(s) ==
    /\ Packet(s, "OKAY") /\ Consumed(s) /\ link = "up" /\ s \in Listed
    /\ Pump(s, [stream[s] EXCEPT !.window = TRUE], sock[s], <<>>)
    /\ UNCHANGED <<dialing, written, unread, deviceEnd, peerVars>>

OnPeerClose(s) ==
    /\ Packet(s, "CLSE") /\ Consumed(s) /\ link = "up" /\ s \in Listed
    /\ CloseStream(s, <<>>, "peer")
    /\ UNCHANGED <<dialing, written, unread, deviceEnd, peerVars>>

Dropped(s) ==
    /\ toProxy[s] # <<>> /\ Consumed(s)
    /\ \/ link = "restarting"
       \/ link = "up" /\ stream[s].stage = "gone"
    /\ UNCHANGED <<recordVars, written, unread, deviceEnd, peerVars>>

\* The last CLSE is flushed, or RESTART_CLOSE_MS have passed.
RestartCloses ==
    /\ link = "restarting" /\ CloseSession
    /\ UNCHANGED <<dialing, written, unread, deviceEnd, peerVars>>

\* The client's socket fails, or the service destroys the session (the device
\* went offline, its listener stopped, the key was revoked).
SessionCloses ==
    /\ link # "closed" /\ CloseSession
    /\ UNCHANGED <<dialing, written, unread, deviceEnd, peerVars>>

-----------------------------------------------------------------------------
(* The device and the client.                                              *)

DeviceWrites(s) ==
    /\ sock[s] \in {"paused", "flowing"} /\ deviceEnd[s] = "running"
    /\ written[s] < Pieces[s]
    /\ written' = [written EXCEPT ![s] = @ + 1]
    /\ unread' = [unread EXCEPT ![s] = @ + 1]
    /\ UNCHANGED <<recordVars, deviceEnd, toProxy, peerVars>>

DeviceHangsUp(s) ==
    /\ sock[s] \in {"paused", "flowing"} /\ deviceEnd[s] = "running"
    /\ \E end \in {"ended", "failed"} : deviceEnd' = [deviceEnd EXCEPT ![s] = end]
    /\ UNCHANGED <<recordVars, written, unread, toProxy, peerVars>>

ClientSends(s, p) ==
    /\ link # "closed"
    /\ toProxy' = [toProxy EXCEPT ![s] = Append(@, p)]
    /\ UNCHANGED <<recordVars, written, unread, deviceEnd, got>>

ClientOpens(s) ==
    /\ client[s] = "new"
    /\ client' = [client EXCEPT ![s] = "opening"]
    /\ ClientSends(s, "OPEN") /\ UNCHANGED owes

\* It may write again before the acknowledgement is sent (bound: not while one
\* is on its way to it).
ClientWrites(s) ==
    /\ client[s] = "open" /\ s \in Writers
    /\ "WRTE" \notin Range(toProxy[s]) /\ "OKAY" \notin Range(toClient[s])
    /\ ClientSends(s, "WRTE") /\ UNCHANGED <<client, owes>>

ClientAcks(s) ==
    /\ client[s] = "open" /\ owes[s]
    /\ owes' = [owes EXCEPT ![s] = FALSE]
    /\ ClientSends(s, "OKAY") /\ UNCHANGED client

ClientCloses(s) ==
    /\ client[s] = "open"
    /\ client' = [client EXCEPT ![s] = "lost"]
    /\ ClientSends(s, "CLSE") /\ UNCHANGED owes

ClientReceives(s) ==
    /\ client[s] \in {"opening", "open"} /\ toClient[s] # <<>>
    /\ toClient' = [toClient EXCEPT ![s] = Tail(@)]
    /\ LET p == Head(toClient[s]) IN
       /\ client' = [client EXCEPT ![s] = CASE p = "CLSE" -> "closed"
                                            [] p = "OKAY" -> "open"
                                            [] OTHER -> @]
       /\ owes' = [owes EXCEPT ![s] = @ \/ p = "WRTE"]
       /\ got' = [got EXCEPT ![s] = IF p = "WRTE" THEN @ + 1 ELSE @]
    /\ UNCHANGED <<link, stream, dialing, sock, aborted, written, unread, deviceEnd, toProxy>>

\* The connection is closed; what was still on its way may be lost.
ClientLosesLink(s) ==
    /\ link = "closed" /\ client[s] \in {"opening", "open"}
    /\ client' = [client EXCEPT ![s] = "lost"]
    /\ UNCHANGED <<recordVars, written, unread, deviceEnd, toProxy, owes, got>>

-----------------------------------------------------------------------------
PacketArrives(s) ==
    OnOpen(s) \/ OnWrite(s) \/ OnOkay(s) \/ OnPeerClose(s) \/ Dropped(s)

DialSettles(s) == OpenResolves(s) \/ OpenRejects(s) \/ DeviceUnavailable(s)

BackendEvent(s) == BackendData(s) \/ BackendEnds(s) \/ BackendError(s)

AdbNext ==
    \/ \E s \in Streams :
          \/ PacketArrives(s) \/ DialSettles(s) \/ BackendEvent(s) \/ WriteDone(s)
          \/ DeviceWrites(s) \/ DeviceHangsUp(s)
          \/ ClientOpens(s) \/ ClientWrites(s) \/ ClientAcks(s)
          \/ ClientCloses(s) \/ ClientReceives(s) \/ ClientLosesLink(s)
    \/ RestartCloses \/ SessionCloses

AdbSpec == AdbInit /\ [][AdbNext]_adbVars

\* The handlers run when their events are there, a dial settles, RESTART_CLOSE_MS
\* is a timer, and the client reads and acknowledges what it is sent.
AdbFairness ==
    /\ \A s \in Streams :
          /\ WF_adbVars(PacketArrives(s)) /\ WF_adbVars(DialSettles(s))
          /\ WF_adbVars(BackendEvent(s)) /\ WF_adbVars(WriteDone(s))
          /\ WF_adbVars(ClientReceives(s) \/ ClientLosesLink(s))
          /\ WF_adbVars(ClientAcks(s))
    /\ WF_adbVars(RestartCloses)

-----------------------------------------------------------------------------
(* Properties.                                                             *)

AdbTypeOK ==
    /\ link \in {"up", "restarting", "closed"}
    /\ stream \in [Streams -> StreamRecord]
    /\ dialing \in [Streams -> BOOLEAN]
    /\ sock \in [Streams -> {"none", "paused", "flowing", "destroyed"}]
    /\ written \in [Streams -> Nat] /\ unread \in [Streams -> Nat]
    /\ deviceEnd \in [Streams -> {"running", "ended", "failed"}]
    /\ toClient \in [Streams -> Seq(Packets)] /\ toProxy \in [Streams -> Seq(Packets)]
    /\ client \in [Streams -> {"new", "opening", "open", "closed", "lost"}]
    /\ owes \in [Streams -> BOOLEAN] /\ got \in [Streams -> Nat] /\ aborted \in [Streams -> BOOLEAN]

\* No socket of the device stays open behind a stream that the session does not
\* list, also when it arrives after its stream or its session is gone.
NoSocketLeak ==
    \A s \in Streams :
        sock[s] \in {"paused", "flowing"} => s \in Listed /\ link # "closed"

\* A stream says nothing after its CLSE, whatever event of its socket or of a
\* write comes late.
NothingAfterClose ==
    \A s \in Streams : \A i \in 1 .. Len(toClient[s]) :
        toClient[s][i] = "CLSE" => i = Len(toClient[s])

\* The session keeps ADB's flow control, which allows one unacknowledged WRTE
\* per stream: it never sends a second one before the client's OKAY came back.
OneUnacknowledged ==
    \A s \in Streams :
        LET sent == Cardinality({i \in DOMAIN toClient[s] : toClient[s][i] = "WRTE"})
            acks == Cardinality({i \in DOMAIN toProxy[s] : toProxy[s][i] = "OKAY"})
        IN sent + acks + (IF owes[s] THEN 1 ELSE 0)
             + (IF stream[s].window THEN 1 ELSE 0) <= 1

Outcome == [s \in Streams |->
               CASE client[s] = "lost" -> "aborted"
                 [] client[s] = "closed" -> IF aborted[s] THEN "aborted" ELSE "complete"
                 [] OTHER -> "open"]

Bytes == INSTANCE ByteStream WITH Flows <- Streams, sent <- written,
                                  received <- got, outcome <- Outcome

\* The session implements the byte stream: the client receives what the device
\* wrote and nothing else, and a stream that the end of the device's data closed
\* is closed for the client when it has all of it, however reading, pausing, the
\* window and the end of the socket cross.
ImplementsByteStream == Bytes!FlowSpec

\* What the device writes arrives, a stream whose device side is over is closed
\* for the client, and a session that told its device to restart is closed: in
\* the end nothing waits, neither the socket that is paused nor the window.
StreamsSettle ==
    <>[](/\ link # "restarting"
         /\ \A s \in Streams :
               client[s] \in {"opening", "open"}
                  => got[s] = written[s] /\ deviceEnd[s] = "running")

=============================================================================
