-------------------------- MODULE AdbSession_proof --------------------------
(***************************************************************************)
(* The streams of a session, for any streams, services, limits and amounts *)
(* of data: first their sockets and last packets, then their flow (every   *)
(* piece is somewhere, and one permission to send it), and from both that  *)
(* a session implements the byte streams of ByteStream.                    *)
(***************************************************************************)
EXTENDS AdbSession, FiniteSetTheorems, TLAPS

SessionTypes ==
    /\ link \in {"up", "restarting", "closed"}
    /\ stream \in [Streams -> StreamRecord]
    /\ dialing \in [Streams -> BOOLEAN]
    /\ sock \in [Streams -> {"none", "paused", "flowing", "destroyed"}]
    /\ toProxy \in [Streams -> Seq(Packets)]
    /\ toClient \in [Streams -> Seq(Packets)]
    /\ client \in [Streams -> {"new", "opening", "open", "closed", "lost"}]

\* A stream is opened once: its OPEN is the first packet of the client, and while
\* it is on its way the session has never heard of the stream.
OpensOnce ==
    \A s \in Streams :
        /\ client[s] = "new" => toProxy[s] = <<>> /\ stream[s].stage = "none"
        /\ \A i \in 1 .. Len(toProxy[s]) :
              toProxy[s][i] = "OPEN" => i = 1 /\ stream[s].stage = "none"
        /\ dialing[s] => stream[s].stage \notin {"none", "open"}
        /\ stream[s].ack => stream[s].stage = "open"
        /\ stream[s].stage = "opening" => stream[s].queue = 0

\* A socket that is open is the backend of a stream that is open.
SocketsHaveStreams ==
    \A s \in Streams :
        /\ sock[s] \in {"paused", "flowing"} => stream[s].stage = "open"
        /\ link = "closed" => stream[s].stage \notin {"opening", "open"}

\* CLSE is the last packet, and only of a stream that is gone.
ClosesLast ==
    \A s \in Streams : \A i \in 1 .. Len(toClient[s]) :
        toClient[s][i] = "CLSE" => i = Len(toClient[s]) /\ stream[s].stage = "gone"

SessionInv == SessionTypes /\ OpensOnce /\ SocketsHaveStreams /\ ClosesLast

-----------------------------------------------------------------------------
(* The packets to the client.                                              *)

\* Packets other than CLSE, and then perhaps CLSE, are sent to a client that was
\* sent no CLSE.
LEMMA SentPackets ==
    ASSUME NEW q \in Seq(Packets), \A i \in 1 .. Len(q) : q[i] # "CLSE",
           NEW before \in {<<>>, <<"OKAY">>},
           NEW last \in {<<>>, <<"WRTE">>, <<"OKAY">>, <<"CLSE">>}
    PROVE  /\ q \o before \o last \in Seq(Packets)
           /\ \A i \in 1 .. Len(q \o before \o last) :
                 (q \o before \o last)[i] = "CLSE"
                    => i = Len(q \o before \o last) /\ last = <<"CLSE">>
  <1>1. before \in Seq(Packets) /\ last \in Seq(Packets)
    <2>1. <<>> \in Seq(Packets) OBVIOUS
    <2>2. <<"OKAY">> \in Seq(Packets) BY DEF Packets
    <2>3. <<"WRTE">> \in Seq(Packets) BY DEF Packets
    <2>4. <<"CLSE">> \in Seq(Packets) BY DEF Packets
    <2> QED BY <2>1, <2>2, <2>3, <2>4
  <1>2. Len(before) \in {0, 1} /\ \A i \in 1 .. Len(before) : before[i] # "CLSE"
    OBVIOUS
  <1>3. Len(last) \in {0, 1}
        /\ \A i \in 1 .. Len(last) : last[i] = "CLSE" => i = 1 /\ last = <<"CLSE">>
    OBVIOUS
  <1>4. q \o before \in Seq(Packets) /\ Len(q \o before) = Len(q) + Len(before)
        /\ \A i \in 1 .. Len(q \o before) : (q \o before)[i] # "CLSE"
    BY <1>1, <1>2
  <1> DEFINE p == q \o before
  <1>5. /\ p \o last \in Seq(Packets) /\ Len(p \o last) = Len(p) + Len(last)
        /\ Len(p) \in Nat /\ Len(last) \in Nat
        /\ \A i \in 1 .. Len(p \o last) :
              (p \o last)[i] = IF i <= Len(p) THEN p[i] ELSE last[i - Len(p)]
    BY <1>1, <1>4
  <1>6. ASSUME NEW i \in 1 .. Len(p \o last), (p \o last)[i] = "CLSE"
        PROVE  i = Len(p \o last) /\ last = <<"CLSE">>
    <2>1. ~(i <= Len(p)) BY <1>4, <1>5, <1>6
    <2>2. i - Len(p) \in 1 .. Len(last) /\ last[i - Len(p)] = "CLSE"
      BY <1>5, <1>6, <2>1
    <2> QED BY <1>3, <1>5, <2>2
  <1> QED BY <1>5, <1>6

LEMMA AppendedPacket ==
    ASSUME NEW q \in Seq(Packets), NEW p \in {"OKAY", "CLSE"}
    PROVE  Append(q, p) = q \o <<>> \o <<p>>
  <1>1. q \o <<>> = q OBVIOUS
  <1>2. p \in Packets BY DEF Packets
  <1> QED BY <1>1, <1>2

-----------------------------------------------------------------------------
(* What a handler leaves of its stream, and of the packets it reads.       *)

\* Stream s moves, and no other; it has been opened, and says nothing more once it
\* is gone.
Effect(s) ==
    /\ link' \in {"up", "restarting", "closed"} /\ (link' = "closed" => link = "closed")
    /\ stream' \in [Streams -> StreamRecord]
    /\ sock' \in [Streams -> {"none", "paused", "flowing", "destroyed"}]
    /\ toClient' \in [Streams -> Seq(Packets)]
    /\ \A t \in Streams \ {s} :
          stream'[t] = stream[t] /\ sock'[t] = sock[t] /\ toClient'[t] = toClient[t]
    /\ stream'[s].stage # "none"
    /\ stream'[s].ack => stream'[s].stage = "open"
    /\ stream'[s].stage = "opening" => stream'[s].queue = 0
    /\ sock'[s] \in {"paused", "flowing"} => stream'[s].stage = "open"
    /\ link' = "closed" => stream'[s].stage \notin {"opening", "open"}
    /\ \A i \in 1 .. Len(toClient'[s]) :
          toClient'[s][i] = "CLSE" => i = Len(toClient'[s]) /\ stream'[s].stage = "gone"

\* The packets of stream s stay, or its first one is read.
Reads(s) ==
    /\ client' = client
    /\ \/ toProxy' = toProxy /\ stream[s].stage # "none"
       \/ toProxy[s] # <<>> /\ Consumed(s)

\* What is left when the first packet was read holds no OPEN.
LEMMA RestOfPackets ==
    ASSUME SessionInv, NEW s \in Streams, toProxy[s] # <<>>, Consumed(s)
    PROVE  /\ toProxy' \in [Streams -> Seq(Packets)]
           /\ \A t \in Streams \ {s} : toProxy'[t] = toProxy[t]
           /\ client[s] # "new" /\ \A i \in 1 .. Len(toProxy'[s]) : toProxy'[s][i] # "OPEN"
  <1> USE DEF SessionInv, SessionTypes
  <1>1. toProxy[s] \in Seq(Packets) /\ Tail(toProxy[s]) \in Seq(Packets)
    OBVIOUS
  <1>2. toProxy' \in [Streams -> Seq(Packets)] /\ toProxy'[s] = Tail(toProxy[s])
        /\ \A t \in Streams \ {s} : toProxy'[t] = toProxy[t]
    BY <1>1 DEF Consumed
  <1>3. \A i \in 1 .. Len(toProxy'[s]) :
           i + 1 \in 1 .. Len(toProxy[s]) /\ toProxy'[s][i] = toProxy[s][i + 1]
    BY <1>1, <1>2
  <1>4. ASSUME NEW i \in 1 .. Len(toProxy'[s]), toProxy'[s][i] = "OPEN" PROVE FALSE
    <2>1. i + 1 \in 1 .. Len(toProxy[s]) /\ toProxy[s][i + 1] = "OPEN"
      BY <1>3, <1>4
    <2>2. i + 1 = 1
      BY <2>1 DEF OpensOnce
    <2> QED BY <2>2
  <1> QED BY <1>2, <1>4 DEF OpensOnce

LEMMA EffectKeeps ==
    ASSUME SessionInv, NEW s \in Streams, Effect(s), Reads(s),
           dialing' \in [Streams -> BOOLEAN],
           \A t \in Streams \ {s} : dialing'[t] = dialing[t],
           dialing'[s] => stream'[s].stage # "open"
    PROVE  SessionInv'
  <1> USE DEF SessionInv, SessionTypes
  <1>1. toProxy' \in [Streams -> Seq(Packets)]
        /\ \A t \in Streams \ {s} : toProxy'[t] = toProxy[t]
    BY RestOfPackets DEF Reads
  <1>2. client'[s] # "new" /\ \A i \in 1 .. Len(toProxy'[s]) : toProxy'[s][i] # "OPEN"
    BY RestOfPackets DEF Reads, OpensOnce
  <1>3. SessionTypes'
    BY <1>1 DEF Effect, Reads
  <1>4. OpensOnce'
    <2> SUFFICES ASSUME NEW t \in Streams
                 PROVE  /\ client'[t] = "new" => toProxy'[t] = <<>> /\ stream'[t].stage = "none"
                        /\ \A i \in 1 .. Len(toProxy'[t]) :
                              toProxy'[t][i] = "OPEN" => i = 1 /\ stream'[t].stage = "none"
                        /\ dialing'[t] => stream'[t].stage \notin {"none", "open"}
                        /\ stream'[t].ack => stream'[t].stage = "open"
                        /\ stream'[t].stage = "opening" => stream'[t].queue = 0
      BY DEF OpensOnce
    <2>1. CASE t = s
      BY <1>2, <2>1 DEF Effect
    <2>2. CASE t # s
      <3>1. /\ stream'[t] = stream[t] /\ toProxy'[t] = toProxy[t]
            /\ client'[t] = client[t] /\ dialing'[t] = dialing[t]
        BY <1>1, <2>2 DEF Effect, Reads
      <3> QED BY <3>1 DEF OpensOnce
    <2> QED BY <2>1, <2>2
  <1>5. SocketsHaveStreams'
    BY DEF Effect, SocketsHaveStreams
  <1>6. ClosesLast'
    <2> SUFFICES ASSUME NEW t \in Streams, NEW i \in 1 .. Len(toClient'[t]),
                        toClient'[t][i] = "CLSE"
                 PROVE  i = Len(toClient'[t]) /\ stream'[t].stage = "gone"
      BY DEF ClosesLast
    <2>1. CASE t = s BY <2>1 DEF Effect
    <2>2. CASE t # s
      <3>1. toClient'[t] = toClient[t] /\ stream'[t] = stream[t]
        BY <2>2 DEF Effect
      <3> QED BY <3>1 DEF ClosesLast
    <2> QED BY <2>1, <2>2
  <1> QED BY <1>3, <1>4, <1>5, <1>6

LEMMA FreshRecord ==
    ASSUME NEW stage \in {"none", "opening", "open", "gone"}
    PROVE  /\ Fresh(stage) \in StreamRecord /\ Fresh(stage).stage = stage
           /\ Fresh(stage).ack = FALSE /\ Fresh(stage).queue = 0
  BY DEF Fresh, StreamRecord

\* closeStream of a stream of the map.
LEMMA CloseStreamEffect ==
    ASSUME SessionInv, NEW s \in Streams, stream[s].stage \in {"opening", "open"},
           NEW before \in {<<>>, <<"OKAY">>}, NEW why, CloseStream(s, before, why)
    PROVE  Effect(s) /\ stream'[s].stage = "gone"
  <1> USE DEF SessionInv, SessionTypes
  <1>1. \A i \in 1 .. Len(toClient[s]) : toClient[s][i] # "CLSE"
    BY DEF ClosesLast
  <1>2. toClient' = [toClient EXCEPT ![s] = toClient[s] \o before \o <<"CLSE">>]
    BY DEF CloseStream
  <1>3. toClient' \in [Streams -> Seq(Packets)]
        /\ \A i \in 1 .. Len(toClient'[s]) :
              toClient'[s][i] = "CLSE" => i = Len(toClient'[s])
    BY <1>1, <1>2, SentPackets
  <1>4. link' \in {"up", "restarting", "closed"} /\ link' # "closed"
    BY DEF CloseStream, SocketsHaveStreams
  <1> QED
    BY <1>2, <1>3, <1>4, FreshRecord DEF CloseStream, Effect

\* pump of a stream, which may wait for its backend still.
LEMMA PumpEffect ==
    ASSUME SessionInv, NEW s \in Streams, stream[s].stage \in {"opening", "open"},
           NEW r \in StreamRecord, r.stage \in {"opening", "open"},
           r.stage = "opening" => r.queue = 0 /\ ~r.ack,
           NEW flow \in {"none", "paused", "flowing", "destroyed"},
           flow \in {"paused", "flowing"} => r.stage = "open",
           NEW before \in {<<>>, <<"OKAY">>}, Pump(s, r, flow, before)
    PROVE  Effect(s) /\ stream'[s].stage \in {r.stage, "gone"}
  <1> DEFINE sends == r.window /\ r.queue > 0
             left == IF sends THEN r.queue - 1 ELSE r.queue
             last == IF sends THEN <<"WRTE">> ELSE <<>>
  <1> USE DEF SessionInv, SessionTypes
  <1>1. CASE Over(r, left)
    BY <1>1, CloseStreamEffect DEF Pump
  <1>2. CASE ~Over(r, left)
    <2>1. \A i \in 1 .. Len(toClient[s]) : toClient[s][i] # "CLSE"
      BY DEF ClosesLast
    <2>2. /\ stream' = [stream EXCEPT ![s] = [r EXCEPT !.queue = left, !.window = WindowAfter(r)]]
          /\ sock' = [sock EXCEPT ![s] = IF left > 0 THEN "paused"
                                         ELSE IF Resumes(r, left) THEN "flowing" ELSE flow]
          /\ toClient' = [toClient EXCEPT ![s] = toClient[s] \o before \o last]
          /\ link' = link
      BY <1>2 DEF Pump
    <2>3. /\ left \in Nat /\ WindowAfter(r) \in BOOLEAN
          /\ r.stage = "opening" => left = 0 /\ ~Resumes(r, left)
      BY DEF StreamRecord, WindowAfter, Resumes
    <2>4. last \in {<<>>, <<"WRTE">>, <<"OKAY">>, <<"CLSE">>} /\ last # <<"CLSE">>
      OBVIOUS
    <2> HIDE DEF left, last, sends
    <2>5. /\ [r EXCEPT !.queue = left, !.window = WindowAfter(r)] \in StreamRecord
          /\ [r EXCEPT !.queue = left, !.window = WindowAfter(r)].stage = r.stage
          /\ [r EXCEPT !.queue = left, !.window = WindowAfter(r)].queue = left
          /\ [r EXCEPT !.queue = left, !.window = WindowAfter(r)].ack = r.ack
      BY <2>3 DEF StreamRecord
    <2>6. toClient' \in [Streams -> Seq(Packets)]
          /\ \A i \in 1 .. Len(toClient'[s]) : toClient'[s][i] # "CLSE"
      BY <2>1, <2>2, <2>4, SentPackets
    <2>7. link' # "closed"
      BY <2>2 DEF SocketsHaveStreams
    <2> QED BY <2>2, <2>3, <2>5, <2>6, <2>7 DEF Effect
  <1> QED BY <1>1, <1>2

\* refuse of an OPEN that has no socket.
LEMMA RefuseEffect ==
    ASSUME SessionInv, NEW s \in Streams, stream[s].stage \in {"none", "opening"}, Refuse(s)
    PROVE  Effect(s)
  <1> USE DEF SessionInv, SessionTypes
  <1>1. \A i \in 1 .. Len(toClient[s]) : toClient[s][i] # "CLSE"
    BY DEF ClosesLast
  <1>2. toClient' = [toClient EXCEPT ![s] = toClient[s] \o <<>> \o <<"CLSE">>]
    BY AppendedPacket DEF Refuse
  <1>3. toClient' \in [Streams -> Seq(Packets)]
        /\ \A i \in 1 .. Len(toClient'[s]) :
              toClient'[s][i] = "CLSE" => i = Len(toClient'[s])
    BY <1>1, <1>2, SentPackets
  <1>4. sock'[s] \notin {"paused", "flowing"}
    BY DEF Refuse, SocketsHaveStreams
  <1> QED
    BY <1>2, <1>3, <1>4, FreshRecord DEF Refuse, Effect

\* close of the session.
LEMMA CloseSessionKeeps ==
    ASSUME SessionInv, CloseSession, client' = client,
           dialing' \in [Streams -> BOOLEAN], \A s \in Streams : dialing'[s] => dialing[s]
    PROVE  SessionInv'
  <1> USE DEF SessionInv, SessionTypes
  <1>1. /\ stream' \in [Streams -> StreamRecord]
        /\ \A s \in Streams :
              IF stream[s].stage \in {"opening", "open"}
              THEN stream'[s].stage = "gone" /\ ~stream'[s].ack
              ELSE stream'[s] = stream[s]
    BY FreshRecord DEF CloseSession, Listed
  <1>2. /\ toProxy' = [s \in Streams |-> <<>>] /\ toClient' = toClient /\ link' = "closed"
        /\ sock' \in [Streams -> {"none", "paused", "flowing", "destroyed"}]
        /\ \A s \in Streams : sock'[s] \notin {"paused", "flowing"}
    BY DEF CloseSession, Listed, SocketsHaveStreams
  <1>3. SessionTypes' BY <1>1, <1>2
  <1>4. OpensOnce'
    <2>1. \A s \in Streams : /\ stream'[s].stage = "none" <=> stream[s].stage = "none"
                             /\ stream'[s].stage \notin {"opening", "open"}
                             /\ stream'[s].ack => stream[s].ack /\ stream'[s].stage = stream[s].stage
                             /\ Len(toProxy'[s]) = 0
      BY <1>1, <1>2
    <2> QED BY <1>2, <2>1 DEF OpensOnce
  <1>5. SocketsHaveStreams' BY <1>1, <1>2 DEF SocketsHaveStreams
  <1>6. ClosesLast' BY <1>1, <1>2 DEF ClosesLast
  <1> QED BY <1>3, <1>4, <1>5, <1>6

-----------------------------------------------------------------------------
(* The handlers.                                                           *)

\* A packet that is OPEN is of a stream that nobody has heard of.
LEMMA OpenIsFirst ==
    ASSUME SessionInv, NEW s \in Streams, Packet(s, "OPEN")
    PROVE  stream[s].stage = "none" /\ ~dialing[s]
  <1>1. toProxy[s] \in Seq(Packets) /\ toProxy[s] # <<>> /\ toProxy[s][1] = "OPEN"
    BY DEF Packet, SessionInv, SessionTypes
  <1>2. 1 \in 1 .. Len(toProxy[s])
    BY <1>1
  <1> QED BY <1>1, <1>2 DEF SessionInv, OpensOnce

\* A packet of the client.
LEMMA PacketKeeps ==
    ASSUME SessionInv, NEW s \in Streams, PacketArrives(s)
    PROVE  SessionInv'
  <1> USE DEF SessionInv, SessionTypes
  <1>1. CASE OnOpen(s)
    <2>1. stream[s].stage = "none" /\ Reads(s) /\ link = "up" /\ ~dialing[s]
      BY <1>1, OpenIsFirst DEF OnOpen, Reads, Packet, peerVars
    <2>2. CASE Refuse(s) /\ UNCHANGED dialing
      BY <2>1, <2>2, RefuseEffect, EffectKeeps
    <2>3. CASE ~(Refuse(s) /\ UNCHANGED dialing)
      <3>1. /\ stream' = [stream EXCEPT ![s] = Fresh("opening")]
            /\ dialing' = [dialing EXCEPT ![s] = TRUE]
            /\ UNCHANGED <<link, sock, toClient, aborted>>
        BY <1>1, <2>3 DEF OnOpen
      <3>2. Effect(s) /\ stream'[s].stage = "opening"
        BY <2>1, <3>1, FreshRecord DEF Effect, SocketsHaveStreams, ClosesLast
      <3> QED BY <2>1, <3>1, <3>2, EffectKeeps
    <2> QED BY <2>2, <2>3
  <1>2. CASE OnWrite(s)
    <2>1. stream[s].stage = "open" /\ Reads(s) /\ dialing' = dialing /\ ~dialing[s]
      BY <1>2 DEF OnWrite, Reads, Packet, peerVars, OpensOnce
    <2>2. CASE CloseStream(s, <<>>, "protocol")
      BY <2>1, <2>2, CloseStreamEffect, EffectKeeps
    <2>3. CASE ~CloseStream(s, <<>>, "protocol")
      <3>1. /\ stream' = [stream EXCEPT ![s] = [stream[s] EXCEPT !.ack = TRUE]]
            /\ UNCHANGED <<link, sock, toClient, aborted>>
        BY <1>2, <2>3 DEF OnWrite
      <3>2. /\ [stream[s] EXCEPT !.ack = TRUE] \in StreamRecord
            /\ [stream[s] EXCEPT !.ack = TRUE].stage = "open"
        BY <2>1 DEF StreamRecord
      <3>3. Effect(s)
        BY <2>1, <3>1, <3>2 DEF Effect, SocketsHaveStreams, ClosesLast
      <3> QED BY <2>1, <3>3, EffectKeeps
    <2> QED BY <2>2, <2>3
  <1>3. CASE OnOkay(s)
    <2>1. /\ stream[s].stage \in {"opening", "open"} /\ Reads(s) /\ dialing' = dialing
          /\ Pump(s, [stream[s] EXCEPT !.window = TRUE], sock[s], <<>>)
      BY <1>3 DEF OnOkay, Reads, Packet, peerVars, Listed
    <2> DEFINE r == [stream[s] EXCEPT !.window = TRUE]
    <2>2. /\ r \in StreamRecord /\ r.stage = stream[s].stage
          /\ r.queue = stream[s].queue /\ r.ack = stream[s].ack
      BY DEF StreamRecord
    <2>3. r.stage = "opening" => r.queue = 0 /\ ~r.ack
      BY <2>2 DEF OpensOnce
    <2>4. sock[s] \in {"paused", "flowing"} => r.stage = "open"
      BY <2>2 DEF SocketsHaveStreams
    <2>5. Pump(s, r, sock[s], <<>>)
      BY <2>1
    <2> HIDE DEF r
    <2>6. Effect(s) /\ stream'[s].stage \in {r.stage, "gone"}
      BY <2>1, <2>2, <2>3, <2>4, <2>5, PumpEffect
    <2>7. dialing'[s] => stream'[s].stage # "open"
      BY <2>1, <2>2, <2>6 DEF OpensOnce
    <2> QED BY <2>1, <2>6, <2>7, EffectKeeps
  <1>4. CASE OnPeerClose(s)
    <2>1. /\ stream[s].stage \in {"opening", "open"} /\ Reads(s) /\ dialing' = dialing
          /\ CloseStream(s, <<>>, "peer")
      BY <1>4 DEF OnPeerClose, Reads, Packet, peerVars, Listed
    <2> QED BY <2>1, CloseStreamEffect, EffectKeeps
  <1>5. CASE Dropped(s)
    <2>1. /\ toProxy[s] # <<>> /\ Consumed(s)
          /\ UNCHANGED <<link, stream, dialing, sock, toClient, client>>
      BY <1>5 DEF Dropped, recordVars, peerVars
    <2>2. SessionTypes' /\ SocketsHaveStreams' /\ ClosesLast'
      BY <2>1, RestOfPackets DEF SocketsHaveStreams, ClosesLast
    <2>3. OpensOnce'
      BY <2>1, RestOfPackets DEF OpensOnce
    <2> QED BY <2>2, <2>3
  <1> QED BY <1>1, <1>2, <1>3, <1>4, <1>5 DEF PacketArrives

\* The device's socket, or its refusal, for a stream that may be gone.
LEMMA DialKeeps ==
    ASSUME SessionInv, NEW s \in Streams, DialSettles(s)
    PROVE  SessionInv'
  <1> USE DEF SessionInv, SessionTypes
  <1>1. dialing[s] /\ stream[s].stage # "none" /\ client' = client
        /\ dialing' = [dialing EXCEPT ![s] = FALSE]
    BY DEF DialSettles, OpenResolves, OpenRejects, DeviceUnavailable, OpensOnce, peerVars
  <1>2. CASE OpenResolves(s)
    <2>1. Reads(s) BY <1>1, <1>2 DEF OpenResolves, Reads
    <2>2. CASE link = "closed" \/ s \notin Listed
      <3>1. LateSocket(s) /\ UNCHANGED <<link, stream, toClient>>
        BY <1>2, <2>2 DEF OpenResolves
      <3>2. Effect(s)
        BY <1>1, <2>2, <3>1
        DEF LateSocket, Effect, Listed, OpensOnce, ClosesLast, SocketsHaveStreams
      <3> QED BY <1>1, <2>1, <3>2, EffectKeeps
    <2>3. CASE ~(link = "closed" \/ s \notin Listed)
      <3>1. PICK n \in 0 .. 1, end \in {"running", "ended"} :
               Pump(s, [Fresh("open") EXCEPT !.window = TRUE, !.ended = n = 0 /\ end = "ended"],
                    "flowing", <<"OKAY">>)
        BY <1>2, <2>3 DEF OpenResolves
      <3> DEFINE r == [Fresh("open") EXCEPT !.window = TRUE, !.ended = n = 0 /\ end = "ended"]
      <3>2. r \in StreamRecord /\ r.stage = "open"
        BY DEF Fresh, StreamRecord
      <3>3. stream[s].stage \in {"opening", "open"}
        BY <2>3 DEF Listed
      <3>4. Pump(s, r, "flowing", <<"OKAY">>)
        BY <3>1
      <3> HIDE DEF r
      <3>5. Effect(s)
        BY <3>2, <3>3, <3>4, PumpEffect
      <3> QED BY <1>1, <2>1, <3>5, EffectKeeps
    <2> QED BY <2>2, <2>3
  <1>3. CASE OpenRejects(s)
    <2>1. Reads(s) BY <1>1, <1>3 DEF OpenRejects, Reads
    <2>2. CASE s \in Listed /\ stream[s].stage = "opening"
      <3>1. Refuse(s) BY <1>3, <2>2 DEF OpenRejects
      <3> QED BY <1>1, <2>1, <2>2, <3>1, RefuseEffect, EffectKeeps
    <2>3. CASE s \notin Listed
      <3>1. UNCHANGED <<link, stream, sock, toClient>>
        BY <1>3, <2>3 DEF OpenRejects
      <3>2. Effect(s)
        BY <1>1, <2>3, <3>1 DEF Effect, Listed, OpensOnce, ClosesLast, SocketsHaveStreams
      <3> QED BY <1>1, <2>1, <3>2, EffectKeeps
    <2>4. CASE stream[s].stage = "open"
      BY <1>1, <2>4 DEF OpensOnce
    <2> QED BY <2>2, <2>3, <2>4 DEF Listed
  <1>4. CASE DeviceUnavailable(s)
    BY <1>1, <1>4, CloseSessionKeeps DEF DeviceUnavailable
  <1> QED BY <1>2, <1>3, <1>4 DEF DialSettles

\* Data, the end and an error of the device's socket, and the end of a write.
LEMMA BackendKeeps ==
    ASSUME SessionInv, NEW s \in Streams, BackendEvent(s) \/ WriteDone(s)
    PROVE  SessionInv'
  <1> USE DEF SessionInv, SessionTypes
  <1>1. stream[s].stage = "open" /\ Reads(s) /\ dialing' = dialing /\ ~dialing[s]
    BY DEF BackendEvent, BackendData, BackendEnds, BackendError, WriteDone, Reads, peerVars,
           OpensOnce
  <1>2. CASE BackendData(s)
    <2>1. PICK n \in 1 .. unread[s] :
             Pump(s, [stream[s] EXCEPT !.queue = @ + n], "paused", <<>>)
      BY <1>2 DEF BackendData
    <2> DEFINE r == [stream[s] EXCEPT !.queue = @ + n]
    <2>0. stream[s].queue + n \in Nat
      BY DEF StreamRecord
    <2>2. r \in StreamRecord /\ r.stage = "open"
      BY <1>1, <2>0 DEF StreamRecord
    <2>3. Pump(s, r, "paused", <<>>) BY <2>1
    <2> HIDE DEF r
    <2>4. Effect(s) BY <1>1, <2>2, <2>3, PumpEffect
    <2> QED BY <1>1, <2>4, EffectKeeps
  <1>3. CASE BackendEnds(s)
    <2> DEFINE r == [stream[s] EXCEPT !.ended = TRUE]
    <2>1. Pump(s, r, sock[s], <<>>) BY <1>3 DEF BackendEnds
    <2>2. r \in StreamRecord /\ r.stage = "open"
      BY <1>1 DEF StreamRecord
    <2> HIDE DEF r
    <2>3. Effect(s) BY <1>1, <2>1, <2>2, PumpEffect
    <2> QED BY <1>1, <2>3, EffectKeeps
  <1>4. CASE BackendError(s)
    <2>1. CloseStream(s, <<>>, "error") BY <1>4 DEF BackendError
    <2> QED BY <1>1, <2>1, CloseStreamEffect, EffectKeeps
  <1>5. CASE WriteDone(s)
    <2>1. CASE CloseStream(s, <<>>, "error")
      BY <1>1, <2>1, CloseStreamEffect, EffectKeeps
    <2>2. CASE ~CloseStream(s, <<>>, "error")
      <3>1. /\ stream' = [stream EXCEPT ![s] = [stream[s] EXCEPT !.ack = FALSE]]
            /\ toClient' = [toClient EXCEPT ![s] = toClient[s] \o <<>> \o <<"OKAY">>]
            /\ UNCHANGED <<link, sock>>
        BY <1>5, <2>2, AppendedPacket DEF WriteDone
      <3>2. [stream[s] EXCEPT !.ack = FALSE] \in StreamRecord
            /\ [stream[s] EXCEPT !.ack = FALSE].stage = "open"
        BY <1>1 DEF StreamRecord
      <3>3. \A i \in 1 .. Len(toClient[s]) : toClient[s][i] # "CLSE"
        BY <1>1 DEF ClosesLast
      <3>4. toClient' \in [Streams -> Seq(Packets)]
            /\ \A i \in 1 .. Len(toClient'[s]) : toClient'[s][i] # "CLSE"
        BY <3>1, <3>3, SentPackets
      <3>5. link' # "closed"
        BY <1>1, <3>1 DEF SocketsHaveStreams
      <3>6. Effect(s)
        BY <3>1, <3>2, <3>4, <3>5 DEF Effect
      <3> QED BY <1>1, <3>6, EffectKeeps
    <2> QED BY <2>1, <2>2
  <1> QED BY <1>2, <1>3, <1>4, <1>5 DEF BackendEvent

-----------------------------------------------------------------------------
(* The device and the client.                                              *)

LEMMA PeerKeeps ==
    ASSUME SessionInv, NEW s \in Streams,
           \/ DeviceWrites(s) \/ DeviceHangsUp(s)
           \/ ClientOpens(s) \/ ClientWrites(s) \/ ClientAcks(s)
           \/ ClientCloses(s) \/ ClientReceives(s) \/ ClientLosesLink(s)
    PROVE  SessionInv'
  <1> USE DEF SessionInv, SessionTypes, recordVars, peerVars
  <1>1. CASE DeviceWrites(s) \/ DeviceHangsUp(s)
    BY <1>1 DEF DeviceWrites, DeviceHangsUp, OpensOnce, SocketsHaveStreams, ClosesLast
  <1>2. CASE ClientOpens(s) \/ ClientWrites(s) \/ ClientAcks(s) \/ ClientCloses(s)
    <2>1. PICK p \in Packets :
             /\ ClientSends(s, p)
             /\ p = "OPEN" => client[s] = "new"
             /\ client' \in [Streams -> {"new", "opening", "open", "closed", "lost"}]
             /\ client'[s] # "new" /\ \A t \in Streams \ {s} : client'[t] = client[t]
      <3>1. CASE ClientOpens(s)
        BY <3>1 DEF ClientOpens, Packets
      <3>2. CASE ClientWrites(s)
        BY <3>2 DEF ClientWrites, Packets
      <3>3. CASE ClientAcks(s)
        BY <3>3 DEF ClientAcks, Packets
      <3>4. CASE ClientCloses(s)
        BY <3>4 DEF ClientCloses, Packets
      <3> QED BY <1>2, <3>1, <3>2, <3>3, <3>4
    <2>2. /\ toProxy' = [toProxy EXCEPT ![s] = Append(toProxy[s], p)]
          /\ UNCHANGED <<link, stream, dialing, sock, toClient>>
      BY <2>1 DEF ClientSends
    <2>3. toProxy' \in [Streams -> Seq(Packets)]
          /\ \A t \in Streams \ {s} : toProxy'[t] = toProxy[t]
      BY <2>2
    <2>4. \A i \in 1 .. Len(toProxy'[s]) :
             toProxy'[s][i] = "OPEN" => i = 1 /\ stream[s].stage = "none"
      <3> SUFFICES ASSUME NEW i \in 1 .. Len(toProxy'[s]), toProxy'[s][i] = "OPEN"
                   PROVE  i = 1 /\ stream[s].stage = "none"
        OBVIOUS
      <3>1. toProxy[s] \in Seq(Packets) /\ toProxy'[s] = Append(toProxy[s], p)
        BY <2>2
      <3>2. CASE i \in 1 .. Len(toProxy[s])
        <4>1. toProxy[s][i] = "OPEN" BY <3>1, <3>2
        <4> QED BY <3>2, <4>1 DEF OpensOnce
      <3>3. CASE i = Len(toProxy[s]) + 1
        <4>1. p = "OPEN" BY <3>1, <3>3
        <4>2. toProxy[s] = <<>> /\ stream[s].stage = "none"
          BY <2>1, <4>1 DEF OpensOnce
        <4> QED BY <3>3, <4>2
      <3> QED BY <3>1, <3>2, <3>3
    <2>5. SessionTypes' /\ SocketsHaveStreams' /\ ClosesLast'
      BY <2>1, <2>2, <2>3 DEF SocketsHaveStreams, ClosesLast
    <2>6. OpensOnce'
      BY <2>1, <2>2, <2>3, <2>4 DEF OpensOnce
    <2> QED BY <2>5, <2>6
  <1>3. CASE ClientReceives(s)
    <2>1. /\ toClient[s] # <<>> /\ toClient' = [toClient EXCEPT ![s] = Tail(toClient[s])]
          /\ client' \in [Streams -> {"new", "opening", "open", "closed", "lost"}]
          /\ \A t \in Streams : client'[t] = "new" => client[t] = "new"
          /\ UNCHANGED <<link, stream, dialing, sock, toProxy>>
      <3>1. client[s] # "new" /\ \A t \in Streams \ {s} : client'[t] = client[t]
        BY <1>3 DEF ClientReceives
      <3>2. client'[s] = "new" => client[s] = "new"
        BY <1>3 DEF ClientReceives
      <3>3. client' \in [Streams -> {"new", "opening", "open", "closed", "lost"}]
        BY <1>3 DEF ClientReceives
      <3> QED BY <1>3, <3>1, <3>2, <3>3 DEF ClientReceives
    <2>2. toClient[s] \in Seq(Packets) /\ Tail(toClient[s]) \in Seq(Packets)
          /\ toClient'[s] = Tail(toClient[s])
          /\ \A t \in Streams \ {s} : toClient'[t] = toClient[t]
      BY <2>1
    <2>3. Len(toClient'[s]) = Len(toClient[s]) - 1
          /\ \A i \in 1 .. Len(toClient'[s]) :
                i + 1 \in 1 .. Len(toClient[s]) /\ toClient'[s][i] = toClient[s][i + 1]
      BY <2>1, <2>2
    <2>4. SessionTypes' /\ SocketsHaveStreams' /\ OpensOnce'
      BY <2>1, <2>2 DEF SocketsHaveStreams, OpensOnce
    <2>5. ClosesLast'
      <3> SUFFICES ASSUME NEW t \in Streams, NEW i \in 1 .. Len(toClient'[t]),
                          toClient'[t][i] = "CLSE"
                   PROVE  i = Len(toClient'[t]) /\ stream[t].stage = "gone"
        BY <2>1 DEF ClosesLast
      <3>1. CASE t = s
        <4>1. i + 1 \in 1 .. Len(toClient[s]) /\ toClient[s][i + 1] = "CLSE"
          BY <2>3, <3>1
        <4>2. i + 1 = Len(toClient[s]) /\ stream[s].stage = "gone"
          BY <4>1 DEF ClosesLast
        <4> QED BY <2>2, <2>3, <3>1, <4>2
      <3>2. CASE t # s
        BY <2>2, <3>2 DEF ClosesLast
      <3> QED BY <3>1, <3>2
    <2> QED BY <2>4, <2>5
  <1>4. CASE ClientLosesLink(s)
    BY <1>4 DEF ClientLosesLink, OpensOnce, SocketsHaveStreams, ClosesLast
  <1> QED BY <1>1, <1>2, <1>3, <1>4

-----------------------------------------------------------------------------
\* The invariant holds in every reachable state of a session.
THEOREM SessionInvHolds == AdbSpec => []SessionInv
  <1>1. AdbInit => SessionInv
    <2> SUFFICES ASSUME AdbInit PROVE SessionInv
      OBVIOUS
    <2>1. <<>> \in Seq(Packets) OBVIOUS
    <2>2. \A s \in Streams :
             /\ stream[s].stage = "none" /\ ~stream[s].ack /\ ~dialing[s] /\ sock[s] = "none"
             /\ toProxy[s] = <<>> /\ Len(toProxy[s]) = 0 /\ Len(toClient[s]) = 0
      BY FreshRecord DEF AdbInit
    <2>3. SessionTypes
      BY <2>1, FreshRecord DEF AdbInit, SessionTypes
    <2>4. OpensOnce /\ SocketsHaveStreams /\ ClosesLast
      BY <2>2 DEF OpensOnce, SocketsHaveStreams, ClosesLast
    <2> QED BY <2>3, <2>4 DEF SessionInv
  <1>2. SessionInv /\ [AdbNext]_adbVars => SessionInv'
    <2> SUFFICES ASSUME SessionInv, [AdbNext]_adbVars PROVE SessionInv'
      OBVIOUS
    <2>1. CASE UNCHANGED adbVars
      BY <2>1
      DEF adbVars, recordVars, peerVars, SessionInv, SessionTypes, OpensOnce, SocketsHaveStreams,
          ClosesLast
    <2>2. CASE RestartCloses \/ SessionCloses
      BY <2>2, CloseSessionKeeps
      DEF RestartCloses, SessionCloses, peerVars, SessionInv, SessionTypes
    <2> QED
      BY <2>1, <2>2, PacketKeeps, DialKeeps, BackendKeeps, PeerKeeps DEF AdbNext
  <1> QED BY <1>1, <1>2, PTL DEF AdbSpec

\* No socket of the device outlives its stream, or the session.
THEOREM SessionLeaksNoSocket == AdbSpec => []NoSocketLeak
  <1>1. SessionInv => NoSocketLeak
    BY DEF SessionInv, SocketsHaveStreams, NoSocketLeak, Listed
  <1> QED BY <1>1, SessionInvHolds, PTL

\* Nothing follows the CLSE of a stream.
THEOREM SessionClosesLast == AdbSpec => []NothingAfterClose
  <1>1. SessionInv => NothingAfterClose
    BY DEF SessionInv, ClosesLast, NothingAfterClose
  <1> QED BY <1>1, SessionInvHolds, PTL

-----------------------------------------------------------------------------
(* How many packets of a kind are on their way.                            *)

Places(q, p) == {i \in DOMAIN q : q[i] = p}
Count(q, p) == Cardinality(Places(q, p))

LEMMA CountIsNatural ==
    ASSUME NEW q \in Seq(Packets), NEW p
    PROVE  IsFiniteSet(Places(q, p)) /\ Count(q, p) \in Nat
  <1>1. Len(q) \in Nat /\ DOMAIN q = 1 .. Len(q) OBVIOUS
  <1>2. IsFiniteSet(DOMAIN q) BY <1>1, FS_Interval
  <1>3. Places(q, p) \in SUBSET DOMAIN q BY DEF Places
  <1>4. IsFiniteSet(Places(q, p)) BY <1>2, <1>3, FS_Subset
  <1> QED BY <1>4, FS_CardinalityType DEF Count

LEMMA CountOfNone == ASSUME NEW p PROVE Count(<<>>, p) = 0
  <1>1. Places(<<>>, p) = {} BY DEF Places
  <1> QED BY <1>1, FS_EmptySet DEF Count

LEMMA CountOfOneMore ==
    ASSUME NEW q \in Seq(Packets), NEW x \in Packets, NEW p
    PROVE  Count(Append(q, x), p) = Count(q, p) + (IF x = p THEN 1 ELSE 0)
  <1> DEFINE l == Len(q) + 1
  <1>1. /\ Len(q) \in Nat /\ DOMAIN q = 1 .. Len(q) /\ DOMAIN Append(q, x) = 1 .. l
        /\ Append(q, x)[l] = x /\ \A i \in 1 .. Len(q) : Append(q, x)[i] = q[i]
    OBVIOUS
  <1>2. Places(Append(q, x), p) = IF x = p THEN Places(q, p) \cup {l} ELSE Places(q, p)
    BY <1>1 DEF Places
  <1>3. l \notin Places(q, p) BY <1>1 DEF Places
  <1>4. Count(q, p) \in Nat /\ IsFiniteSet(Places(q, p)) BY CountIsNatural
  <1>5. Cardinality(Places(q, p) \cup {l}) = Cardinality(Places(q, p)) + 1
    BY <1>3, <1>4, FS_AddElement
  <1> QED BY <1>2, <1>4, <1>5 DEF Count

LEMMA CountOfRest ==
    ASSUME NEW q \in Seq(Packets), q # <<>>, NEW p
    PROVE  Count(q, p) = Count(Tail(q), p) + (IF Head(q) = p THEN 1 ELSE 0)
  <1>1. /\ Len(q) \in Nat /\ Len(q) > 0 /\ DOMAIN q = 1 .. Len(q) /\ Head(q) = q[1]
        /\ Tail(q) \in Seq(Packets) /\ DOMAIN Tail(q) = 1 .. Len(q) - 1
        /\ \A i \in 1 .. Len(q) - 1 : Tail(q)[i] = q[i + 1]
    OBVIOUS
  <1> DEFINE R == Places(q, p) \ {1}
             T == Places(Tail(q), p)
             f == [i \in T |-> i + 1]
  <1>2. \A i \in T : i \in Nat /\ i + 1 \in R
    BY <1>1 DEF Places
  <1>3. \A j \in R : j - 1 \in T /\ (j - 1) + 1 = j
    BY <1>1 DEF Places
  <1>4. f \in Bijection(T, R)
    <2>1. f \in [T -> R] BY <1>2
    <2>2. \A i, j \in T : f[i] = f[j] => i = j BY <1>2
    <2>3. \A j \in R : \E i \in T : f[i] = j BY <1>3
    <2> QED BY <2>1, <2>2, <2>3 DEF Bijection, Injection, Surjection, IsInjective
  <1>5. IsFiniteSet(T) /\ IsFiniteSet(Places(q, p)) /\ Count(Tail(q), p) \in Nat
    BY <1>1, CountIsNatural
  <1>6. Cardinality(R) = Cardinality(T) /\ IsFiniteSet(R)
    BY <1>4, <1>5, FS_Bijection DEF ExistsBijection
  <1>7. Places(q, p) = IF Head(q) = p THEN R \cup {1} ELSE R
    BY <1>1 DEF Places
  <1>8. Cardinality(R \cup {1}) = Cardinality(R) + 1
    BY <1>6, FS_AddElement
  <1> HIDE DEF R, T, f
  <1>9. CASE Head(q) = p
    BY <1>5, <1>6, <1>7, <1>8, <1>9 DEF Count, T
  <1>10. CASE Head(q) # p
    BY <1>5, <1>6, <1>7, <1>10 DEF Count, T
  <1> QED BY <1>9, <1>10

\* What a handler sends: perhaps the OKAY of the OPEN, and then perhaps a packet.
LEMMA CountOfSent ==
    ASSUME NEW q \in Seq(Packets), NEW before \in {<<>>, <<"OKAY">>},
           NEW last \in {<<>>, <<"WRTE">>, <<"OKAY">>, <<"CLSE">>}
    PROVE  Count(q \o before \o last, "WRTE")
              = Count(q, "WRTE") + (IF last = <<"WRTE">> THEN 1 ELSE 0)
  <1>0. "OKAY" \in Packets /\ "WRTE" \in Packets /\ "CLSE" \in Packets BY DEF Packets
  <1> DEFINE r == q \o before
  <1>1. Count(q, "WRTE") \in Nat BY CountIsNatural
  <1>2. r \in Seq(Packets) /\ Count(r, "WRTE") = Count(q, "WRTE")
    <2>1. CASE before = <<>>
      <3>1. r = q BY <2>1
      <3> QED BY <3>1
    <2>2. CASE before = <<"OKAY">>
      <3>1. r = Append(q, "OKAY") BY <2>2
      <3> QED BY <1>0, <1>1, <3>1, CountOfOneMore
    <2> QED BY <2>1, <2>2
  <1> HIDE DEF r
  <1>3. Count(r \o last, "WRTE") = Count(r, "WRTE") + (IF last = <<"WRTE">> THEN 1 ELSE 0)
    <2>1. CASE last = <<>>
      <3>1. r \o last = r BY <1>2, <2>1
      <3> QED BY <1>1, <1>2, <2>1, <3>1
    <2>2. ASSUME NEW x \in Packets, last = <<x>>
          PROVE  Count(r \o last, "WRTE") = Count(r, "WRTE") + (IF last = <<"WRTE">> THEN 1 ELSE 0)
      <3>1. r \o last = Append(r, x) BY <1>2, <2>2
      <3>2. (last = <<"WRTE">>) = (x = "WRTE") BY <2>2
      <3> QED BY <1>2, <3>1, <3>2, CountOfOneMore
    <2> QED BY <1>0, <2>1, <2>2
  <1> QED BY <1>2, <1>3 DEF r

-----------------------------------------------------------------------------
(* The flow of one stream: its pieces are all somewhere, and at most one   *)
(* permission to send is about: a WRTE on its way, the client that owes    *)
(* the OKAY for it, that OKAY, or the open window.                         *)

One(b) == IF b THEN 1 ELSE 0

Sent(s) == Count(toClient[s], "WRTE")

Tokens(s) == Sent(s) + Count(toProxy[s], "OKAY") + One(owes[s]) + One(stream[s].window)

\* Nothing of the device has come yet.
Untouched(s) ==
    /\ written[s] = 0 /\ unread[s] = 0 /\ got[s] = 0
    /\ Tokens(s) = 0 /\ ~stream[s].ended

FlowOf(s) ==
    /\ Tokens(s) <= 1
    /\ stream[s].stage \in {"none", "opening"} \/ dialing[s] => Untouched(s)
    /\ stream[s].stage = "open" =>
          /\ written[s] = unread[s] + stream[s].queue + Sent(s) + got[s]
          /\ stream[s].ended => unread[s] = 0 /\ deviceEnd[s] # "running"
    /\ stream[s].stage = "gone" =>
          /\ got[s] + Sent(s) <= written[s]
          /\ ~aborted[s] => written[s] = got[s] + Sent(s) /\ ~dialing[s]
    /\ client[s] = "closed" => stream[s].stage = "gone"

FlowTypes ==
    /\ written \in [Streams -> Nat] /\ unread \in [Streams -> Nat]
    /\ deviceEnd \in [Streams -> {"running", "ended", "failed"}]
    /\ owes \in [Streams -> BOOLEAN] /\ got \in [Streams -> Nat]
    /\ aborted \in [Streams -> BOOLEAN]

FlowInv == FlowTypes /\ \A s \in Streams : FlowOf(s)

\* Only stream s moves.
Alone(s) ==
    \A t \in Streams \ {s} :
        /\ stream'[t] = stream[t] /\ dialing'[t] = dialing[t] /\ written'[t] = written[t]
        /\ unread'[t] = unread[t] /\ deviceEnd'[t] = deviceEnd[t]
        /\ toClient'[t] = toClient[t] /\ toProxy'[t] = toProxy[t] /\ client'[t] = client[t]
        /\ owes'[t] = owes[t] /\ got'[t] = got[t] /\ aborted'[t] = aborted[t]

LEMMA AloneKeeps ==
    ASSUME FlowInv, FlowTypes', NEW s \in Streams, Alone(s), FlowOf(s)'
    PROVE  FlowInv'
  <1> SUFFICES ASSUME NEW t \in Streams PROVE FlowOf(t)'
    BY DEF FlowInv
  <1>1. CASE t = s
    BY <1>1
  <1>2. CASE t # s
    <2>1. FlowOf(t) BY DEF FlowInv
    <2> QED BY <1>2, <2>1 DEF Alone, FlowOf, Untouched, Tokens, Sent
  <1> QED BY <1>1, <1>2

\* What is counted of one stream are numbers.
Numbers(s) ==
    /\ written[s] \in Nat /\ unread[s] \in Nat /\ got[s] \in Nat
    /\ Count(toClient[s], "WRTE") \in Nat /\ Count(toProxy[s], "OKAY") \in Nat
    /\ stream[s] \in StreamRecord /\ stream[s].queue \in Nat
    /\ owes[s] \in BOOLEAN /\ aborted[s] \in BOOLEAN /\ stream[s].window \in BOOLEAN
    /\ One(owes[s]) \in Nat /\ One(stream[s].window) \in Nat

LEMMA FlowNumbers ==
    ASSUME SessionInv, FlowInv, NEW s \in Streams
    PROVE  Numbers(s) /\ FlowOf(s)
  BY CountIsNatural
  DEF SessionInv, SessionTypes, FlowInv, FlowTypes, StreamRecord, Numbers, One

LEMMA NoTokens ==
    ASSUME NEW s \in Streams, Numbers(s), Tokens(s) = 0
    PROVE  /\ Count(toClient[s], "WRTE") = 0 /\ Count(toProxy[s], "OKAY") = 0
           /\ One(owes[s]) = 0 /\ One(stream[s].window) = 0
  <1>1. \A a, b, c, d \in Nat : a + b + c + d = 0 => a = 0 /\ b = 0 /\ c = 0 /\ d = 0
    OBVIOUS
  <1> QED BY <1>1 DEF Numbers, Tokens, Sent

\* The packet that is read is one less.
LEMMA ReadPacket ==
    ASSUME SessionInv, NEW s \in Streams, toProxy[s] # <<>>, Consumed(s)
    PROVE  /\ Count(toProxy'[s], "OKAY") \in Nat
           /\ Count(toProxy[s], "OKAY")
                 = Count(toProxy'[s], "OKAY") + (IF Head(toProxy[s]) = "OKAY" THEN 1 ELSE 0)
           /\ \A t \in Streams \ {s} : toProxy'[t] = toProxy[t]
  <1>1. toProxy[s] \in Seq(Packets) /\ Tail(toProxy[s]) \in Seq(Packets)
        /\ toProxy'[s] = Tail(toProxy[s]) /\ \A t \in Streams \ {s} : toProxy'[t] = toProxy[t]
    BY DEF SessionInv, SessionTypes, Consumed
  <1>2. Count(Tail(toProxy[s]), "OKAY") \in Nat
    BY <1>1, CountIsNatural
  <1>3. Count(toProxy[s], "OKAY")
           = Count(Tail(toProxy[s]), "OKAY") + (IF Head(toProxy[s]) = "OKAY" THEN 1 ELSE 0)
    BY <1>1, CountOfRest
  <1> QED BY <1>1, <1>2, <1>3

-----------------------------------------------------------------------------
(* What closeStream, refuse and pump do to the flow.                       *)

\* A stream that is closed sends nothing more.
Closed(s) ==
    /\ stream'[s] = Fresh("gone")
    /\ Count(toClient'[s], "WRTE") = Count(toClient[s], "WRTE")
    /\ aborted' \in [Streams -> BOOLEAN]
    /\ \A t \in Streams \ {s} :
          stream'[t] = stream[t] /\ toClient'[t] = toClient[t] /\ aborted'[t] = aborted[t]

LEMMA CloseStreamFlow ==
    ASSUME SessionInv, FlowTypes, NEW s \in Streams, NEW before \in {<<>>, <<"OKAY">>},
           NEW why, CloseStream(s, before, why)
    PROVE  Closed(s) /\ aborted'[s] = (why # "end")
  <1>1. /\ toClient[s] \in Seq(Packets)
        /\ toClient' = [toClient EXCEPT ![s] = toClient[s] \o before \o <<"CLSE">>]
        /\ stream' = [stream EXCEPT ![s] = Fresh("gone")]
        /\ aborted' = [aborted EXCEPT ![s] = why # "end"]
    BY DEF CloseStream, SessionInv, SessionTypes
  <1>2. Count(toClient[s] \o before \o <<"CLSE">>, "WRTE") = Count(toClient[s], "WRTE")
    <2>1. <<"CLSE">> # <<"WRTE">> OBVIOUS
    <2>2. Count(toClient[s], "WRTE") \in Nat BY <1>1, CountIsNatural
    <2>3. Count(toClient[s] \o before \o <<"CLSE">>, "WRTE")
             = Count(toClient[s], "WRTE") + (IF <<"CLSE">> = <<"WRTE">> THEN 1 ELSE 0)
      BY <1>1, CountOfSent
    <2> QED BY <2>1, <2>2, <2>3
  <1> QED BY <1>1, <1>2 DEF Closed, SessionInv, SessionTypes, FlowTypes

LEMMA RefuseFlow ==
    ASSUME SessionInv, FlowTypes, NEW s \in Streams, Refuse(s)
    PROVE  Closed(s) /\ aborted'[s]
  <1>1. /\ toClient[s] \in Seq(Packets)
        /\ toClient' = [toClient EXCEPT ![s] = Append(toClient[s], "CLSE")]
        /\ stream' = [stream EXCEPT ![s] = Fresh("gone")]
        /\ aborted' = [aborted EXCEPT ![s] = TRUE]
    BY DEF Refuse, SessionInv, SessionTypes
  <1>2. Count(Append(toClient[s], "CLSE"), "WRTE") = Count(toClient[s], "WRTE")
    <2>1. "CLSE" \in Packets BY DEF Packets
    <2>2. Count(toClient[s], "WRTE") \in Nat BY <1>1, CountIsNatural
    <2> QED BY <1>1, <2>1, <2>2, CountOfOneMore
  <1> QED BY <1>1, <1>2 DEF Closed, SessionInv, SessionTypes, FlowTypes

\* What pump sends leaves the queue and uses the window.
Pumped(s, r) ==
    /\ stream'[s].stage = r.stage /\ stream'[s].ended = r.ended
    /\ stream'[s].queue \in Nat /\ stream'[s].window \in BOOLEAN
    /\ Count(toClient'[s], "WRTE") \in Nat
    /\ stream'[s].queue + Count(toClient'[s], "WRTE") = r.queue + Count(toClient[s], "WRTE")
    /\ One(stream'[s].window) + Count(toClient'[s], "WRTE")
          = One(r.window) + Count(toClient[s], "WRTE")
    /\ aborted' = aborted
    /\ \A t \in Streams \ {s} : stream'[t] = stream[t] /\ toClient'[t] = toClient[t]

LEMMA PumpFlow ==
    ASSUME SessionInv, FlowTypes, NEW s \in Streams, NEW r \in StreamRecord, NEW flow,
           NEW before \in {<<>>, <<"OKAY">>}, Pump(s, r, flow, before)
    PROVE  \/ Closed(s) /\ ~aborted'[s] /\ r.queue = 0 /\ r.ended
           \/ Pumped(s, r)
  <1> DEFINE sends == r.window /\ r.queue > 0
             left == IF sends THEN r.queue - 1 ELSE r.queue
             last == IF sends THEN <<"WRTE">> ELSE <<>>
  <1>0. r.queue \in Nat /\ r.window \in BOOLEAN /\ r.ended \in BOOLEAN
    BY DEF StreamRecord
  <1>1. CASE Over(r, left)
    <2>1. CloseStream(s, before, "end") BY <1>1 DEF Pump
    <2>2. r.queue = 0 /\ r.ended BY <1>1 DEF Over, WindowAfter
    <2> QED BY <2>1, <2>2, CloseStreamFlow
  <1>2. CASE ~Over(r, left)
    <2> DEFINE after == [r EXCEPT !.queue = left, !.window = WindowAfter(r)]
    <2>1. /\ stream' = [stream EXCEPT ![s] = after]
          /\ toClient' = [toClient EXCEPT ![s] = toClient[s] \o before \o last]
          /\ aborted' = aborted
      BY <1>2 DEF Pump
    <2>2. after.stage = r.stage /\ after.ended = r.ended /\ after.queue = left
          /\ after.window = WindowAfter(r)
      BY DEF StreamRecord
    <2>3. /\ left \in Nat /\ WindowAfter(r) \in BOOLEAN
          /\ left + One(sends) = r.queue /\ One(WindowAfter(r)) + One(sends) = One(r.window)
      BY <1>0 DEF WindowAfter, One
    <2>4. last \in {<<>>, <<"WRTE">>, <<"OKAY">>, <<"CLSE">>} /\ (last = <<"WRTE">>) = sends
      BY <1>0
    <2> HIDE DEF sends, left, last, after
    <2>5. /\ toClient[s] \in Seq(Packets) /\ Count(toClient[s], "WRTE") \in Nat
          /\ toClient'[s] = toClient[s] \o before \o last /\ stream'[s] = after
          /\ \A t \in Streams \ {s} : stream'[t] = stream[t] /\ toClient'[t] = toClient[t]
      BY <2>1, CountIsNatural DEF SessionInv, SessionTypes
    <2>6. Count(toClient'[s], "WRTE") = Count(toClient[s], "WRTE") + One(sends)
      BY <2>4, <2>5, CountOfSent DEF One
    <2>7. One(sends) \in Nat /\ One(r.window) \in Nat BY DEF One
    <2>8. Count(toClient'[s], "WRTE") \in Nat BY <2>5, <2>6, <2>7
    <2>9. /\ left + Count(toClient'[s], "WRTE") = r.queue + Count(toClient[s], "WRTE")
          /\ One(WindowAfter(r)) + Count(toClient'[s], "WRTE")
                = One(r.window) + Count(toClient[s], "WRTE")
      <3>1. One(WindowAfter(r)) \in Nat BY DEF One
      <3> QED BY <1>0, <2>3, <2>5, <2>6, <2>7, <3>1
    <2> QED BY <2>1, <2>2, <2>3, <2>5, <2>8, <2>9 DEF Pumped
  <1> QED BY <1>1, <1>2

\* A stream that is closed, by the end of its data only when all was sent.
LEMMA ClosedKeeps ==
    ASSUME SessionInv, FlowInv, FlowTypes', NEW s \in Streams, Alone(s), Closed(s),
           client'[s] = client[s], owes'[s] = owes[s], got'[s] = got[s],
           Count(toProxy'[s], "OKAY") \in Nat,
           Count(toProxy'[s], "OKAY") <= Count(toProxy[s], "OKAY"),
           dialing'[s] => /\ dialing[s] /\ aborted'[s]
                          /\ written'[s] = written[s] /\ unread'[s] = unread[s],
           got[s] + Sent(s) <= written'[s],
           aborted'[s] \/ written'[s] = got[s] + Sent(s)
    PROVE  FlowInv'
  <1>0. Numbers(s) /\ FlowOf(s) BY FlowNumbers
  <1>1. /\ stream'[s].stage = "gone" /\ ~stream'[s].ended
        /\ stream'[s].window = FALSE /\ One(stream'[s].window) = 0
    BY DEF Closed, Fresh, One
  <1>2. /\ Count(toClient'[s], "WRTE") = Count(toClient[s], "WRTE")
        /\ One(owes[s]) \in Nat /\ One(stream[s].window) \in Nat
    BY DEF Closed, One
  <1>3. FlowOf(s)'
    <2>1. (Tokens(s) <= 1)'
      BY <1>1, <1>2, <1>0 DEF Numbers, FlowOf, Tokens, Sent
    <2>2. dialing'[s] => Untouched(s)'
      <3> SUFFICES ASSUME dialing'[s] PROVE Untouched(s)'
        OBVIOUS
      <3>1. Untouched(s) BY <1>0 DEF FlowOf
      <3>2. written'[s] = 0 /\ unread'[s] = 0 /\ got'[s] = 0
        BY <3>1 DEF Untouched
      <3>3. /\ Count(toClient[s], "WRTE") = 0 /\ Count(toProxy[s], "OKAY") = 0
            /\ One(owes[s]) = 0
        BY <1>0, <3>1, NoTokens DEF Untouched
      <3>4. Tokens(s)' = 0
        BY <1>1, <1>2, <3>3 DEF Tokens, Sent
      <3> QED BY <1>1, <3>2, <3>4 DEF Untouched
    <2>3. got'[s] + Sent(s)' <= written'[s] /\ (aborted'[s] \/ written'[s] = got'[s] + Sent(s)')
      BY <1>2 DEF Sent
    <2> QED BY <1>1, <2>1, <2>2, <2>3 DEF FlowOf
  <1> QED BY <1>3, AloneKeeps

\* A stream that was pumped, from its record r.
LEMMA PumpedKeeps ==
    ASSUME SessionInv, FlowInv, FlowTypes', NEW s \in Streams, Alone(s),
           NEW r \in StreamRecord, Pumped(s, r), r.stage = "open", stream[s].stage # "gone",
           ~dialing'[s], client'[s] = client[s], owes'[s] = owes[s], got'[s] = got[s],
           Count(toProxy'[s], "OKAY") \in Nat,
           Sent(s) + Count(toProxy'[s], "OKAY") + One(owes[s]) + One(r.window) <= 1,
           written'[s] = unread'[s] + r.queue + Sent(s) + got[s],
           r.ended => unread'[s] = 0 /\ deviceEnd'[s] # "running"
    PROVE  FlowInv'
  <1>0. Numbers(s) /\ FlowOf(s) BY FlowNumbers
  <1>1. /\ One(owes[s]) \in Nat /\ One(r.window) \in Nat /\ One(stream'[s].window) \in Nat
        /\ r.queue \in Nat /\ unread'[s] \in Nat
    BY DEF One, StreamRecord, FlowTypes
  <1>2. FlowOf(s)'
    <2>1. (Tokens(s) <= 1)'
      BY <1>1, <1>0 DEF Numbers, Pumped, Tokens, Sent
    <2>2. written'[s] = unread'[s] + stream'[s].queue + Sent(s)' + got'[s]
      BY <1>1, <1>0 DEF Numbers, Pumped, Sent
    <2>3. stream'[s].stage = "open" /\ stream'[s].ended = r.ended
      BY DEF Pumped
    <2>4. client'[s] # "closed"
      BY <1>0 DEF Numbers, FlowOf
    <2> QED BY <2>1, <2>2, <2>3, <2>4 DEF FlowOf
  <1> QED BY <1>2, AloneKeeps

\* close of the session: what was on its way to it is lost.
LEMMA CloseSessionFlow ==
    ASSUME SessionInv, FlowInv, CloseSession, dialing' \in [Streams -> BOOLEAN],
           \A s \in Streams : dialing'[s] => dialing[s],
           UNCHANGED <<written, unread, deviceEnd, client, owes, got>>
    PROVE  FlowInv'
  <1>1. FlowTypes'
    BY DEF FlowInv, FlowTypes, CloseSession
  <1>2. ASSUME NEW s \in Streams PROVE FlowOf(s)'
    <2>0. Numbers(s) /\ FlowOf(s) BY FlowNumbers
    <2>1. /\ stream'[s] = IF s \in Listed THEN Fresh("gone") ELSE stream[s]
          /\ aborted'[s] = (aborted[s] \/ s \in Listed)
          /\ toProxy'[s] = <<>> /\ toClient'[s] = toClient[s]
      BY DEF CloseSession, FlowInv, FlowTypes
    <2>2. Count(toProxy'[s], "OKAY") = 0 /\ Count(toClient'[s], "WRTE") = Count(toClient[s], "WRTE")
      BY <2>1, CountOfNone
    <2>3. One(owes[s]) \in Nat /\ One(stream[s].window) \in Nat
      BY DEF One
    <2>4. CASE s \in Listed
      <3>1. /\ stream'[s].stage = "gone" /\ ~stream'[s].ended
            /\ One(stream'[s].window) = 0 /\ aborted'[s]
        <4>1. stream'[s] = Fresh("gone") /\ aborted'[s] BY <2>1, <2>4
        <4> QED BY <4>1 DEF Fresh, One
      <3>2. got[s] + Sent(s) <= written[s]
        BY <2>4, <2>3, <2>0 DEF Numbers, FlowOf, Untouched, Tokens, Sent, Listed
      <3>3. (Tokens(s) <= 1)' /\ (dialing'[s] => Untouched(s)')
        BY <2>2, <2>3, <3>1, <2>0 DEF Numbers, FlowOf, Untouched, Tokens, Sent
      <3>4. got'[s] + Sent(s)' <= written'[s]
        BY <2>2, <3>2 DEF Sent
      <3> QED BY <3>1, <3>3, <3>4 DEF FlowOf
    <2>5. CASE s \notin Listed
      <3>1. stream'[s] = stream[s] /\ aborted'[s] = aborted[s]
        BY <2>1, <2>5, <2>0 DEF Numbers
      <3>2. (Tokens(s) <= 1)' /\ (Untouched(s) => Untouched(s)')
        BY <2>2, <2>3, <3>1, <2>0 DEF Numbers, FlowOf, Untouched, Tokens, Sent
      <3>3. Sent(s)' = Sent(s)
        BY <2>2 DEF Sent
      <3> QED BY <3>1, <3>2, <3>3, <2>0 DEF Numbers, FlowOf
    <2> QED BY <2>4, <2>5
  <1> QED BY <1>1, <1>2 DEF FlowInv

-----------------------------------------------------------------------------
(* The handlers.                                                           *)

\* A packet of the client.
LEMMA PacketFlow ==
    ASSUME SessionInv, FlowInv, NEW s \in Streams, PacketArrives(s)
    PROVE  FlowInv'
  <1> USE DEF recordVars, peerVars
  <1>1. /\ toProxy[s] # <<>> /\ Consumed(s)
        /\ UNCHANGED <<written, unread, deviceEnd, client, owes, got>>
    BY DEF PacketArrives, OnOpen, OnWrite, OnOkay, OnPeerClose, Dropped, Packet
  <1>2. Numbers(s) /\ FlowOf(s)
    BY FlowNumbers
  <1>3. /\ Count(toProxy'[s], "OKAY") \in Nat
        /\ Count(toProxy[s], "OKAY")
              = Count(toProxy'[s], "OKAY") + (IF Head(toProxy[s]) = "OKAY" THEN 1 ELSE 0)
        /\ Count(toProxy'[s], "OKAY") <= Count(toProxy[s], "OKAY")
        /\ \A t \in Streams \ {s} : toProxy'[t] = toProxy[t]
    <2>1. /\ Count(toProxy'[s], "OKAY") \in Nat
          /\ Count(toProxy[s], "OKAY")
                = Count(toProxy'[s], "OKAY") + (IF Head(toProxy[s]) = "OKAY" THEN 1 ELSE 0)
          /\ \A t \in Streams \ {s} : toProxy'[t] = toProxy[t]
      BY <1>1, ReadPacket
    <2> QED BY <2>1
  <1>4. FlowTypes
    BY DEF FlowInv
  <1>5. \* A stream that the session closes here is closed before the end of its data.
        ASSUME Closed(s), aborted'[s], dialing'[s] => dialing[s],
               \A t \in Streams \ {s} : dialing'[t] = dialing[t],
               stream[s].stage \in {"none", "opening", "open"}
        PROVE  FlowInv'
    <2>1. FlowTypes' /\ Alone(s)
      BY <1>1, <1>3, <1>4, <1>5 DEF Closed, Alone, FlowTypes
    <2>2. got[s] + Sent(s) <= written[s]
      <3>1. CASE stream[s].stage = "open"
        BY <1>2, <3>1 DEF Numbers, FlowOf, Sent
      <3>2. CASE stream[s].stage # "open"
        <4>1. Untouched(s) BY <1>2, <1>5, <3>2 DEF FlowOf
        <4>2. Count(toClient[s], "WRTE") = 0 BY <1>2, <4>1, NoTokens DEF Untouched
        <4> QED BY <1>2, <4>1, <4>2 DEF Numbers, Untouched, Sent
      <3> QED BY <3>1, <3>2
    <2> QED BY <1>1, <1>3, <1>5, <2>1, <2>2, ClosedKeeps
  <1>6. \* A stream of which a packet is read that leaves the flow alone.
        ASSUME UNCHANGED <<toClient, aborted>>, \A t \in Streams \ {s} :
                   dialing'[t] = dialing[t] /\ stream'[t] = stream[t],
               stream'[s].window = stream[s].window, stream'[s].ended = stream[s].ended,
               stream'[s].queue = stream[s].queue,
               \/ stream'[s].stage = stream[s].stage /\ dialing'[s] = dialing[s]
               \/ stream[s].stage = "none" /\ stream'[s].stage = "opening"
        PROVE  FlowInv'
    <2>1. FlowTypes' /\ Alone(s)
      BY <1>1, <1>3, <1>4, <1>6 DEF Alone, FlowTypes
    <2>2. (Tokens(s) <= 1)' /\ (Untouched(s) => Untouched(s)')
      <3>1. Tokens(s)' <= Tokens(s) /\ Tokens(s)' \in Nat /\ Tokens(s) \in Nat
        BY <1>1, <1>2, <1>3, <1>6 DEF Numbers, Tokens, Sent
      <3>2. Tokens(s) <= 1 BY <1>2 DEF FlowOf
      <3> QED BY <1>1, <1>6, <3>1, <3>2 DEF Untouched
    <2>3. FlowOf(s)'
      BY <1>1, <1>2, <1>6, <2>2 DEF FlowOf, Sent
    <2> QED BY <2>1, <2>3, AloneKeeps
  <1>7. CASE OnOpen(s)
    <2>1. stream[s].stage = "none" BY <1>7, OpenIsFirst DEF OnOpen
    <2>2. CASE Service[s] = "refused" \/ Cardinality(Listed) >= MaxStreams
      BY <1>4, <1>5, <1>7, <2>1, <2>2, RefuseFlow DEF OnOpen
    <2>3. CASE ~(Service[s] = "refused" \/ Cardinality(Listed) >= MaxStreams)
      <3>1. /\ stream' = [stream EXCEPT ![s] = Fresh("opening")]
            /\ dialing' = [dialing EXCEPT ![s] = TRUE]
            /\ UNCHANGED <<toClient, aborted>>
        BY <1>7, <2>3 DEF OnOpen
      <3>2. Untouched(s)
        BY <1>2, <2>1 DEF FlowOf
      <3>3. stream'[s] = Fresh("opening") /\ \A t \in Streams \ {s} :
                dialing'[t] = dialing[t] /\ stream'[t] = stream[t]
        BY <3>1 DEF SessionInv, SessionTypes
      <3>4. FlowTypes' /\ Alone(s)
        BY <1>1, <1>3, <1>4, <3>1, <3>3 DEF Alone, FlowTypes
      <3>5. stream'[s].stage = "opening" /\ stream'[s].ended = FALSE /\ stream'[s].window = FALSE
        BY <3>3 DEF Fresh
      <3>6. Tokens(s)' = 0
        <4>1. /\ Count(toClient[s], "WRTE") = 0 /\ Count(toProxy[s], "OKAY") = 0
              /\ One(owes[s]) = 0
          BY <1>2, <3>2, NoTokens DEF Untouched
        <4>2. /\ Count(toClient'[s], "WRTE") = 0 /\ Count(toProxy'[s], "OKAY") = 0
              /\ One(owes'[s]) = 0 /\ One(stream'[s].window) = 0
          BY <1>1, <1>3, <3>1, <3>5, <4>1 DEF One
        <4> QED BY <4>2 DEF Tokens, Sent
      <3>7. Untouched(s)'
        BY <1>1, <3>2, <3>5, <3>6 DEF Untouched
      <3>8. client'[s] # "closed"
        BY <1>1, <1>2, <2>1 DEF FlowOf
      <3>9. FlowOf(s)'
        BY <3>5, <3>6, <3>7, <3>8 DEF FlowOf
      <3> QED BY <3>4, <3>9, AloneKeeps
    <2> QED BY <2>2, <2>3
  <1>8. CASE OnWrite(s)
    <2>1. stream[s].stage = "open" /\ dialing' = dialing BY <1>8 DEF OnWrite
    <2>2. CASE stream[s].ack
      <3>1. CloseStream(s, <<>>, "protocol")
        BY <1>8, <2>2 DEF OnWrite
      <3>2. Closed(s) /\ aborted'[s] = ("protocol" # "end")
        BY <1>4, <3>1, CloseStreamFlow
      <3> QED BY <1>5, <2>1, <3>2
    <2>3. CASE ~stream[s].ack
      <3>1. /\ stream' = [stream EXCEPT ![s] = [stream[s] EXCEPT !.ack = TRUE]]
            /\ UNCHANGED <<toClient, aborted>>
        BY <1>8, <2>3 DEF OnWrite
      <3>2. stream'[s] = [stream[s] EXCEPT !.ack = TRUE]
            /\ \A t \in Streams \ {s} : stream'[t] = stream[t]
        BY <3>1 DEF SessionInv, SessionTypes
      <3>3. /\ stream'[s].window = stream[s].window /\ stream'[s].ended = stream[s].ended
            /\ stream'[s].queue = stream[s].queue /\ stream'[s].stage = stream[s].stage
        BY <1>2, <3>2 DEF Numbers, StreamRecord
      <3> QED BY <1>6, <2>1, <3>1, <3>2, <3>3
    <2> QED BY <2>2, <2>3
  <1>9. CASE OnOkay(s)
    <2> DEFINE r == [stream[s] EXCEPT !.window = TRUE]
    <2>1. /\ Head(toProxy[s]) = "OKAY" /\ stream[s].stage \in {"opening", "open"}
          /\ Pump(s, r, sock[s], <<>>) /\ dialing' = dialing
      BY <1>9 DEF OnOkay, Packet, Listed
    <2>2. /\ Count(toProxy'[s], "OKAY") = 0 /\ Count(toProxy[s], "OKAY") = 1
          /\ Count(toClient[s], "WRTE") = 0 /\ One(owes[s]) = 0
      <3>1. \A a, b, c, d, e \in Nat : a + b + c + d <= 1 /\ b = e + 1
                                          => a = 0 /\ b = 1 /\ c = 0 /\ d = 0 /\ e = 0
        OBVIOUS
      <3> QED BY <1>2, <1>3, <2>1, <3>1 DEF Numbers, FlowOf, Tokens, Sent
    <2>3. stream[s].stage = "open"
      <3>1. Tokens(s) # 0 BY <1>2, <2>2, NoTokens
      <3> QED BY <1>2, <2>1, <3>1 DEF FlowOf, Untouched
    <2>4. r \in StreamRecord /\ r.stage = "open" /\ r.queue = stream[s].queue
          /\ r.ended = stream[s].ended /\ r.window
      BY <1>2, <2>3 DEF Numbers, StreamRecord
    <2> HIDE DEF r
    <2>5. ~dialing'[s]
      BY <2>1, <2>3 DEF SessionInv, OpensOnce
    <2>6. /\ written[s] = unread[s] + stream[s].queue + Sent(s) + got[s]
          /\ stream[s].ended => unread[s] = 0 /\ deviceEnd[s] # "running"
      BY <1>2, <2>3 DEF FlowOf
    <2>7. CASE Closed(s) /\ ~aborted'[s] /\ r.queue = 0 /\ r.ended
      <3>1. FlowTypes' /\ Alone(s)
        BY <1>1, <1>3, <1>4, <2>1, <2>7 DEF Closed, Alone, FlowTypes
      <3>2. written'[s] = got[s] + Sent(s) /\ got[s] + Sent(s) <= written'[s]
        <4>1. unread[s] = 0 /\ stream[s].queue = 0
          BY <2>4, <2>6, <2>7
        <4>2. written'[s] = Sent(s) + got[s] /\ Sent(s) \in Nat /\ got[s] \in Nat
          BY <1>1, <1>2, <2>6, <4>1 DEF Numbers, Sent
        <4> QED BY <4>2
      <3> QED BY <1>1, <1>3, <2>5, <2>7, <3>1, <3>2, ClosedKeeps
    <2>8. CASE Pumped(s, r)
      <3>1. FlowTypes' /\ Alone(s)
        BY <1>1, <1>3, <1>4, <2>1, <2>8 DEF Pumped, Alone, FlowTypes
      <3>2. Sent(s) + Count(toProxy'[s], "OKAY") + One(owes[s]) + One(r.window) <= 1
        <4>1. One(r.window) = 1 BY <2>4 DEF One
        <4> QED BY <2>2, <4>1 DEF Sent
      <3>3. written'[s] = unread'[s] + r.queue + Sent(s) + got[s]
        BY <1>1, <2>4, <2>6
      <3>4. r.ended => unread'[s] = 0 /\ deviceEnd'[s] # "running"
        BY <1>1, <2>4, <2>6
      <3> QED BY <1>1, <1>3, <2>3, <2>4, <2>5, <2>8, <3>1, <3>2, <3>3, <3>4, PumpedKeeps
    <2> QED BY <1>4, <2>1, <2>4, <2>7, <2>8, PumpFlow
  <1>10. CASE OnPeerClose(s)
    <2>1. /\ CloseStream(s, <<>>, "peer") /\ dialing' = dialing
          /\ stream[s].stage \in {"opening", "open"}
      BY <1>10 DEF OnPeerClose, Listed
    <2>2. Closed(s) /\ aborted'[s] = ("peer" # "end")
      BY <1>4, <2>1, CloseStreamFlow
    <2> QED BY <1>5, <2>1, <2>2
  <1>11. CASE Dropped(s)
    BY <1>6, <1>11 DEF Dropped
  <1> QED BY <1>7, <1>8, <1>9, <1>10, <1>11 DEF PacketArrives

\* The device's socket, with or without a first piece, or its refusal.
LEMMA DialFlow ==
    ASSUME SessionInv, FlowInv, NEW s \in Streams, DialSettles(s)
    PROVE  FlowInv'
  <1> USE DEF recordVars, peerVars
  <1>1. /\ dialing[s] /\ dialing' = [dialing EXCEPT ![s] = FALSE]
        /\ UNCHANGED <<client, owes, got>>
    BY DEF DialSettles, OpenResolves, OpenRejects, DeviceUnavailable
  <1>2. Numbers(s) /\ FlowOf(s) /\ FlowTypes /\ Untouched(s)
    <2>1. Numbers(s) /\ FlowOf(s) /\ FlowTypes
      BY FlowNumbers DEF FlowInv
    <2> QED BY <1>1, <2>1 DEF FlowOf
  <1>3. /\ Count(toClient[s], "WRTE") = 0 /\ Count(toProxy[s], "OKAY") = 0
        /\ One(owes[s]) = 0 /\ Sent(s) = 0
    BY <1>2, NoTokens DEF Untouched, Sent
  <1>4. ~dialing'[s] /\ \A t \in Streams \ {s} : dialing'[t] = dialing[t]
    BY <1>1 DEF SessionInv, SessionTypes
  <1>5. stream[s].stage # "open" /\ written[s] = 0 /\ got[s] = 0
    BY <1>1, <1>2 DEF SessionInv, OpensOnce, Untouched
  <1>6. CASE OpenResolves(s)
    <2>1. PICK n \in 0 .. 1, end \in {"running", "ended"} :
             /\ written' = [written EXCEPT ![s] = n] /\ unread' = [unread EXCEPT ![s] = n]
             /\ deviceEnd' = [deviceEnd EXCEPT ![s] = end]
             /\ IF link = "closed" \/ s \notin Listed
                THEN LateSocket(s) /\ UNCHANGED <<link, stream, toClient, aborted>>
                ELSE Pump(s, [Fresh("open") EXCEPT !.window = TRUE,
                                                   !.ended = n = 0 /\ end = "ended"],
                          "flowing", <<"OKAY">>)
      BY <1>6 DEF OpenResolves
    <2>2. toProxy' = toProxy
      BY <1>6 DEF OpenResolves
    <2>3. /\ written' \in [Streams -> Nat] /\ unread' \in [Streams -> Nat]
          /\ deviceEnd' \in [Streams -> {"running", "ended", "failed"}]
          /\ owes' \in [Streams -> BOOLEAN] /\ got' \in [Streams -> Nat]
          /\ written'[s] = n /\ unread'[s] = n /\ deviceEnd'[s] = end
          /\ \A t \in Streams \ {s} :
                written'[t] = written[t] /\ unread'[t] = unread[t] /\ deviceEnd'[t] = deviceEnd[t]
      BY <1>1, <1>2, <2>1 DEF FlowTypes
    <2>4. CASE link = "closed" \/ s \notin Listed
      <3>1. UNCHANGED <<stream, toClient, aborted>>
        BY <2>1, <2>4
      <3>2. stream[s].stage = "gone"
        <4>1. stream[s].stage \in {"none", "opening", "open", "gone"}
          BY <1>2 DEF Numbers, StreamRecord
        <4> QED BY <1>1, <2>4, <4>1 DEF Listed, SessionInv, OpensOnce, SocketsHaveStreams
      <3>3. FlowTypes' /\ Alone(s)
        BY <1>1, <1>2, <1>4, <2>2, <2>3, <3>1 DEF Alone, FlowTypes
      <3>4. aborted[s]
        BY <1>1, <1>2, <3>2 DEF FlowOf
      <3>5. Tokens(s)' = Tokens(s) /\ Sent(s)' = 0
        BY <1>1, <1>3, <2>2, <3>1 DEF Tokens, Sent
      <3>6. FlowOf(s)'
        BY <1>1, <1>2, <1>4, <1>5, <2>3, <3>1, <3>2, <3>4, <3>5 DEF FlowOf
      <3> QED BY <3>3, <3>6, AloneKeeps
    <2>5. CASE ~(link = "closed" \/ s \notin Listed)
      <3> DEFINE r == [Fresh("open") EXCEPT !.window = TRUE, !.ended = n = 0 /\ end = "ended"]
      <3>1. Pump(s, r, "flowing", <<"OKAY">>) BY <2>1, <2>5
      <3>2. r \in StreamRecord /\ r.stage = "open" /\ r.queue = 0 /\ r.window
            /\ (r.ended => n = 0 /\ end = "ended")
        BY DEF Fresh, StreamRecord
      <3>3. stream[s].stage = "opening"
        BY <1>5, <2>5 DEF Listed
      <3> HIDE DEF r
      <3>4. CASE Closed(s) /\ ~aborted'[s] /\ r.queue = 0 /\ r.ended
        <4>1. FlowTypes' /\ Alone(s)
          BY <1>1, <1>2, <1>4, <2>2, <2>3, <3>4 DEF Closed, Alone, FlowTypes
        <4>2. written'[s] = got[s] + Sent(s) /\ got[s] + Sent(s) <= written'[s]
          BY <1>3, <1>5, <2>3, <3>2, <3>4
        <4> QED BY <1>1, <1>2, <1>3, <1>4, <2>2, <3>4, <4>1, <4>2, ClosedKeeps DEF Numbers
      <3>5. CASE Pumped(s, r)
        <4>1. FlowTypes' /\ Alone(s)
          BY <1>1, <1>2, <1>4, <2>2, <2>3, <3>5 DEF Pumped, Alone, FlowTypes
        <4>2. Sent(s) + Count(toProxy'[s], "OKAY") + One(owes[s]) + One(r.window) <= 1
          <5>1. One(r.window) = 1 BY <3>2 DEF One
          <5> QED BY <1>3, <2>2, <5>1
        <4>3. written'[s] = unread'[s] + r.queue + Sent(s) + got[s]
          BY <1>3, <1>5, <2>3, <3>2
        <4>4. r.ended => unread'[s] = 0 /\ deviceEnd'[s] # "running"
          BY <2>3, <3>2
        <4>5. stream[s].stage # "gone" /\ Count(toProxy'[s], "OKAY") \in Nat
          BY <1>3, <2>2, <3>3
        <4> QED BY <1>1, <1>4, <3>2, <3>5, <4>1, <4>2, <4>3, <4>4, <4>5, PumpedKeeps
      <3> QED BY <1>2, <3>1, <3>2, <3>4, <3>5, PumpFlow
    <2> QED BY <2>4, <2>5
  <1>7. CASE OpenRejects(s)
    <2>1. UNCHANGED <<written, unread, deviceEnd, toProxy>>
      BY <1>7 DEF OpenRejects
    <2>2. CASE s \in Listed
      <3>1. Refuse(s) BY <1>7, <2>2 DEF OpenRejects
      <3>2. Closed(s) /\ aborted'[s] BY <1>2, <3>1, RefuseFlow
      <3>3. FlowTypes' /\ Alone(s)
        BY <1>1, <1>2, <1>4, <2>1, <3>2 DEF Closed, Alone, FlowTypes
      <3>4. got[s] + Sent(s) <= written'[s]
        BY <1>3, <1>5, <2>1
      <3> QED BY <1>1, <1>2, <1>3, <1>4, <2>1, <3>2, <3>3, <3>4, ClosedKeeps DEF Numbers
    <2>3. CASE s \notin Listed
      <3>1. UNCHANGED <<stream, toClient, aborted>>
        BY <1>7, <2>3 DEF OpenRejects
      <3>2. FlowTypes' /\ Alone(s)
        BY <1>1, <1>2, <1>4, <2>1, <3>1 DEF Alone, FlowTypes
      <3>3. Tokens(s)' = Tokens(s) /\ Sent(s)' = Sent(s)
        BY <1>1, <2>1, <3>1 DEF Tokens, Sent
      <3>4. Untouched(s)'
        BY <1>1, <1>2, <2>1, <3>1, <3>3 DEF Untouched
      <3>5. FlowOf(s)'
        BY <1>1, <1>2, <1>4, <2>1, <3>1, <3>3, <3>4 DEF FlowOf
      <3> QED BY <3>2, <3>5, AloneKeeps
    <2> QED BY <2>2, <2>3
  <1>8. CASE DeviceUnavailable(s)
    <2>1. /\ CloseSession /\ dialing' \in [Streams -> BOOLEAN]
          /\ UNCHANGED <<written, unread, deviceEnd>>
          /\ \A t \in Streams : dialing'[t] => dialing[t]
      BY <1>1, <1>4, <1>8 DEF DeviceUnavailable, SessionInv, SessionTypes
    <2> QED BY <1>1, <2>1, CloseSessionFlow
  <1> QED BY <1>6, <1>7, <1>8 DEF DialSettles

\* Data, the end and an error of the device's socket, and the end of a write.
LEMMA BackendFlow ==
    ASSUME SessionInv, FlowInv, NEW s \in Streams, BackendEvent(s) \/ WriteDone(s)
    PROVE  FlowInv'
  <1> USE DEF recordVars, peerVars
  <1>1. /\ stream[s].stage = "open" /\ ~dialing[s]
        /\ UNCHANGED <<dialing, written, deviceEnd, toProxy, client, owes, got>>
    BY DEF BackendEvent, BackendData, BackendEnds, BackendError, WriteDone, SessionInv, OpensOnce
  <1>2. Numbers(s) /\ FlowOf(s) /\ FlowTypes
    BY FlowNumbers DEF FlowInv
  <1>3. /\ written[s] = unread[s] + stream[s].queue + Sent(s) + got[s]
        /\ stream[s].ended => unread[s] = 0 /\ deviceEnd[s] # "running"
        /\ Tokens(s) <= 1
    BY <1>1, <1>2 DEF FlowOf
  <1>4. got[s] + Sent(s) <= written[s]
    BY <1>2, <1>3 DEF Numbers, Sent
  <1>5. ASSUME NEW why, CloseStream(s, <<>>, why), why # "end", unread' = unread
        PROVE  FlowInv'
    <2>1. Closed(s) /\ aborted'[s]
      <3>1. Closed(s) /\ aborted'[s] = (why # "end") BY <1>2, <1>5, CloseStreamFlow
      <3> QED BY <1>5, <3>1
    <2>2. FlowTypes' /\ Alone(s)
      BY <1>1, <1>2, <1>5, <2>1 DEF Closed, Alone, FlowTypes
    <2> QED BY <1>1, <1>2, <1>4, <2>1, <2>2, ClosedKeeps DEF Numbers
  <1>6. ASSUME NEW r \in StreamRecord, NEW flow, Pump(s, r, flow, <<>>), r.stage = "open",
               r.window = stream[s].window, unread' \in [Streams -> Nat],
               \A t \in Streams \ {s} : unread'[t] = unread[t],
               written[s] = unread'[s] + r.queue + Sent(s) + got[s],
               r.ended => unread'[s] = 0 /\ deviceEnd[s] # "running"
        PROVE  FlowInv'
    <2>1. CASE Closed(s) /\ ~aborted'[s] /\ r.queue = 0 /\ r.ended
      <3>1. FlowTypes' /\ Alone(s)
        BY <1>1, <1>2, <1>6, <2>1 DEF Closed, Alone, FlowTypes
      <3>2. written'[s] = got[s] + Sent(s) /\ got[s] + Sent(s) <= written'[s]
        <4>1. unread'[s] = 0 /\ r.queue = 0 BY <1>6, <2>1
        <4>2. written'[s] = Sent(s) + got[s] /\ Sent(s) \in Nat /\ got[s] \in Nat
          BY <1>1, <1>2, <1>6, <4>1 DEF Numbers, Sent
        <4> QED BY <4>2
      <3> QED BY <1>1, <1>2, <2>1, <3>1, <3>2, ClosedKeeps DEF Numbers
    <2>2. CASE Pumped(s, r)
      <3>1. FlowTypes' /\ Alone(s)
        BY <1>1, <1>2, <1>6, <2>2 DEF Pumped, Alone, FlowTypes
      <3>2. Sent(s) + Count(toProxy'[s], "OKAY") + One(owes[s]) + One(r.window) <= 1
        BY <1>1, <1>3, <1>6 DEF Tokens
      <3> QED BY <1>1, <1>2, <1>6, <2>2, <3>1, <3>2, PumpedKeeps DEF Numbers
    <2> QED BY <1>2, <1>6, <2>1, <2>2, PumpFlow
  <1>7. CASE BackendData(s)
    <2>1. PICK n \in 1 .. unread[s] :
             /\ unread' = [unread EXCEPT ![s] = @ - n]
             /\ Pump(s, [stream[s] EXCEPT !.queue = @ + n], "paused", <<>>)
      BY <1>7 DEF BackendData
    <2> DEFINE r == [stream[s] EXCEPT !.queue = @ + n]
    <2>2. stream[s].queue \in Nat /\ stream[s].queue + n \in Nat /\ unread[s] - n \in Nat
          /\ n \in Nat /\ n > 0
      BY <1>2 DEF Numbers
    <2>3. r \in StreamRecord /\ r.stage = "open" /\ r.window = stream[s].window
          /\ r.ended = stream[s].ended /\ r.queue = stream[s].queue + n
      BY <1>1, <1>2, <2>2 DEF Numbers, StreamRecord
    <2>4. Pump(s, r, "paused", <<>>) BY <2>1
    <2> HIDE DEF r
    <2>5. unread' \in [Streams -> Nat] /\ unread'[s] = unread[s] - n
          /\ \A t \in Streams \ {s} : unread'[t] = unread[t]
      BY <1>2, <2>1, <2>2 DEF FlowTypes
    <2>6. written[s] = unread'[s] + r.queue + Sent(s) + got[s]
      <3>1. Sent(s) \in Nat /\ got[s] \in Nat BY <1>2 DEF Numbers, Sent
      <3> QED BY <1>2, <1>3, <2>2, <2>3, <2>5, <3>1 DEF Numbers
    <2>7. ~r.ended
      <3>1. unread[s] # 0 BY <2>2, <1>2 DEF Numbers
      <3> QED BY <1>3, <2>3, <3>1
    <2> QED BY <1>6, <2>3, <2>4, <2>5, <2>6, <2>7
  <1>8. CASE BackendEnds(s)
    <2> DEFINE r == [stream[s] EXCEPT !.ended = TRUE]
    <2>1. /\ Pump(s, r, sock[s], <<>>) /\ unread' = unread
          /\ deviceEnd[s] = "ended" /\ unread[s] = 0
      BY <1>8 DEF BackendEnds
    <2>2. r \in StreamRecord /\ r.stage = "open" /\ r.window = stream[s].window
          /\ r.queue = stream[s].queue
      BY <1>1, <1>2 DEF Numbers, StreamRecord
    <2> HIDE DEF r
    <2> QED BY <1>2, <1>3, <1>6, <2>1, <2>2 DEF FlowTypes
  <1>9. CASE BackendError(s)
    BY <1>5, <1>9 DEF BackendError
  <1>10. CASE WriteDone(s)
    <2>1. unread' = unread BY <1>10 DEF WriteDone
    <2>2. CASE CloseStream(s, <<>>, "error")
      BY <1>5, <2>1, <2>2
    <2>3. CASE ~CloseStream(s, <<>>, "error")
      <3>1. /\ stream' = [stream EXCEPT ![s] = [stream[s] EXCEPT !.ack = FALSE]]
            /\ toClient' = [toClient EXCEPT ![s] = Append(toClient[s], "OKAY")]
            /\ aborted' = aborted
        BY <1>10, <2>3 DEF WriteDone
      <3>2. /\ stream'[s] = [stream[s] EXCEPT !.ack = FALSE]
            /\ toClient[s] \in Seq(Packets) /\ toClient'[s] = Append(toClient[s], "OKAY")
            /\ \A t \in Streams \ {s} : stream'[t] = stream[t] /\ toClient'[t] = toClient[t]
        BY <3>1 DEF SessionInv, SessionTypes
      <3>3. /\ stream'[s].window = stream[s].window /\ stream'[s].ended = stream[s].ended
            /\ stream'[s].queue = stream[s].queue /\ stream'[s].stage = "open"
        BY <1>1, <1>2, <3>2 DEF Numbers, StreamRecord
      <3>4. Count(toClient'[s], "WRTE") = Count(toClient[s], "WRTE")
        <4>1. "OKAY" \in Packets BY DEF Packets
        <4>2. Count(Append(toClient[s], "OKAY"), "WRTE")
                 = Count(toClient[s], "WRTE") + (IF "OKAY" = "WRTE" THEN 1 ELSE 0)
          BY <3>2, <4>1, CountOfOneMore
        <4> QED BY <1>2, <3>2, <4>2 DEF Numbers
      <3>5. FlowTypes' /\ Alone(s)
        BY <1>1, <1>2, <2>1, <3>1, <3>2 DEF Alone, FlowTypes
      <3>6. Sent(s)' = Sent(s) /\ Tokens(s)' = Tokens(s)
        BY <1>1, <3>3, <3>4 DEF Sent, Tokens
      <3>7. FlowOf(s)'
        BY <1>1, <1>2, <1>3, <2>1, <3>1, <3>3, <3>6 DEF FlowOf
      <3> QED BY <3>5, <3>7, AloneKeeps
    <2> QED BY <2>2, <2>3
  <1> QED BY <1>7, <1>8, <1>9, <1>10 DEF BackendEvent

-----------------------------------------------------------------------------
(* The device and the client.                                              *)

LEMMA DeviceFlow ==
    ASSUME SessionInv, FlowInv, NEW s \in Streams, DeviceWrites(s) \/ DeviceHangsUp(s)
    PROVE  FlowInv'
  <1> USE DEF recordVars, peerVars
  <1>1. /\ sock[s] \in {"paused", "flowing"} /\ deviceEnd[s] = "running"
        /\ UNCHANGED <<stream, dialing, toClient, toProxy, client, owes, got, aborted>>
    BY DEF DeviceWrites, DeviceHangsUp
  <1>2. Numbers(s) /\ FlowOf(s) /\ FlowTypes
    BY FlowNumbers DEF FlowInv
  <1>3. stream[s].stage = "open" /\ ~dialing[s] /\ ~stream[s].ended
        /\ written[s] = unread[s] + stream[s].queue + Sent(s) + got[s]
    BY <1>1, <1>2 DEF SessionInv, OpensOnce, SocketsHaveStreams, FlowOf
  <1>4. Tokens(s)' = Tokens(s) /\ Sent(s)' = Sent(s)
    BY <1>1 DEF Tokens, Sent
  <1>5. /\ written'[s] = unread'[s] + stream[s].queue + Sent(s) + got[s]
        /\ FlowTypes' /\ Alone(s)
    <2>1. CASE DeviceWrites(s)
      <3>1. /\ written' = [written EXCEPT ![s] = written[s] + 1]
            /\ unread' = [unread EXCEPT ![s] = unread[s] + 1] /\ deviceEnd' = deviceEnd
        BY <2>1 DEF DeviceWrites
      <3>2. /\ written[s] + 1 \in Nat /\ unread[s] + 1 \in Nat
            /\ written' \in [Streams -> Nat] /\ unread' \in [Streams -> Nat]
            /\ written'[s] = written[s] + 1 /\ unread'[s] = unread[s] + 1
            /\ \A t \in Streams \ {s} : written'[t] = written[t] /\ unread'[t] = unread[t]
        BY <1>2, <3>1 DEF Numbers, FlowTypes
      <3>3. FlowTypes' /\ Alone(s)
        BY <1>1, <1>2, <3>1, <3>2 DEF Alone, FlowTypes
      <3>4. Sent(s) \in Nat BY <1>2 DEF Numbers, Sent
      <3>5. written'[s] = unread'[s] + stream[s].queue + Sent(s) + got[s]
        BY <1>2, <1>3, <3>2, <3>4 DEF Numbers
      <3> QED BY <3>3, <3>5
    <2>2. CASE DeviceHangsUp(s)
      BY <1>1, <1>2, <1>3, <2>2 DEF DeviceHangsUp, Alone, FlowTypes
    <2> QED BY <2>1, <2>2
  <1>6. FlowOf(s)'
    BY <1>1, <1>2, <1>3, <1>4, <1>5 DEF FlowOf
  <1> QED BY <1>5, <1>6, AloneKeeps

\* A packet of the client: its OKAY is what it owes.
LEMMA ClientSendFlow ==
    ASSUME SessionInv, FlowInv, NEW s \in Streams,
           ClientOpens(s) \/ ClientWrites(s) \/ ClientAcks(s) \/ ClientCloses(s)
    PROVE  FlowInv'
  <1> USE DEF recordVars, peerVars
  <1>1. Numbers(s) /\ FlowOf(s) /\ FlowTypes
    BY FlowNumbers DEF FlowInv
  <1>2. PICK p \in Packets :
           /\ ClientSends(s, p)
           /\ client'[s] # "closed" /\ \A t \in Streams \ {s} : client'[t] = client[t]
           /\ owes' \in [Streams -> BOOLEAN] /\ \A t \in Streams \ {s} : owes'[t] = owes[t]
           /\ One(owes'[s]) + (IF p = "OKAY" THEN 1 ELSE 0) = One(owes[s])
    <2> USE DEF SessionInv, SessionTypes, FlowTypes
    <2>1. CASE ClientOpens(s)
      <3>1. /\ ClientSends(s, "OPEN") /\ owes' = owes
            /\ client'[s] # "closed" /\ \A t \in Streams \ {s} : client'[t] = client[t]
        BY <2>1 DEF ClientOpens
      <3> QED BY <1>1, <3>1 DEF Packets, Numbers
    <2>2. CASE ClientWrites(s)
      <3>1. /\ ClientSends(s, "WRTE") /\ owes' = owes /\ client' = client /\ client[s] # "closed"
        BY <2>2 DEF ClientWrites
      <3> QED BY <1>1, <3>1 DEF Packets, Numbers
    <2>3. CASE ClientAcks(s)
      <3>1. /\ ClientSends(s, "OKAY") /\ client' = client /\ client[s] # "closed"
            /\ owes[s] /\ owes' \in [Streams -> BOOLEAN] /\ ~owes'[s]
            /\ \A t \in Streams \ {s} : owes'[t] = owes[t]
        BY <1>1, <2>3 DEF ClientAcks
      <3>2. One(owes'[s]) = 0 /\ One(owes[s]) = 1 BY <3>1 DEF One
      <3>3. One(owes'[s]) + (IF "OKAY" = "OKAY" THEN 1 ELSE 0) = One(owes[s])
        BY <3>2
      <3>4. client'[s] # "closed" /\ \A t \in Streams \ {s} : client'[t] = client[t]
        BY <3>1
      <3>5. "OKAY" \in Packets BY DEF Packets
      <3> QED BY <3>1, <3>3, <3>4, <3>5
    <2>4. CASE ClientCloses(s)
      <3>1. /\ ClientSends(s, "CLSE") /\ owes' = owes
            /\ client'[s] # "closed" /\ \A t \in Streams \ {s} : client'[t] = client[t]
        BY <2>4 DEF ClientCloses
      <3> QED BY <1>1, <3>1 DEF Packets, Numbers
    <2> QED BY <2>1, <2>2, <2>3, <2>4
  <1>3. /\ toProxy' = [toProxy EXCEPT ![s] = Append(toProxy[s], p)]
        /\ UNCHANGED <<stream, dialing, toClient, aborted, written, unread, deviceEnd, got>>
    BY <1>2 DEF ClientSends
  <1>4. /\ toProxy[s] \in Seq(Packets) /\ toProxy'[s] = Append(toProxy[s], p)
        /\ \A t \in Streams \ {s} : toProxy'[t] = toProxy[t]
    BY <1>3 DEF SessionInv, SessionTypes
  <1>5. Count(toProxy'[s], "OKAY") = Count(toProxy[s], "OKAY") + (IF p = "OKAY" THEN 1 ELSE 0)
    BY <1>4, CountOfOneMore
  <1>6. FlowTypes' /\ Alone(s)
    BY <1>1, <1>2, <1>3, <1>4 DEF FlowTypes, Alone
  <1>7. Sent(s)' = Sent(s) /\ Tokens(s)' = Tokens(s)
    <2>1. \A a, b, c, d, x, y \in Nat : x + y = c => a + (b + y) + x + d = a + b + c + d
      OBVIOUS
    <2>2. One(owes'[s]) \in Nat /\ (IF p = "OKAY" THEN 1 ELSE 0) \in Nat
      BY DEF One
    <2>3. Sent(s)' = Sent(s) /\ stream'[s] = stream[s]
      BY <1>3 DEF Sent
    <2>4. Sent(s) \in Nat BY <1>1 DEF Numbers, Sent
    <2>5. Tokens(s)' = Sent(s) + (Count(toProxy[s], "OKAY") + (IF p = "OKAY" THEN 1 ELSE 0))
                          + One(owes'[s]) + One(stream[s].window)
      BY <1>5, <2>3 DEF Tokens
    <2>6. Tokens(s)' = Sent(s) + Count(toProxy[s], "OKAY") + One(owes[s]) + One(stream[s].window)
      BY <1>1, <1>2, <2>1, <2>2, <2>4, <2>5 DEF Numbers
    <2> QED BY <2>3, <2>6 DEF Tokens
  <1>8. FlowOf(s)'
    BY <1>1, <1>2, <1>3, <1>7 DEF FlowOf, Untouched
  <1> QED BY <1>6, <1>8, AloneKeeps

\* What the client reads: a WRTE is a piece it has and an OKAY it owes.
LEMMA ClientReceiveFlow ==
    ASSUME SessionInv, FlowInv, NEW s \in Streams, ClientReceives(s)
    PROVE  FlowInv'
  <1> DEFINE p == Head(toClient[s])
  <1>1. Numbers(s) /\ FlowOf(s) /\ FlowTypes
    BY FlowNumbers DEF FlowInv
  <1>2. /\ client[s] # "closed" /\ toClient[s] # <<>>
        /\ toClient' = [toClient EXCEPT ![s] = Tail(toClient[s])]
        /\ client' = [client EXCEPT ![s] = CASE p = "CLSE" -> "closed"
                                             [] p = "OKAY" -> "open"
                                             [] OTHER -> @]
        /\ owes' = [owes EXCEPT ![s] = owes[s] \/ p = "WRTE"]
        /\ got' = [got EXCEPT ![s] = IF p = "WRTE" THEN got[s] + 1 ELSE got[s]]
        /\ UNCHANGED <<stream, dialing, aborted, written, unread, deviceEnd, toProxy>>
    BY DEF ClientReceives
  <1>3. /\ toClient[s] \in Seq(Packets) /\ Tail(toClient[s]) \in Seq(Packets)
        /\ toClient'[s] = Tail(toClient[s])
        /\ \A t \in Streams \ {s} : toClient'[t] = toClient[t]
    BY <1>2 DEF SessionInv, SessionTypes
  <1>4. /\ Count(toClient'[s], "WRTE") \in Nat
        /\ Count(toClient[s], "WRTE")
              = Count(toClient'[s], "WRTE") + (IF p = "WRTE" THEN 1 ELSE 0)
    BY <1>2, <1>3, CountIsNatural, CountOfRest
  <1>5. /\ got[s] + 1 \in Nat
        /\ owes' \in [Streams -> BOOLEAN] /\ got' \in [Streams -> Nat]
        /\ owes'[s] = (owes[s] \/ p = "WRTE")
        /\ got'[s] = got[s] + (IF p = "WRTE" THEN 1 ELSE 0)
        /\ \A t \in Streams \ {s} : owes'[t] = owes[t] /\ got'[t] = got[t]
    <2> HIDE DEF p
    <2> QED BY <1>1, <1>2 DEF Numbers, FlowTypes
  <1>6. \A t \in Streams \ {s} : client'[t] = client[t]
    BY <1>2 DEF SessionInv, SessionTypes
  <1>7. client'[s] = "closed" => stream[s].stage = "gone"
    <2> SUFFICES ASSUME client'[s] = "closed" PROVE stream[s].stage = "gone"
      OBVIOUS
    <2>1. p = "CLSE"
      <3> HIDE DEF p
      <3> QED BY <1>2 DEF SessionInv, SessionTypes
    <2>2. 1 \in 1 .. Len(toClient[s]) /\ toClient[s][1] = "CLSE"
      BY <1>2, <1>3, <2>1
    <2> QED BY <2>2 DEF SessionInv, ClosesLast
  <1> HIDE DEF p
  <1>8. FlowTypes' /\ Alone(s)
    BY <1>1, <1>2, <1>3, <1>5, <1>6 DEF FlowTypes, Alone
  <1>9. /\ Sent(s)' + got'[s] = Sent(s) + got[s] /\ Sent(s)' \in Nat /\ Sent(s) \in Nat
    BY <1>1, <1>4, <1>5 DEF Numbers, Sent
  <1>10. /\ Tokens(s)' <= 1 /\ (Untouched(s) => Untouched(s)')
    <2>1. CASE p = "WRTE"
      <3>1. /\ Count(toClient[s], "WRTE") = Count(toClient'[s], "WRTE") + 1 /\ owes'[s]
        BY <1>4, <1>5, <2>1
      <3>2. \A a, b, c, d, e \in Nat : a + b + c + d <= 1 /\ a = e + 1
                                          => a = 1 /\ b = 0 /\ c = 0 /\ d = 0 /\ e = 0
        OBVIOUS
      <3>3. /\ Count(toClient'[s], "WRTE") = 0 /\ Count(toProxy[s], "OKAY") = 0
            /\ One(stream[s].window) = 0 /\ Count(toClient[s], "WRTE") = 1
        BY <1>1, <1>4, <3>1, <3>2 DEF Numbers, FlowOf, Tokens, Sent
      <3>4. One(owes'[s]) = 1 BY <3>1 DEF One
      <3>5. Tokens(s)' <= 1 BY <1>2, <3>3, <3>4 DEF Tokens, Sent
      <3>6. ~Untouched(s)
        BY <1>1, <3>3, NoTokens DEF Untouched
      <3> QED BY <3>5, <3>6
    <2>2. CASE p # "WRTE"
      <3>1. /\ Count(toClient'[s], "WRTE") = Count(toClient[s], "WRTE")
            /\ owes'[s] = owes[s] /\ got'[s] = got[s]
        BY <1>1, <1>4, <1>5, <2>2 DEF Numbers
      <3>2. Tokens(s)' = Tokens(s)
        BY <1>2, <3>1 DEF Tokens, Sent
      <3>3. Tokens(s) <= 1 BY <1>1 DEF FlowOf
      <3> QED BY <1>2, <3>1, <3>2, <3>3 DEF Untouched
    <2> QED BY <2>1, <2>2
  <1>11. FlowOf(s)'
    <2>1. stream[s].stage = "open" =>
             written[s] = unread[s] + stream[s].queue + Sent(s)' + got'[s]
      BY <1>1, <1>5, <1>9 DEF FlowOf, Numbers, FlowTypes
    <2>2. stream[s].stage = "gone" =>
             /\ got'[s] + Sent(s)' <= written[s]
             /\ ~aborted[s] => written[s] = got'[s] + Sent(s)' /\ ~dialing[s]
      BY <1>1, <1>5, <1>9 DEF FlowOf, Numbers, FlowTypes
    <2> QED BY <1>1, <1>2, <1>7, <1>10, <2>1, <2>2 DEF FlowOf
  <1> QED BY <1>8, <1>11, AloneKeeps

-----------------------------------------------------------------------------
\* The pieces and permissions of every stream are accounted for in every
\* reachable state of a session.
THEOREM FlowInvHolds == AdbSpec => [](SessionInv /\ FlowInv)
  <1>1. AdbInit => FlowInv
    <2> SUFFICES ASSUME AdbInit PROVE FlowInv
      OBVIOUS
    <2>1. FlowTypes
      BY DEF AdbInit, FlowTypes
    <2>2. ASSUME NEW s \in Streams PROVE FlowOf(s)
      <3>1. /\ toClient[s] = <<>> /\ toProxy[s] = <<>> /\ owes[s] = FALSE
            /\ stream[s] = Fresh("none") /\ client[s] = "new"
            /\ written[s] = 0 /\ unread[s] = 0 /\ got[s] = 0
        BY DEF AdbInit
      <3>2. Tokens(s) = 0
        BY <3>1, CountOfNone DEF Tokens, Sent, One, Fresh
      <3> QED BY <3>1, <3>2 DEF FlowOf, Untouched, Fresh
    <2> QED BY <2>1, <2>2 DEF FlowInv
  <1>2. SessionInv /\ FlowInv /\ [AdbNext]_adbVars => FlowInv'
    <2> SUFFICES ASSUME SessionInv, FlowInv, [AdbNext]_adbVars PROVE FlowInv'
      OBVIOUS
    <2>1. CASE UNCHANGED adbVars
      BY <2>1 DEF adbVars, recordVars, peerVars, FlowInv, FlowTypes, FlowOf, Untouched, Tokens, Sent
    <2>2. CASE RestartCloses \/ SessionCloses
      BY <2>2, CloseSessionFlow
      DEF RestartCloses, SessionCloses, peerVars, SessionInv, SessionTypes
    <2>3. ASSUME NEW s \in Streams, ClientLosesLink(s) PROVE FlowInv'
      <3>1. /\ client' = [client EXCEPT ![s] = "lost"]
            /\ UNCHANGED <<stream, dialing, toClient, aborted, written, unread, deviceEnd,
                           toProxy, owes, got>>
        BY <2>3 DEF ClientLosesLink, recordVars
      <3>2. client'[s] = "lost" /\ \A t \in Streams \ {s} : client'[t] = client[t]
        BY <3>1 DEF SessionInv, SessionTypes
      <3>3. FlowOf(s)'
        BY <3>1, <3>2 DEF FlowInv, FlowOf, Untouched, Tokens, Sent
      <3>4. FlowTypes' /\ Alone(s)
        BY <3>1, <3>2 DEF FlowInv, FlowTypes, Alone
      <3> QED BY <3>3, <3>4, AloneKeeps
    <2> QED
      BY <2>1, <2>2, <2>3, PacketFlow, DialFlow, BackendFlow, DeviceFlow, ClientSendFlow,
         ClientReceiveFlow DEF AdbNext
  <1>3. AdbSpec => []FlowInv
    BY <1>1, <1>2, SessionInvHolds, PTL DEF AdbSpec
  <1> QED BY <1>3, SessionInvHolds, PTL

\* ADB's flow control: one unacknowledged WRTE per stream.
THEOREM SessionKeepsFlowControl == AdbSpec => []OneUnacknowledged
  <1>1. FlowInv => OneUnacknowledged
    BY DEF FlowInv, FlowOf, Tokens, Sent, Count, Places, One, OneUnacknowledged
  <1> QED BY <1>1, FlowInvHolds, PTL

\* Every variable of a session keeps its type.
THEOREM SessionKeepsTypes == AdbSpec => []AdbTypeOK
  <1>1. SessionInv /\ FlowInv => AdbTypeOK
    BY DEF SessionInv, SessionTypes, FlowInv, FlowTypes, AdbTypeOK
  <1> QED BY <1>1, FlowInvHolds, PTL

-----------------------------------------------------------------------------
(* The byte stream that a session implements.                              *)

\* The reason for which a stream was closed stands when the client knows of it.
ReasonStands == \A t \in Streams : client[t] = "closed" => aborted'[t] = aborted[t]

LEMMA HandlersKeepReason ==
    ASSUME SessionInv, FlowInv, NEW s \in Streams,
           PacketArrives(s) \/ DialSettles(s) \/ BackendEvent(s) \/ WriteDone(s)
    PROVE  ReasonStands
  <1> USE DEF recordVars
  <1>1. \A t \in Streams : client[t] = "closed" => stream[t].stage = "gone"
    BY DEF FlowInv, FlowOf
  <1>2. ASSUME CloseSession PROVE ReasonStands
    BY <1>1, <1>2 DEF CloseSession, Listed, ReasonStands, FlowInv, FlowTypes
  <1>3. ASSUME \A t \in Streams \ {s} : aborted'[t] = aborted[t], stream[s].stage # "gone"
        PROVE  ReasonStands
    BY <1>1, <1>3 DEF ReasonStands
  <1>4. ASSUME NEW before, NEW why, CloseStream(s, before, why)
        PROVE  \A t \in Streams \ {s} : aborted'[t] = aborted[t]
    BY <1>4 DEF CloseStream, FlowInv, FlowTypes
  <1>5. ASSUME NEW r, NEW flow, NEW before, Pump(s, r, flow, before)
        PROVE  \A t \in Streams \ {s} : aborted'[t] = aborted[t]
    BY <1>4, <1>5 DEF Pump
  <1>6. ASSUME Refuse(s) PROVE \A t \in Streams \ {s} : aborted'[t] = aborted[t]
    BY <1>6 DEF Refuse, FlowInv, FlowTypes
  <1>7. ASSUME aborted' = aborted PROVE ReasonStands
    BY <1>7 DEF ReasonStands
  <1>8. CASE PacketArrives(s)
    <2>1. CASE OnOpen(s)
      BY <1>3, <1>6, <1>7, <2>1, OpenIsFirst DEF OnOpen
    <2>2. CASE OnWrite(s)
      BY <1>3, <1>4, <1>7, <2>2 DEF OnWrite
    <2>3. CASE OnOkay(s)
      BY <1>3, <1>5, <2>3 DEF OnOkay, Listed
    <2>4. CASE OnPeerClose(s)
      BY <1>3, <1>4, <2>4 DEF OnPeerClose, Listed
    <2>5. CASE Dropped(s)
      BY <1>7, <2>5 DEF Dropped
    <2> QED BY <1>8, <2>1, <2>2, <2>3, <2>4, <2>5 DEF PacketArrives
  <1>9. CASE DialSettles(s)
    <2>1. CASE OpenResolves(s)
      <3>1. CASE link = "closed" \/ s \notin Listed
        BY <1>7, <2>1, <3>1 DEF OpenResolves
      <3>2. CASE ~(link = "closed" \/ s \notin Listed)
        BY <1>3, <1>5, <2>1, <3>2 DEF OpenResolves, Listed
      <3> QED BY <3>1, <3>2
    <2>2. CASE OpenRejects(s)
      BY <1>3, <1>6, <1>7, <2>2 DEF OpenRejects, Listed
    <2>3. CASE DeviceUnavailable(s)
      BY <1>2, <2>3 DEF DeviceUnavailable
    <2> QED BY <1>9, <2>1, <2>2, <2>3 DEF DialSettles
  <1>10. CASE BackendEvent(s) \/ WriteDone(s)
    <2>0. stream[s].stage = "open"
      BY <1>10 DEF BackendEvent, BackendData, BackendEnds, BackendError, WriteDone,
                   SessionInv, OpensOnce
    <2>1. CASE BackendData(s)
      BY <1>3, <1>5, <2>0, <2>1 DEF BackendData
    <2>2. CASE BackendEnds(s)
      BY <1>3, <1>5, <2>0, <2>2 DEF BackendEnds
    <2>3. CASE BackendError(s)
      BY <1>3, <1>4, <2>0, <2>3 DEF BackendError
    <2>4. CASE WriteDone(s)
      BY <1>3, <1>4, <1>7, <2>0, <2>4 DEF WriteDone
    <2> QED BY <1>10, <2>1, <2>2, <2>3, <2>4 DEF BackendEvent
  <1> QED BY <1>8, <1>9, <1>10

\* What the client sees of a stream changes only with the client.
LEMMA SameOutcome ==
    ASSUME client' = client, ReasonStands
    PROVE  Outcome' = Outcome
  BY DEF Outcome, ReasonStands

\* The client's view of the one stream it hears of.
LEMMA OneOutcome ==
    ASSUME NEW s \in Streams, \A t \in Streams \ {s} : client'[t] = client[t],
           aborted' = aborted, NEW view,
           view = CASE client'[s] = "lost" -> "aborted"
                    [] client'[s] = "closed" -> IF aborted[s] THEN "aborted" ELSE "complete"
                    [] OTHER -> "open"
    PROVE  Outcome' = [Outcome EXCEPT ![s] = view]
  BY DEF Outcome

LEMMA ReceiveRefines ==
    ASSUME SessionInv, FlowInv, NEW s \in Streams, ClientReceives(s)
    PROVE  Bytes!FlowNext \/ UNCHANGED <<written, got, Outcome>>
  <1> DEFINE p == Head(toClient[s])
  <1>1. Numbers(s) /\ FlowOf(s)
    BY FlowNumbers
  <1>2. /\ client[s] \in {"opening", "open"} /\ toClient[s] # <<>>
        /\ client' = [client EXCEPT ![s] = CASE p = "CLSE" -> "closed"
                                             [] p = "OKAY" -> "open"
                                             [] OTHER -> @]
        /\ got' = [got EXCEPT ![s] = IF p = "WRTE" THEN got[s] + 1 ELSE got[s]]
        /\ UNCHANGED <<aborted, written>>
    BY DEF ClientReceives
  <1>3. /\ toClient[s] \in Seq(Packets) /\ Outcome[s] = "open"
        /\ Outcome \in [Streams -> {"open", "complete", "aborted"}]
    BY <1>2 DEF SessionInv, SessionTypes, Outcome
  <1>4. Count(toClient[s], "WRTE") = Count(Tail(toClient[s]), "WRTE")
                                      + (IF p = "WRTE" THEN 1 ELSE 0)
        /\ Count(Tail(toClient[s]), "WRTE") \in Nat
    <2>1. Tail(toClient[s]) \in Seq(Packets) BY <1>2, <1>3
    <2> QED BY <1>2, <1>3, <2>1, CountOfRest, CountIsNatural
  <1>5. CASE p = "CLSE"
    <2>1. 1 \in 1 .. Len(toClient[s]) /\ toClient[s][1] = "CLSE"
      BY <1>2, <1>3, <1>5
    <2>2. Len(toClient[s]) = 1 /\ stream[s].stage = "gone"
      BY <2>1 DEF SessionInv, ClosesLast
    <2>3. Sent(s) = 0
      <3>1. Places(toClient[s], "WRTE") = {}
        <4>1. DOMAIN toClient[s] = {1} BY <1>3, <2>2
        <4> QED BY <2>1, <4>1 DEF Places
      <3> QED BY <3>1, FS_EmptySet DEF Sent, Count
    <2>4. got' = got /\ client'[s] = "closed"
          /\ \A t \in Streams \ {s} : client'[t] = client[t]
      <3> HIDE DEF p
      <3> QED BY <1>2, <1>5 DEF SessionInv, SessionTypes, FlowInv, FlowTypes
    <2>5. CASE aborted[s]
      <3>1. Outcome' = [Outcome EXCEPT ![s] = "aborted"]
        BY <1>2, <2>4, <2>5, OneOutcome
      <3>2. /\ {s} \in SUBSET {f \in Streams : Outcome[f] = "open"}
            /\ Outcome' = [f \in Streams |-> IF f \in {s} THEN "aborted" ELSE Outcome[f]]
        BY <1>3, <3>1
      <3>3. Bytes!Abort BY <1>2, <2>4, <3>2 DEF Bytes!Abort
      <3> QED BY <3>3 DEF Bytes!FlowNext
    <2>6. CASE ~aborted[s]
      <3>1. Outcome' = [Outcome EXCEPT ![s] = "complete"]
        BY <1>2, <2>4, <2>6, OneOutcome
      <3>2. got[s] = written[s]
        BY <1>1, <2>2, <2>3, <2>6 DEF FlowOf, Numbers
      <3>3. Bytes!Complete(s) BY <1>2, <1>3, <2>4, <3>1, <3>2 DEF Bytes!Complete
      <3> QED BY <3>3 DEF Bytes!FlowNext
    <2> QED BY <2>5, <2>6
  <1>6. CASE p # "CLSE"
    <2>1. Outcome' = Outcome
      <3>1. client'[s] \in {"opening", "open"} /\ \A t \in Streams \ {s} : client'[t] = client[t]
        <4> HIDE DEF p
        <4> QED BY <1>2, <1>6 DEF SessionInv, SessionTypes
      <3>2. Outcome' = [Outcome EXCEPT ![s] = "open"]
        BY <1>2, <3>1, OneOutcome
      <3> QED BY <1>3, <3>2
    <2>2. CASE p = "WRTE"
      <3>1. Sent(s) > 0 /\ Sent(s) \in Nat
        BY <1>4, <2>2 DEF Sent
      <3>2. got[s] < written[s]
        <4>1. ~Untouched(s)
          BY <1>1, <3>1, NoTokens DEF Untouched, Sent
        <4>2. stream[s].stage \in {"open", "gone"}
          BY <1>1, <4>1 DEF FlowOf, Numbers, StreamRecord
        <4> QED BY <1>1, <3>1, <4>2 DEF FlowOf, Numbers
      <3>3. Bytes!Receive(s)
        BY <1>2, <1>3, <2>1, <2>2, <3>2 DEF Bytes!Receive
      <3> QED BY <3>3 DEF Bytes!FlowNext
    <2>3. CASE p # "WRTE"
      BY <1>2, <2>1, <2>3 DEF FlowInv, FlowTypes
    <2> QED BY <2>2, <2>3
  <1> QED BY <1>5, <1>6

\* The client gives a stream up.
LEMMA LossRefines ==
    ASSUME SessionInv, NEW s \in Streams, client[s] \in {"opening", "open"},
           client' = [client EXCEPT ![s] = "lost"], UNCHANGED <<aborted, written, got>>
    PROVE  Bytes!FlowNext
  <1>1. client'[s] = "lost" /\ \A t \in Streams \ {s} : client'[t] = client[t]
    BY DEF SessionInv, SessionTypes
  <1>2. Outcome' = [Outcome EXCEPT ![s] = "aborted"]
    BY <1>1, OneOutcome
  <1>3. Outcome[s] = "open" /\ DOMAIN Outcome = Streams
    BY DEF Outcome
  <1>4. /\ {s} \in SUBSET {f \in Streams : Outcome[f] = "open"}
        /\ Outcome' = [f \in Streams |-> IF f \in {s} THEN "aborted" ELSE Outcome[f]]
    BY <1>2, <1>3 DEF Outcome
  <1>5. Bytes!Abort BY <1>4 DEF Bytes!Abort
  <1> QED BY <1>5 DEF Bytes!FlowNext

LEMMA StepRefines ==
    ASSUME SessionInv, FlowInv, [AdbNext]_adbVars
    PROVE  Bytes!FlowNext \/ UNCHANGED <<written, got, Outcome>>
  <1> USE DEF recordVars, peerVars
  <1>1. CASE UNCHANGED adbVars
    BY <1>1 DEF adbVars, Outcome
  <1>2. CASE RestartCloses \/ SessionCloses
    <2>1. CloseSession /\ UNCHANGED <<written, got, client>>
      BY <1>2 DEF RestartCloses, SessionCloses
    <2>2. ReasonStands
      BY <2>1 DEF CloseSession, Listed, ReasonStands, FlowInv, FlowTypes, FlowOf
    <2> QED BY <2>1, <2>2, SameOutcome
  <1>3. ASSUME NEW s \in Streams, OpenResolves(s)
        PROVE  Bytes!FlowNext \/ UNCHANGED <<written, got, Outcome>>
    <2>1. client' = client /\ got' = got /\ ReasonStands
      BY <1>3, HandlersKeepReason DEF OpenResolves, DialSettles
    <2>2. Outcome' = Outcome BY <2>1, SameOutcome
    <2>3. written[s] = 0 /\ written \in [Streams -> Nat]
      BY <1>3 DEF OpenResolves, FlowInv, FlowOf, Untouched, FlowTypes
    <2>4. PICK n \in 0 .. 1 : written' = [written EXCEPT ![s] = n]
      BY <1>3 DEF OpenResolves
    <2>5. CASE n = 0
      <3>1. written' = written BY <2>3, <2>4, <2>5
      <3> QED BY <2>1, <2>2, <3>1
    <2>6. CASE n = 1
      <3>1. Bytes!Send(s) BY <2>1, <2>2, <2>3, <2>4, <2>6 DEF Bytes!Send
      <3> QED BY <3>1 DEF Bytes!FlowNext
    <2> QED BY <2>4, <2>5, <2>6
  <1>4. ASSUME NEW s \in Streams, PacketArrives(s) \/ OpenRejects(s) \/ DeviceUnavailable(s)
                                    \/ BackendEvent(s) \/ WriteDone(s)
        PROVE  UNCHANGED <<written, got, Outcome>>
    <2>1. UNCHANGED <<written, got, client>>
      BY <1>4 DEF PacketArrives, OnOpen, OnWrite, OnOkay, OnPeerClose, Dropped, OpenRejects,
                  DeviceUnavailable, BackendEvent, BackendData, BackendEnds, BackendError, WriteDone
    <2>2. ReasonStands
      BY <1>4, HandlersKeepReason DEF DialSettles
    <2> QED BY <2>1, <2>2, SameOutcome
  <1>5. ASSUME NEW s \in Streams, DeviceWrites(s) PROVE Bytes!FlowNext
    <2>1. /\ written' = [written EXCEPT ![s] = @ + 1] /\ got' = got
          /\ client' = client /\ ReasonStands
      BY <1>5 DEF DeviceWrites, ReasonStands
    <2>2. Bytes!Send(s) BY <2>1, SameOutcome DEF Bytes!Send
    <2> QED BY <2>2 DEF Bytes!FlowNext
  <1>6. ASSUME NEW s \in Streams, DeviceHangsUp(s) \/ ClientWrites(s) \/ ClientAcks(s)
        PROVE  UNCHANGED <<written, got, Outcome>>
    BY <1>6 DEF DeviceHangsUp, ClientWrites, ClientAcks, ClientSends, Outcome
  <1>7. ASSUME NEW s \in Streams, ClientOpens(s) PROVE UNCHANGED <<written, got, Outcome>>
    <2>1. /\ client' = [client EXCEPT ![s] = "opening"] /\ client[s] = "new"
          /\ UNCHANGED <<written, got, aborted>>
      BY <1>7 DEF ClientOpens, ClientSends
    <2>2. client'[s] = "opening" /\ \A t \in Streams \ {s} : client'[t] = client[t]
      BY <2>1 DEF SessionInv, SessionTypes
    <2>3. Outcome' = [Outcome EXCEPT ![s] = "open"]
      BY <2>1, <2>2, OneOutcome
    <2>4. Outcome[s] = "open" /\ DOMAIN Outcome = Streams
      BY <2>1 DEF Outcome
    <2>5. Outcome' = Outcome
      BY <2>3, <2>4 DEF Outcome
    <2> QED BY <2>1, <2>5
  <1>8. ASSUME NEW s \in Streams, ClientCloses(s) \/ ClientLosesLink(s) PROVE Bytes!FlowNext
    BY <1>8, LossRefines DEF ClientCloses, ClientLosesLink, ClientSends
  <1> QED
    BY <1>1, <1>2, <1>3, <1>4, <1>5, <1>6, <1>7, <1>8, ReceiveRefines DEF AdbNext, DialSettles

\* A session implements the byte stream of each of its streams, for any number of
\* streams, any limit and any amount of data.
THEOREM SessionIsByteStream == AdbSpec => ImplementsByteStream
  <1>1. AdbInit => Bytes!FlowInit
    BY DEF AdbInit, Bytes!FlowInit, Outcome
  <1>2. SessionInv /\ FlowInv /\ [AdbNext]_adbVars => [Bytes!FlowNext]_(Bytes!flowVars)
    BY StepRefines DEF Bytes!flowVars
  <1> QED BY <1>1, <1>2, FlowInvHolds, PTL DEF AdbSpec, ImplementsByteStream, Bytes!FlowSpec

=============================================================================
