-------------------------- MODULE SecureTransport --------------------------
(***************************************************************************)
(* The peer-to-peer transports of a validator (internal/network): the      *)
(* authenticated one (secure_transport.go, peer_auth.go) and the plain TCP *)
(* one (tcp_transport.go).  They differ in what a connection goes through  *)
(* before its payload is delivered; the scene of a behaviour says which    *)
(* one runs.                                                               *)
(*                                                                         *)
(* A goroutine that sends is a record of sends: SendToAgent and Broadcast  *)
(* visit their peers one after the other, each over a connection of its    *)
(* own, because peerConnections is never assigned.  A connection is a      *)
(* record of conns from Dial until its handler is done with it; a handler  *)
(* that answers a message by sending keeps its slot of acceptLoop (slot).  *)
(* Time is counted in seconds, the resolution of a handshake's timestamp;  *)
(* the nodes' clocks differ by the skew of the scene.                      *)
(***************************************************************************)
EXTENDS Integers, FiniteSets, Sequences, FiniteSetsExt

CONSTANTS
    Agents,             \* agent ids, numbered from 1
    Scenes,             \* transports, workloads and bounds
    MaxHandshakeAge,    \* 300 seconds
    ReplayWindow,       \* replayWindow, 60 seconds
    FailureThreshold,   \* failureThreshold, 5
    ErrorThreshold      \* connection errors a peer is allowed, 10

ASSUME TransportAssumption ==
    /\ Agents \subseteq Nat \ {0}
    /\ {MaxHandshakeAge, ReplayWindow, ErrorThreshold} \subseteq Nat
    /\ FailureThreshold \in Nat \ {0, 1}

VARIABLES
    scene,              \* the scene
    now,                \* seconds passed
    sends,              \* sending goroutines
    conns,              \* connections
    banned,             \* per node: peerReputation, the peers Banned
    failed,             \* per node and peer: FailedAttempts
    replayProtection,   \* per node and peer: last handshake timestamp, if any
    connectionErrors,   \* per node and peer
    lastDial,           \* per node and peer: when the last handshake was made
    faults              \* lost and broken connections so far

transportVars == <<scene, sends, conns, banned, failed, replayProtection,
                   connectionErrors, lastDial, faults>>

NoAgent == 0

Clock(n) == now + scene.skew[n]

(* A table with one entry per node and peer. *)
PerPeer(v) == [n \in Agents |-> [m \in Agents |-> v]]

(* NewSecureTCPTransport and NewPeerAuth; RegisterTrustedPeer has run for    *)
(* the configured keys (scene.trusted).                                      *)
TransportInit ==
    /\ scene \in Scenes
    /\ now = 0
    /\ sends = {} /\ conns = {}
    /\ banned = [n \in Agents |-> {}]
    /\ failed = PerPeer(0)
    /\ replayProtection = PerPeer(<<>>)
    /\ connectionErrors = PerPeer(0)
    /\ lastDial = PerPeer(<<>>)
    /\ faults = 0

-----------------------------------------------------------------------------
(* Sending. *)

(* SendToAgent goes to a peer with an address, Broadcast to all of them. *)
Targets(n, env) ==
    IF env.to = NoAgent THEN scene.addrs[n] ELSE {env.to} \cap scene.addrs[n]

(* SendEnvelope, in a goroutine that then continues with then, and that     *)
(* holds a slot of its node if it is a connection's handler.                *)
Sender(n, env, then, slot) ==
    [node |-> n, env |-> env, todo |-> Targets(n, env), to |-> NoAgent,
     then |-> then, slot |-> slot]

(* The sends after goroutine s is done with peer m: it goes on to the next  *)
(* one, and ends after the last unless it has something to do then.         *)
Advance(s, m) ==
    (sends \ {s}) \cup
    (IF s.todo = {m} /\ s.then = "end" THEN {}
     ELSE {[s EXCEPT !.todo = @ \ {m}, !.to = NoAgent]})

(* acceptLoop: connections being handled, by connSlots. *)
Slots(n) ==
    Cardinality({c \in conns : c.to = n})
      + Cardinality({s \in sends : s.node = n /\ s.slot})

SlotFree(n) == Slots(n) < scene.maxConns

BanPeer(n, m) == banned' = [banned EXCEPT ![n] = @ \cup {m}]

(* recordConnectionError. *)
RecordConnectionError(n, m) ==
    /\ connectionErrors' = [connectionErrors EXCEPT ![n][m] = @ + 1]
    /\ IF connectionErrors[n][m] + 1 > ErrorThreshold THEN BanPeer(n, m)
       ELSE UNCHANGED banned

(* sendWithHandshake up to the handshake: the connection is accepted and    *)
(* the handshake, dated by the sender's clock, is written.  In a spaced     *)
(* scene messages to one peer are at least a second apart.                  *)
Dial(s, m) ==
    /\ scene.kind = "secure" /\ s.to = NoAgent /\ m \in s.todo /\ SlotFree(m)
    /\ scene.spaced => lastDial[s.node][m] # <<now>>
    /\ sends' = (sends \ {s}) \cup {[s EXCEPT !.to = m]}
    /\ conns' = conns \cup {[from |-> s.node, to |-> m, env |-> s.env,
                             ts |-> Clock(s.node), at |-> "hello"]}
    /\ lastDial' = [lastDial EXCEPT ![s.node][m] = <<now>>]
    /\ UNCHANGED <<scene, now, banned, failed, replayProtection,
                   connectionErrors, faults>>

(* sendWithHandshake: the peer cannot be dialled, or closes the connection  *)
(* at once because its slots are taken, which fails the TLS handshake.      *)
DialFails(s, m) ==
    /\ scene.kind = "secure" /\ s.to = NoAgent /\ m \in s.todo
    /\ SlotFree(m) => faults < scene.faults
    /\ faults' = IF SlotFree(m) THEN faults + 1 ELSE faults
    /\ RecordConnectionError(s.node, m)
    /\ sends' = Advance(s, m)
    /\ UNCHANGED <<scene, now, conns, failed, replayProtection, lastDial>>

(* sendToAddr: no handshake.  A connection that finds no slot, or breaks,   *)
(* loses its payload, and nobody counts the error.                          *)
SendPlain(s, m) ==
    /\ scene.kind = "tcp" /\ m \in s.todo
    /\ sends' = Advance(s, m)
    /\ \/ /\ SlotFree(m)
          /\ conns' = conns \cup {[from |-> s.node, to |-> m, env |-> s.env,
                                   ts |-> 0, at |-> "payload"]}
          /\ UNCHANGED faults
       \/ /\ SlotFree(m) => faults < scene.faults
          /\ faults' = IF SlotFree(m) THEN faults + 1 ELSE faults
          /\ UNCHANGED conns
    /\ UNCHANGED <<scene, now, banned, failed, replayProtection,
                   connectionErrors, lastDial>>

-----------------------------------------------------------------------------
(* The handshake. *)

RefusedEarly_AnyRecent(c) ==
    \/ c.from \in banned[c.to]
    \/ /\ replayProtection[c.to][c.from] # <<>>
       /\ Clock(c.to) - replayProtection[c.to][c.from][1] < ReplayWindow

(* VerifyHandshake before the signature: a banned peer, an old timestamp,   *)
(* the timestamp of the last handshake again, or a peer without a key.      *)
RefusedEarly(c) ==
    LET n == c.to
        m == c.from
    IN  \/ m \in banned[n]
        \/ Clock(n) - c.ts > MaxHandshakeAge
        \/ /\ replayProtection[n][m] = <<c.ts>>
           /\ Clock(n) - c.ts < ReplayWindow
        \/ scene.trusted[n] # {} /\ m \notin scene.trusted[n]

(* VerifyHandshake: the key the peer signs with is not the one registered.  *)
BadSignature(c) == scene.trusted[c.to] # {} /\ c.from \in scene.rekeyed

Authentic(c) == ~RefusedEarly(c) /\ ~BadSignature(c)

recordFailedAttempt(n, m) ==
    /\ failed' = [failed EXCEPT ![n][m] = @ + 1]
    /\ IF failed[n][m] + 1 >= FailureThreshold THEN BanPeer(n, m)
       ELSE UNCHANGED banned

recordSuccessfulConnection(n, m) ==
    failed' = [failed EXCEPT ![n][m] = 0] /\ UNCHANGED banned

(* VerifyHandshake of what connection c carries. *)
VerifyHandshake(c) ==
    \/ /\ RefusedEarly(c)
       /\ UNCHANGED <<failed, banned, replayProtection>>
    \/ /\ ~RefusedEarly(c) /\ BadSignature(c)
       /\ recordFailedAttempt(c.to, c.from)
       /\ UNCHANGED replayProtection
    \/ /\ Authentic(c)
       /\ recordSuccessfulConnection(c.to, c.from)
       /\ replayProtection' = [replayProtection EXCEPT ![c.to][c.from] = <<c.ts>>]

(* sendAuthResponse.  Nobody reads it if the sender has given up. *)
sendAuthResponse(c, accepted) ==
    conns' = (conns \ {c}) \cup
             (IF c.at = "orphan" THEN {}
              ELSE {[c EXCEPT !.at = IF accepted THEN "accepted" ELSE "rejected"]})

(* authenticatePeer. *)
Authenticate(c) ==
    /\ c.at \in {"hello", "orphan"}
    /\ VerifyHandshake(c)
    /\ sendAuthResponse(c, Authentic(c))
    /\ UNCHANGED <<scene, now, sends, connectionErrors, lastDial, faults>>

(* The goroutine that waits for the response on connection c. *)
SenderOf(c) ==
    CHOOSE s \in sends : s.node = c.from /\ s.to = c.to /\ s.env = c.env

(* sendWithHandshake after the response: a rejection bans the peer,         *)
(* otherwise sendOnConn writes the payload and the connection is closed.    *)
ReadResponse(c) ==
    /\ c.at \in {"accepted", "rejected"}
    /\ sends' = Advance(SenderOf(c), c.to)
    /\ conns' = (conns \ {c}) \cup
                (IF c.at = "accepted" THEN {[c EXCEPT !.at = "payload"]} ELSE {})
    /\ IF c.at = "rejected" THEN BanPeer(c.from, c.to) ELSE UNCHANGED banned
    /\ UNCHANGED <<scene, now, failed, replayProtection, connectionErrors,
                   lastDial, faults>>

(* sendWithHandshake: secureRespReadTimeout passes.  A handshake that was   *)
(* written may still be read.                                               *)
GiveUp(c) ==
    /\ c.at \in {"hello", "accepted", "rejected"} /\ faults < scene.faults
    /\ sends' = Advance(SenderOf(c), c.to)
    /\ conns' = (conns \ {c}) \cup
                (IF c.at = "hello" THEN {[c EXCEPT !.at = "orphan"]} ELSE {})
    /\ faults' = faults + 1
    /\ UNCHANGED <<scene, now, banned, failed, replayProtection,
                   connectionErrors, lastDial>>

(* handleConn: the connection breaks, or secureMsgReadTimeout passes,       *)
(* before the payload is read.                                              *)
Break(c) ==
    /\ c.at = "payload" /\ faults < scene.faults
    /\ conns' = conns \ {c} /\ faults' = faults + 1
    /\ UNCHANGED <<scene, now, sends, banned, failed, replayProtection,
                   connectionErrors, lastDial>>

TransportNext ==
    \/ \E s \in sends : \E m \in s.todo :
          Dial(s, m) \/ DialFails(s, m) \/ SendPlain(s, m)
    \/ \E c \in conns :
          Authenticate(c) \/ ReadResponse(c) \/ GiveUp(c) \/ Break(c)

=============================================================================
