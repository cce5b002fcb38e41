---------------------------- MODULE GossipProofs ----------------------------
(***************************************************************************)
(* What holds of the gossip of any number of agents, in any scene and with *)
(* any clocks: a goroutine that is answered is there to read the answer,   *)
(* a nonce names one envelope, an envelope is handled at most once in the  *)
(* life of a process, and a finalized block carries a quorum of votes that *)
(* were cast for it.                                                       *)
(***************************************************************************)
EXTENDS Gossip, TLAPS

Kinds == (UNION {s.kinds : s \in Scenes}) \cup {"proposal", "vote"}
Block == [id : Nat, height : Nat, parent : Nat, proposer : Nat,
          root : [Nodes -> Nat]]
Recipients == Agents \cup {NoAgent}
Envelope == [from : Agents, nonce : Nat, ts : Int, kind : Kinds, hw : Nat,
             to : Recipients, blk : Block]
Sending == [node : Agents, env : Envelope, todo : SUBSET Agents,
            to : Agents \cup {NoAgent}, then : {"end", "vote"},
            slot : {TRUE, FALSE}]
Stages == {"hello", "orphan", "accepted", "rejected", "payload"}
Conn == [from : Agents, to : Agents, env : Envelope, ts : Int, at : Stages]
Slot == [cand : Block, votes : SUBSET Agents, stage : SUBSET Agents,
         stale : SUBSET Agents, voted : [Nodes -> Nat],
         flagged : SUBSET Agents]
Entry == [blk : Block, sigs : SUBSET Agents]
Remembered == [from : Agents, nonce : Nat, at : Int]

(* Types of what the theorems speak of. *)
NetTypes ==
    /\ scene \in Scenes /\ now \in Nat
    /\ sends \subseteq Sending /\ conns \subseteq Conn
    /\ nonces \in [Agents -> Nat] /\ machine \in [Agents -> Nat]
CacheTypes ==
    /\ seen \in [Agents -> SUBSET Remembered]
    /\ handled \in [Agents -> [Agents -> [1..MaxNonce -> Nat]]]
VoteTypes ==
    /\ engine \in [Agents -> [1..scene.height -> Slot]]
    /\ chain \in [Agents -> Seq(Entry)]
    /\ slashed \in [Agents -> [Nodes -> Nat]]
    /\ proposals \in Nat

(* The envelopes that goroutines send and connections carry. *)
InFlight == {s.env : s \in sends} \cup {c.env : c \in conns}

(* The goroutine of a connection waits for the peer's response. *)
Waits(c) == c.at \in {"hello", "accepted", "rejected"}
Serves(s, c) == s.env = c.env /\ s.node = c.from /\ s.to = c.to

(* An envelope has one goroutine, which waits on one connection at a time.  *)
SendersInv ==
    /\ \A s, t \in sends : s.env = t.env => s = t
    /\ \A s \in sends : s.then = "vote" => s.env.kind = "proposal"
    /\ \A s \in sends : s.to = NoAgent \/ s.to \in s.todo
    /\ \A c \in conns : Waits(c) => \E s \in sends : Serves(s, c)
    /\ \A c, d \in conns : Waits(c) /\ Waits(d) /\ c.env = d.env => c = d
    /\ scene.kind = "tcp" => \A c \in conns : ~Waits(c)

(* A nonce names one envelope, made already. *)
NoncesInv ==
    /\ \A e \in InFlight : e.nonce <= nonces[e.from]
    /\ \A e, f \in InFlight : e.from = f.from /\ e.nonce = f.nonce => e = f

(* Node n still remembers envelope e, or it is too old for n. *)
Remembers(n, e) ==
    \/ \E x \in seen[n] : /\ x.from = e.from /\ x.nonce = e.nonce
                          /\ x.at >= e.ts - FreshWindow
    \/ Clock(n) > e.ts + FreshWindow

(* An envelope that was handled was made, and will be refused. *)
ReplayInv ==
    /\ \A n, m \in Agents : \A k \in 1..MaxNonce :
          handled[n][m][k] > 0 => k <= nonces[m]
    /\ \A n \in Agents, e \in InFlight :
          e.nonce \in 1..MaxNonce /\ handled[n][e.from][e.nonce] > 0 =>
              Remembers(n, e)

(* An approval on its way, or counted by an engine, was cast. *)
Sound(e) ==
    /\ e.kind \in {"proposal", "vote"} => e.blk.height \in 1..scene.height
    /\ e.kind = "vote" => <<e.from, e.blk.id>> \in cast
Counted(e, H, C) ==
    \A h \in 1..H : \A v \in e[h].votes : <<v, e[h].cand.id>> \in C
VotesInv ==
    /\ \A e \in InFlight : Sound(e)
    /\ \A n \in Agents : Counted(engine[n], scene.height, cast)

(* The blocks of chain c have a quorum of the votes C. *)
Certified(c, C) ==
    \A h \in 1..Len(c) :
        /\ Cardinality(c[h].sigs) >= requiredForFinality
        /\ \A v \in c[h].sigs : <<v, c[h].blk.id>> \in C

NetInv == NetTypes /\ SendersInv /\ NoncesInv
GossipInv ==
    /\ NetInv /\ CacheTypes /\ VoteTypes /\ ReplayInv /\ VotesInv
    /\ EnvelopeHandledOnce /\ QuorumBehindBlock

-----------------------------------------------------------------------------
(* The transport.                                                          *)

(* What a scene is made of. *)
LEMMA SceneTypes ==
    ASSUME scene \in Scenes
    PROVE  /\ scene.skew \in [Agents -> Int]
           /\ scene.addrs \in [Agents -> SUBSET Agents]
           /\ scene.kinds \subseteq Kinds
           /\ scene.kinds \cap {"proposal", "vote"} = {}
           /\ scene.height \in Nat
  BY Zenon, ScenesAssumption DEF Kinds

(* 0 is no agent. *)
LEMMA NobodyIsZero == NoAgent \notin Agents /\ Agents \subseteq Nat
  BY Zenon, TransportAssumption DEF NoAgent

(* Every envelope in flight has the type of one. *)
LEMMA InFlightTypes ==
    ASSUME NetTypes
    PROVE  InFlight \subseteq Envelope
  BY Zenon DEF NetTypes, InFlight, Sending, Conn

(* A goroutine that is done with a peer keeps its envelope. *)
LEMMA AdvanceSends ==
    ASSUME sends \subseteq Sending, NEW s \in sends, NEW m,
           NEW t \in Advance(s, m)
    PROVE  /\ t \in Sending
           /\ \E u \in sends : t.env = u.env /\ t.then = u.then /\ t.node = u.node
           /\ \/ t \in sends /\ t # s
              \/ t.env = s.env /\ t.to = NoAgent
  <1>1. CASE t \in sends \ {s}
    BY Zenon, <1>1
  <1>2. CASE t = [s EXCEPT !.todo = @ \ {m}, !.to = NoAgent]
    <2>1. s \in Sending
      BY Zenon
    <2>2. t \in Sending /\ t.env = s.env /\ t.then = s.then /\ t.node = s.node
          /\ t.to = NoAgent
      BY Zenon, <1>2, <2>1 DEF Sending
    <2> QED
      BY Zenon, <2>2
  <1> QED
    BY Zenon, <1>1, <1>2 DEF Advance

(* Goroutine s goes on to its next peer, and no connection waits for it. *)
LEMMA AdvanceSenders ==
    ASSUME NetTypes, SendersInv, NEW s \in sends, NEW m,
           sends' = Advance(s, m), scene' = scene,
           \A d \in conns' : Waits(d) => d \in conns /\ d.env # s.env
    PROVE  SendersInv' /\ sends' \subseteq Sending
  <1> USE DEF NetTypes
  <1>0. \A c : Waits(c)' <=> Waits(c)
    BY Zenon DEF Waits
  <1>1. sends' \subseteq Sending
    BY Zenon, AdvanceSends
  <1>2. ASSUME NEW t \in sends', NEW u \in sends', t.env = u.env
        PROVE  t = u
    <2>1. CASE t.env = s.env
      <3>1. ASSUME NEW w \in sends', w.env = s.env
            PROVE  w = [s EXCEPT !.todo = @ \ {m}, !.to = NoAgent]
        BY Zenon, <3>1 DEF Advance, SendersInv
      <3> QED
        BY Zenon, <2>1, <1>2, <3>1
    <2>2. CASE t.env # s.env
      <3>1. t \in sends /\ u \in sends
        BY Zenon, <1>2, <2>2, AdvanceSends
      <3> QED
        BY Zenon, <3>1, <1>2 DEF SendersInv
    <2> QED
      BY Zenon, <2>1, <2>2
  <1>3. ASSUME NEW t \in sends', t.then = "vote"
        PROVE  t.env.kind = "proposal"
    <2>1. PICK u \in sends : t.env = u.env /\ t.then = u.then
      BY SMTT(30), AdvanceSends
    <2> QED
      BY Zenon, <2>1, <1>3 DEF SendersInv
  <1>4. ASSUME NEW c \in conns', Waits(c)
        PROVE  \E t \in sends' : Serves(t, c)
    <2>1. c \in conns /\ c.env # s.env
      BY Zenon, <1>4
    <2>2. PICK t \in sends : Serves(t, c)
      BY Zenon, <2>1, <1>4 DEF SendersInv
    <2>3. t # s
      BY Zenon, <2>1, <2>2 DEF Serves
    <2> QED
      BY Zenon, <2>2, <2>3 DEF Advance
  <1>5. ASSUME NEW c \in conns', NEW d \in conns', Waits(c), Waits(d),
               c.env = d.env
        PROVE  c = d
    BY Zenon, <1>5 DEF SendersInv
  <1>6. scene.kind = "tcp" => \A c \in conns' : ~Waits(c)
    BY Zenon DEF SendersInv
  <1>7. \A t, c : Serves(t, c)' <=> Serves(t, c)
    BY Zenon DEF Serves
  <1>8. \A t \in sends' : t.to = NoAgent \/ t.to \in t.todo
    BY SMTT(30), AdvanceSends DEF SendersInv
  <1> QED
    BY Zenon, <1>0, <1>1, <1>2, <1>3, <1>4, <1>5, <1>6, <1>7, <1>8 DEF SendersInv

(* What a step of the transport makes of goroutines and connections. *)
Carries ==
    /\ scene' = scene /\ sends' \subseteq Sending /\ conns' \subseteq Conn
    /\ SendersInv' /\ InFlight' \subseteq InFlight

(* The goroutine a response is for is there to read it. *)
LEMMA SenderIsThere ==
    ASSUME SendersInv, NEW c \in conns, Waits(c)
    PROVE  SenderOf(c) \in sends /\ SenderOf(c).env = c.env
  <1>1. PICK s \in sends : s.node = c.from /\ s.to = c.to /\ s.env = c.env
    BY Zenon DEF SendersInv, Serves
  <1> QED
    BY Zenon, <1>1 DEF SenderOf

(* Connections that keep their envelopes carry nothing new. *)
LEMMA NothingNew ==
    ASSUME \A t \in sends' : \E u \in sends : t.env = u.env,
           \A c \in conns' : c.env \in InFlight
    PROVE  InFlight' \subseteq InFlight
  BY Zenon DEF InFlight

(* Dial opens a connection for the goroutine, which now waits on it. *)
LEMMA DialCarries ==
    ASSUME NetTypes, SendersInv, NEW s \in sends, NEW m \in s.todo, Dial(s, m)
    PROVE  Carries
  <1> USE DEF NetTypes
  <1> DEFINE r == [s EXCEPT !.to = m]
             k == [from |-> s.node, to |-> m, env |-> s.env,
                   ts |-> Clock(s.node), at |-> "hello"]
  <1>0. s \in Sending /\ m \in Agents /\ m # NoAgent
    BY Zenon, NobodyIsZero DEF Sending
  <1>1. sends' = (sends \ {s}) \cup {r} /\ conns' = conns \cup {k}
        /\ scene' = scene /\ s.to = NoAgent /\ scene.kind = "secure"
    BY Zenon DEF Dial
  <1>2. r \in Sending /\ r.env = s.env /\ r.then = s.then /\ r.node = s.node
        /\ r.to = m /\ r.todo = s.todo
    BY Zenon, <1>0 DEF Sending
  <1>3. k \in Conn /\ k.env = s.env /\ k.from = s.node /\ k.to = m /\ Waits(k)
    <2>1. Clock(s.node) \in Int
      BY SMTT(30), <1>0, SceneTypes DEF Clock, Sending
    <2> QED
      BY Zenon, <1>0, <2>1 DEF Conn, Sending, Stages, Waits
  <1> HIDE DEF r, k
  <1>4. \A d \in conns : Waits(d) => d.env # s.env
    <2> SUFFICES ASSUME NEW d \in conns, Waits(d), d.env = s.env
                 PROVE  FALSE
      BY Zenon
    <2>1. PICK t \in sends : Serves(t, d)
      BY Zenon DEF SendersInv
    <2>2. t = s
      BY SMTT(30), <2>1 DEF SendersInv, Serves
    <2>3. d.to \in Agents
      BY Zenon DEF Conn
    <2> QED
      BY Zenon, <2>1, <2>2, <2>3, <1>1, NobodyIsZero DEF Serves
  <1>5. SendersInv'
    <2>0. /\ \A c : Waits(c)' <=> Waits(c)
          /\ \A t, c : Serves(t, c)' <=> Serves(t, c)
      BY Zenon DEF Waits, Serves
    <2>1. ASSUME NEW t \in sends', NEW u \in sends', t.env = u.env
          PROVE  t = u
      BY Zenon, <2>1, <1>1, <1>2 DEF SendersInv
    <2>2. ASSUME NEW t \in sends', t.then = "vote"
          PROVE  t.env.kind = "proposal"
      BY ZenonT(40), <2>2, <1>1, <1>2 DEF SendersInv
    <2>3. ASSUME NEW c \in conns', Waits(c)
          PROVE  \E t \in sends' : Serves(t, c)
      <3>1. CASE c = k
        BY Zenon, <3>1, <1>1, <1>2, <1>3 DEF Serves
      <3>2. CASE c \in conns
        <4>1. PICK t \in sends : Serves(t, c)
          BY Zenon, <3>2, <2>3 DEF SendersInv
        <4>2. t # s
          BY Zenon, <4>1, <3>2, <2>3, <1>4 DEF Serves
        <4> QED
          BY Zenon, <4>1, <4>2, <1>1
      <3> QED
        BY Zenon, <3>1, <3>2, <1>1
    <2>4. ASSUME NEW c \in conns', NEW d \in conns', Waits(c), Waits(d),
                 c.env = d.env
          PROVE  c = d
      BY Zenon, <2>4, <1>1, <1>3, <1>4 DEF SendersInv
    <2>5. scene'.kind # "tcp"
      BY Zenon, <1>1
    <2>6. \A t \in sends' : t.to = NoAgent \/ t.to \in t.todo
      BY Zenon, <1>1, <1>2 DEF SendersInv
    <2> QED
      BY Zenon, <2>0, <2>1, <2>2, <2>3, <2>4, <2>5, <2>6 DEF SendersInv
  <1>6. InFlight' \subseteq InFlight
    BY Zenon, <1>1, <1>2, <1>3, NothingNew DEF InFlight
  <1> QED
    BY Zenon, <1>1, <1>2, <1>3, <1>5, <1>6 DEF Carries

(* A goroutine that is done with a peer: the connections that are left or   *)
(* new carry envelopes already in flight, and none waits for it.            *)
LEMMA AdvanceCarries ==
    ASSUME NetTypes, SendersInv, NEW s \in sends, NEW m,
           sends' = Advance(s, m), scene' = scene, conns' \subseteq Conn,
           \A d \in conns' : d.env \in InFlight,
           \A d \in conns' : Waits(d) => d \in conns /\ d.env # s.env
    PROVE  Carries
  <1>1. SendersInv' /\ sends' \subseteq Sending
    BY Zenon, AdvanceSenders
  <1>2. \A t \in sends' : \E u \in sends : t.env = u.env
    BY SMTT(30), AdvanceSends DEF NetTypes
  <1>3. InFlight' \subseteq InFlight
    BY Zenon, <1>2, NothingNew
  <1> QED
    BY Zenon, <1>1, <1>3 DEF Carries

(* No connection waits for a goroutine between two peers. *)
LEMMA FreeSender ==
    ASSUME NetTypes, SendersInv, NEW s \in sends,
           s.to = NoAgent \/ scene.kind = "tcp"
    PROVE  \A d \in conns : Waits(d) => d.env # s.env
  <1> SUFFICES ASSUME NEW d \in conns, Waits(d), d.env = s.env
               PROVE  FALSE
    BY Zenon
  <1>1. PICK t \in sends : Serves(t, d)
    BY Zenon DEF SendersInv
  <1>2. t = s /\ d.to \in Agents /\ scene.kind # "tcp"
    BY SMTT(30), <1>1 DEF SendersInv, Serves, NetTypes, Conn
  <1> QED
    BY Zenon, <1>1, <1>2, NobodyIsZero DEF Serves

(* A dial that fails, and a plain TCP send, leave nobody waiting. *)
LEMMA SendCarries ==
    ASSUME NetTypes, SendersInv, NEW s \in sends, NEW m \in s.todo,
           DialFails(s, m) \/ SendPlain(s, m)
    PROVE  Carries
  <1> DEFINE k == [from |-> s.node, to |-> m, env |-> s.env,
                   ts |-> 0, at |-> "payload"]
  <1>0. k \in Conn /\ k.env = s.env /\ ~Waits(k)
    <2>1. s \in Sending /\ m \in Agents
      BY Zenon DEF NetTypes, Sending
    <2>2. s.node \in Agents /\ s.env \in Envelope
      BY Zenon, <2>1 DEF Sending
    <2> QED
      BY SMTT(30), <2>1, <2>2 DEF Conn, Stages, Waits
  <1>1. /\ sends' = Advance(s, m) /\ scene' = scene
        /\ s.to = NoAgent \/ scene.kind = "tcp"
        /\ conns' = conns \/ conns' = conns \cup {k}
    BY Zenon DEF DialFails, SendPlain
  <1> HIDE DEF k
  <1>2. conns' \subseteq Conn /\ \A d \in conns' : d.env \in InFlight
    BY Zenon, <1>0, <1>1 DEF NetTypes, InFlight
  <1>3. \A d \in conns' : Waits(d) => d \in conns /\ d.env # s.env
    BY Zenon, <1>0, <1>1, FreeSender
  <1> QED
    BY Zenon, <1>1, <1>2, <1>3, AdvanceCarries

(* ReadResponse and GiveUp: goroutine and connection part. *)
LEMMA PartCarries ==
    ASSUME NetTypes, SendersInv, NEW c \in conns,
           ReadResponse(c) \/ GiveUp(c)
    PROVE  Carries
  <1> DEFINE s == SenderOf(c)
             p == [c EXCEPT !.at = "payload"]
             o == [c EXCEPT !.at = "orphan"]
  <1>1. Waits(c) /\ sends' = Advance(s, c.to) /\ scene' = scene
        /\ conns' \subseteq (conns \ {c}) \cup {p, o}
    BY Zenon DEF ReadResponse, GiveUp, Waits
  <1>2. s \in sends /\ s.env = c.env
    BY Zenon, <1>1, SenderIsThere
  <1>3. /\ p \in Conn /\ p.env = c.env /\ ~Waits(p)
        /\ o \in Conn /\ o.env = c.env /\ ~Waits(o)
    BY Zenon DEF NetTypes, Conn, Stages, Waits
  <1> HIDE DEF s, p, o
  <1>4. conns' \subseteq Conn /\ \A d \in conns' : d.env \in InFlight
    BY Zenon, <1>1, <1>3 DEF NetTypes, InFlight
  <1>5. \A d \in conns' : Waits(d) => d \in conns /\ d.env # s.env
    BY Zenon, <1>1, <1>2, <1>3 DEF SendersInv
  <1> QED
    BY Zenon, <1>1, <1>2, <1>4, <1>5, AdvanceCarries

(* Authenticate and Break: the goroutines are where they were. *)
LEMMA ConnCarries ==
    ASSUME NetTypes, SendersInv, NEW c \in conns,
           Authenticate(c) \/ Break(c)
    PROVE  Carries
  <1> DEFINE y == [c EXCEPT !.at = "accepted"]
             z == [c EXCEPT !.at = "rejected"]
  <1>0. /\ y \in Conn /\ y.env = c.env /\ y.from = c.from /\ y.to = c.to
        /\ z \in Conn /\ z.env = c.env /\ z.from = c.from /\ z.to = c.to
    BY Zenon DEF NetTypes, Conn, Stages
  <1>1. /\ sends' = sends /\ scene' = scene
        /\ \/ conns' = conns \ {c}
           \/ Waits(c) /\ conns' = (conns \ {c}) \cup {y}
           \/ Waits(c) /\ conns' = (conns \ {c}) \cup {z}
    <2>1. CASE Break(c)
      BY Zenon, <2>1 DEF Break
    <2>2. CASE Authenticate(c)
      <3>1. CASE c.at = "orphan"
        BY Zenon, <2>2, <3>1 DEF Authenticate, sendAuthResponse
      <3>2. CASE c.at # "orphan"
        BY Zenon, <2>2, <3>2 DEF Authenticate, sendAuthResponse, Waits
      <3> QED
        BY Zenon, <3>1, <3>2
    <2> QED
      BY Zenon, <2>1, <2>2
  <1> HIDE DEF y, z
  <1>2. \A d \in conns' : d \in Conn /\ d.env \in InFlight
    BY Zenon, <1>0, <1>1 DEF NetTypes, InFlight
  <1>3. \A d \in conns' : Waits(d) =>
            \E e \in conns : /\ Waits(e) /\ e.env = d.env
                             /\ e.from = d.from /\ e.to = d.to
                             /\ d # e => e = c
    BY Zenon, <1>0, <1>1
  <1>4. SendersInv'
    <2>0. /\ \A d : Waits(d)' <=> Waits(d)
          /\ \A t, d : Serves(t, d)' <=> Serves(t, d)
      BY Zenon DEF Waits, Serves
    <2>1. ASSUME NEW d \in conns', Waits(d)
          PROVE  \E t \in sends : Serves(t, d)
      BY SMTT(30), <1>3, <2>1 DEF SendersInv, Serves
    <2>2. ASSUME NEW d \in conns', NEW e \in conns', Waits(d), Waits(e),
                 d.env = e.env
          PROVE  d = e
      BY SMTT(30), <2>2, <1>0, <1>1 DEF SendersInv
    <2>3. scene.kind = "tcp" => \A d \in conns' : ~Waits(d)
      BY Zenon, <1>3 DEF SendersInv
    <2> QED
      BY Zenon, <1>1, <2>0, <2>1, <2>2, <2>3 DEF SendersInv
  <1>5. InFlight' \subseteq InFlight
    BY Zenon, <1>1, <1>2, NothingNew
  <1> QED
    BY Zenon, <1>1, <1>2, <1>4, <1>5 DEF Carries, NetTypes

(* The transport makes no envelopes, and loses no reader of a response.     *)
LEMMA TransportCarries ==
    ASSUME NetTypes, SendersInv, TransportNext
    PROVE  Carries
  BY Zenon, DialCarries, SendCarries, PartCarries, ConnCarries DEF TransportNext

(* Restart breaks connections together with whoever waits on them.          *)
LEMMA RestartCarries ==
    ASSUME NetTypes, SendersInv, NEW n \in Agents, Restart(n)
    PROVE  Carries
  <1> DEFINE waiting == {s \in sends : s.node # n /\ s.to = n}
             on(s) == [s EXCEPT !.todo = @ \ {n}, !.to = NoAgent]
             late(c) == [c EXCEPT !.at = "orphan"]
  <1>1. /\ \A t \in sends' :
              \/ t \in sends /\ t.node # n /\ t.to # n
              \/ \E s \in waiting : t = on(s)
        /\ \A s \in sends : s.node # n /\ s.to # n => s \in sends'
        /\ \A d \in conns' :
              \/ d \in conns /\ d.to # n /\ (d.from # n \/ ~Waits(d))
              \/ \E c \in conns : d = late(c)
        /\ scene' = scene
    BY Zenon DEF Restart, Waits
  <1>2. \A s \in sends : /\ on(s) \in Sending /\ on(s).env = s.env
                         /\ on(s).then = s.then /\ on(s).to = NoAgent
    BY Zenon DEF NetTypes, Sending
  <1>3. \A c \in conns : /\ late(c) \in Conn /\ late(c).env = c.env
                         /\ ~Waits(late(c))
    BY Zenon DEF NetTypes, Conn, Stages, Waits
  <1> HIDE DEF on, late
  <1>4. \A t \in sends' : \E s \in sends :
            \/ t = s /\ s \notin waiting
            \/ t = on(s) /\ s \in waiting
    BY Zenon, <1>1 DEF NetTypes
  <1>5. \A d \in conns' : d \in Conn /\ d.env \in InFlight
    BY Zenon, <1>1, <1>3 DEF NetTypes, InFlight
  <1>6. \A d \in conns' : Waits(d) => d \in conns /\ d.to # n /\ d.from # n
    BY Zenon, <1>1, <1>3
  <1>7. SendersInv'
    <2>0. /\ \A d : Waits(d)' <=> Waits(d)
          /\ \A t, d : Serves(t, d)' <=> Serves(t, d)
      BY Zenon DEF Waits, Serves
    <2>1. ASSUME NEW t \in sends', NEW u \in sends', t.env = u.env
          PROVE  t = u
      <3>1. PICK s \in sends : \/ t = s /\ s \notin waiting
                               \/ t = on(s) /\ s \in waiting
        BY Zenon, <1>4
      <3>2. PICK r \in sends : \/ u = r /\ r \notin waiting
                               \/ u = on(r) /\ r \in waiting
        BY Zenon, <1>4
      <3>3. s.env = r.env
        BY Zenon, <2>1, <3>1, <3>2, <1>2
      <3> QED
        BY Zenon, <3>1, <3>2, <3>3 DEF SendersInv
    <2>2. \A t \in sends' : /\ t.then = "vote" => t.env.kind = "proposal"
                            /\ t.to = NoAgent \/ t.to \in t.todo
      BY SMTT(30), <1>2, <1>4 DEF SendersInv
    <2>3. ASSUME NEW d \in conns', Waits(d)
          PROVE  \E t \in sends' : Serves(t, d)
      BY SMTT(30), <2>3, <1>1, <1>6 DEF SendersInv, Serves
    <2>4. ASSUME NEW d \in conns', NEW e \in conns', Waits(d), Waits(e),
                 d.env = e.env
          PROVE  d = e
      BY Zenon, <2>4, <1>6 DEF SendersInv
    <2>5. scene.kind = "tcp" => \A d \in conns' : ~Waits(d)
      BY Zenon, <1>6 DEF SendersInv
    <2> QED
      BY Zenon, <1>1, <2>0, <2>1, <2>2, <2>3, <2>4, <2>5 DEF SendersInv
  <1>8. sends' \subseteq Sending /\ \A t \in sends' : \E u \in sends : t.env = u.env
    BY Zenon, <1>2, <1>4 DEF NetTypes
  <1>9. InFlight' \subseteq InFlight
    BY Zenon, <1>5, <1>8, NothingNew
  <1> QED
    BY Zenon, <1>1, <1>5, <1>7, <1>8, <1>9 DEF Carries

-----------------------------------------------------------------------------
(* Sending.                                                                *)

(* The step makes envelope e, with the next nonce of its agent, and nothing *)
(* else that is new in flight.                                              *)
Makes(e) ==
    /\ scene' = scene /\ sends' \subseteq Sending /\ conns' \subseteq Conn
    /\ SendersInv' /\ InFlight' \subseteq InFlight \cup {e}
    /\ e \in Envelope /\ e.nonce = nonces[e.from] + 1
    /\ nonces' = [nonces EXCEPT ![e.from] = @ + 1]

(* What BuildEnvelope reads of its agent. *)
LEMMA AgentTypes ==
    ASSUME NetTypes, NEW n \in Agents
    PROVE  Clock(n) \in Int /\ nonces[n] + 1 \in Nat /\ machine[n] \in Nat
  <1>1. scene.skew[n] \in Int /\ now \in Int
    BY SMTT(30), SceneTypes DEF NetTypes
  <1> QED
    BY SMTT(30), <1>1 DEF NetTypes, Clock

(* A goroutine of its own sends a new envelope; connections that waited for *)
(* another still have it.                                                   *)
LEMMA SendMakes ==
    ASSUME NetTypes, SendersInv, NoncesInv, NEW n \in Agents, NEW e \in Envelope,
           NEW then \in {"end", "vote"}, NEW slot \in {TRUE, FALSE},
           e.from = n, e.nonce = nonces[n] + 1,
           then = "vote" => e.kind = "proposal",
           NEW S, S \subseteq sends, sends' = Send(n, e, then, slot, S),
           conns' \subseteq conns, scene' = scene,
           \A c \in conns' : Waits(c) => \E s \in S : Serves(s, c),
           nonces' = [nonces EXCEPT ![n] = @ + 1]
    PROVE  Makes(e)
  <1> DEFINE s == Sender(n, e, then, slot)
  <1>1. Targets(n, e) \subseteq Agents
    <2>1. scene.addrs[n] \subseteq Agents
      BY Zenon, SceneTypes DEF NetTypes
    <2> QED
      BY Zenon, <2>1 DEF Targets
  <1>2. /\ s \in Sending /\ s.env = e /\ s.to = NoAgent /\ s.then = then
    BY Zenon, <1>1 DEF Sender, Sending
  <1>3. sends' \subseteq S \cup {s} /\ S \subseteq sends'
    BY Zenon DEF Send
  <1> HIDE DEF s
  <1>4. e \notin InFlight
    <2>1. nonces[n] \in Nat
      BY Zenon DEF NetTypes
    <2> QED
      BY SMTT(30), <2>1 DEF NoncesInv
  <1>5. \A t \in sends : t.env # e
    BY Zenon, <1>4 DEF InFlight
  <1>6. SendersInv'
    <2>0. /\ \A d : Waits(d)' <=> Waits(d)
          /\ \A t, d : Serves(t, d)' <=> Serves(t, d)
      BY Zenon DEF Waits, Serves
    <2>1. ASSUME NEW t \in sends', NEW u \in sends', t.env = u.env
          PROVE  t = u
      BY Zenon, <2>1, <1>2, <1>3, <1>5 DEF SendersInv
    <2>2. \A t \in sends' : /\ t.then = "vote" => t.env.kind = "proposal"
                            /\ t.to = NoAgent \/ t.to \in t.todo
      BY Zenon, <1>2, <1>3 DEF SendersInv
    <2>3. ASSUME NEW c \in conns', Waits(c)
          PROVE  \E t \in sends' : Serves(t, c)
      BY Zenon, <2>3, <1>3
    <2>4. ASSUME NEW c \in conns', NEW d \in conns', Waits(c), Waits(d),
                 c.env = d.env
          PROVE  c = d
      BY Zenon, <2>4 DEF SendersInv
    <2>5. scene.kind = "tcp" => \A d \in conns' : ~Waits(d)
      BY Zenon DEF SendersInv
    <2> QED
      BY Zenon, <2>0, <2>1, <2>2, <2>3, <2>4, <2>5 DEF SendersInv
  <1>7. InFlight' \subseteq InFlight \cup {e}
    BY Zenon, <1>2, <1>3 DEF InFlight
  <1> QED
    BY Zenon, <1>2, <1>3, <1>6, <1>7 DEF Makes, NetTypes

(* The empty block and what ProposeBlockHash proposes are blocks. *)
LEMMA BlockTypes ==
    ASSUME VoteTypes, NEW n \in Agents
    PROVE  /\ NoBlock \in Block /\ NoPenalty \in [Nodes -> Nat]
           /\ Height(n) \in Nat /\ TipId(chain[n]) \in Nat
           /\ [id |-> proposals + 1, height |-> Height(n) + 1,
               parent |-> TipId(chain[n]), proposer |-> n,
               root |-> slashed[n]] \in Block
  <1>1. NoPenalty \in [Nodes -> Nat]
    BY Zenon DEF NoPenalty
  <1>2. NoBlock \in Block
    BY Zenon, <1>1 DEF NoBlock, Block
  <1>3. chain[n] \in Seq(Entry) /\ slashed[n] \in [Nodes -> Nat]
    BY Zenon DEF VoteTypes
  <1>4. Height(n) \in Nat /\ TipId(chain[n]) \in Nat
    <2>1. CASE chain[n] = <<>>
      BY Zenon, <1>3, <2>1 DEF Height, TipId
    <2>2. CASE chain[n] # <<>>
      <3>1. chain[n][Len(chain[n])] \in Entry
        BY SMTT(30), <1>3, <2>2
      <3> QED
        BY SMTT(30), <1>3, <2>2, <3>1 DEF Height, TipId, Entry, Block
    <2> QED
      BY Zenon, <2>1, <2>2
  <1>5. proposals + 1 \in Nat /\ n \in Nat
    BY SMTT(30), NobodyIsZero DEF VoteTypes
  <1> QED
    BY SMTT(30), <1>1, <1>2, <1>3, <1>4, <1>5 DEF Block

(* A proposal and a vote are among the kinds of envelopes. *)
LEMMA KindsOf == "proposal" \in Kinds /\ "vote" \in Kinds
  BY Zenon DEF Kinds

(* A message makes one envelope, with the next nonce of its sender. *)
LEMMA SendMessageMakes ==
    ASSUME NetInv, VoteTypes, NEW n \in Agents, NEW m \in Agents,
           NEW kind \in scene.kinds, SendMessage(n, m, kind)
    PROVE  Makes(BuildEnvelope(n, kind, m, NoBlock))
  <1> DEFINE e == BuildEnvelope(n, kind, m, NoBlock)
  <1>1. kind \in Kinds
    BY Zenon, SceneTypes DEF NetInv, NetTypes
  <1>2. e \in Envelope /\ e.from = n /\ e.nonce = nonces[n] + 1
    <2>1. NetTypes /\ NoBlock \in Block /\ m \in Recipients
      BY Zenon, BlockTypes DEF NetInv, Recipients
    <2> QED
      BY Zenon, <1>1, <2>1, AgentTypes DEF BuildEnvelope, Envelope
  <1>3. /\ sends' = Send(n, e, "end", FALSE, sends) /\ conns' = conns
        /\ scene' = scene /\ nonces' = [nonces EXCEPT ![n] = @ + 1]
    BY Zenon DEF SendMessage, UnchangedTransport
  <1> HIDE DEF e
  <1>4. \A c \in conns' : Waits(c) => \E s \in sends : Serves(s, c)
    BY Zenon, <1>3 DEF NetInv, SendersInv
  <1>5. Makes(e)
    BY Zenon, <1>2, <1>3, <1>4, SendMakes DEF NetInv
  <1> QED
    BY Zenon, <1>5 DEF e

(* A proposal makes one envelope, for a block of the next height. *)
LEMMA ProposeMakes ==
    ASSUME NetInv, VoteTypes, NEW n \in Agents, ProposeBlockHash(n)
    PROVE  \E b \in Block :
              /\ b.height \in 1..scene.height
              /\ Makes(BuildEnvelope(n, "proposal", NoAgent, b))
              /\ engine' = [engine EXCEPT ![n] = RecordProposal(@, b)]
  <1> DEFINE b == [id |-> proposals + 1, height |-> Height(n) + 1,
                   parent |-> TipId(chain[n]), proposer |-> n,
                   root |-> slashed[n]]
             e == BuildEnvelope(n, "proposal", NoAgent, b)
  <1>1. b \in Block /\ b.height = Height(n) + 1
    BY Zenon, BlockTypes
  <1>2. /\ sends' = Send(n, e, "vote", FALSE, sends) /\ conns' = conns
        /\ scene' = scene /\ nonces' = [nonces EXCEPT ![n] = @ + 1]
        /\ engine' = [engine EXCEPT ![n] = RecordProposal(@, b)]
        /\ Height(n) < scene.height
    BY Zenon DEF ProposeBlockHash, UnchangedTransport
  <1> HIDE DEF b
  <1>3. /\ e \in Envelope /\ e.from = n /\ e.nonce = nonces[n] + 1
        /\ e.kind = "proposal"
    <2>1. NetTypes /\ NoAgent \in Recipients
      BY Zenon DEF NetInv, Recipients
    <2> QED
      BY Zenon, <1>1, <2>1, AgentTypes, KindsOf DEF BuildEnvelope, Envelope
  <1>4. \A c \in conns' : Waits(c) => \E s \in sends : Serves(s, c)
    BY Zenon, <1>2 DEF NetInv, SendersInv
  <1> HIDE DEF e
  <1>5. Makes(e)
    BY Zenon, <1>2, <1>3, <1>4, SendMakes DEF NetInv
  <1>6. b.height \in 1..scene.height
    <2>1. Height(n) \in Nat /\ scene.height \in Nat
      BY Zenon, BlockTypes, SceneTypes DEF NetInv, NetTypes
    <2> QED
      BY SMTT(30), <1>1, <1>2, <2>1
  <1> QED
    BY Zenon, <1>1, <1>2, <1>5, <1>6 DEF e

(* So does the vote of a node for its own proposal. *)
LEMMA SelfVoteMakes ==
    ASSUME NetInv, NEW s \in sends, voteAndFinalizeSelf(s)
    PROVE  Makes(BuildEnvelope(s.node, "vote", NoAgent, s.env.blk))
  <1> DEFINE n == s.node
             e == BuildEnvelope(n, "vote", NoAgent, s.env.blk)
  <1>1. n \in Agents /\ s.env.blk \in Block /\ s.todo = {}
    BY Zenon DEF NetInv, NetTypes, Sending, Envelope, voteAndFinalizeSelf
  <1>2. /\ sends' = Send(n, e, "end", FALSE, sends \ {s}) /\ conns' = conns
        /\ scene' = scene /\ nonces' = [nonces EXCEPT ![n] = @ + 1]
    BY Zenon DEF voteAndFinalizeSelf, UnchangedTransport
  <1>3. e \in Envelope /\ e.from = n /\ e.nonce = nonces[n] + 1
    <2>1. NetTypes /\ NoAgent \in Recipients
      BY Zenon DEF NetInv, Recipients
    <2> QED
      BY Zenon, <1>1, <2>1, AgentTypes, KindsOf DEF BuildEnvelope, Envelope
  <1>4. ASSUME NEW c \in conns', Waits(c)
        PROVE  \E t \in sends \ {s} : Serves(t, c)
    <2>1. PICK t \in sends : Serves(t, c)
      BY Zenon, <1>2, <1>4 DEF NetInv, SendersInv
    <2>2. c.env # s.env
      BY Zenon, <1>1, <1>2, <1>4, FreeSender DEF NetInv, SendersInv
    <2> QED
      BY Zenon, <2>1, <2>2 DEF Serves
  <1> HIDE DEF e, n
  <1>5. Makes(e)
    BY Zenon, <1>1, <1>2, <1>3, <1>4, SendMakes DEF NetInv
  <1> QED
    BY Zenon, <1>5 DEF e, n

(* A connection whose payload is read is gone, or delivers it again later.  *)
LEMMA DispatchMoves ==
    ASSUME NetInv, NEW c \in conns, NEW again \in BOOLEAN, Dispatch(c, again)
    PROVE  /\ Answers(c.to, c.env) =>
                 Makes(BuildEnvelope(c.to, "vote", NoAgent, c.env.blk))
           /\ ~Answers(c.to, c.env) => Carries /\ nonces' = nonces
  <1> DEFINE n == c.to
             e == BuildEnvelope(n, "vote", NoAgent, c.env.blk)
  <1>1. n \in Agents /\ c.env.blk \in Block /\ ~Waits(c)
    BY Zenon DEF NetInv, NetTypes, Conn, Envelope, Dispatch, Waits
  <1>2. /\ conns' = conns \/ conns' = conns \ {c}
        /\ scene' = scene
        /\ Answers(n, c.env) =>
              /\ sends' = Send(n, e, "end", TRUE, sends)
              /\ nonces' = [nonces EXCEPT ![n] = @ + 1]
        /\ ~Answers(n, c.env) => sends' = sends /\ nonces' = nonces
    BY Zenon DEF Dispatch, handleRaw
  <1>3. e \in Envelope /\ e.from = n /\ e.nonce = nonces[n] + 1
    <2>1. NetTypes /\ NoAgent \in Recipients
      BY Zenon DEF NetInv, Recipients
    <2> QED
      BY Zenon, <1>1, <2>1, AgentTypes, KindsOf DEF BuildEnvelope, Envelope
  <1>4. \A d \in conns' : Waits(d) => \E s \in sends : Serves(s, d)
    BY Zenon, <1>2 DEF NetInv, SendersInv
  <1> HIDE DEF e, n
  <1>5. ASSUME Answers(n, c.env)
        PROVE  Makes(e)
    BY Zenon, <1>1, <1>2, <1>3, <1>4, <1>5, SendMakes DEF NetInv
  <1>6. ASSUME ~Answers(n, c.env)
        PROVE  Carries /\ nonces' = nonces
    <2>1. sends' = sends /\ nonces' = nonces
      BY Zenon, <1>2, <1>6
    <2>2. SendersInv'
      <3>0. /\ \A d : Waits(d)' <=> Waits(d)
            /\ \A t, d : Serves(t, d)' <=> Serves(t, d)
        BY Zenon DEF Waits, Serves
      <3>1. conns' \subseteq conns
        BY Zenon, <1>2
      <3> QED
        BY Zenon, <1>2, <2>1, <3>0, <3>1 DEF NetInv, SendersInv
    <2>3. InFlight' \subseteq InFlight
      BY Zenon, <1>2, <2>1 DEF InFlight
    <2> QED
      BY Zenon, <1>2, <2>1, <2>2, <2>3 DEF Carries, NetInv, NetTypes
  <1> QED
    BY Zenon, <1>5, <1>6 DEF e, n

-----------------------------------------------------------------------------
(* Envelopes and nonces.                                                   *)

(* A step makes at most one envelope. *)
Moves == (Carries /\ nonces' = nonces) \/ \E e : Makes(e)

(* What is in flight after a step was before, or is new. *)
LEMMA MovesFlight ==
    ASSUME NetInv, Moves
    PROVE  /\ scene' = scene /\ sends' \subseteq Sending
           /\ conns' \subseteq Conn /\ SendersInv'
           /\ nonces' \in [Agents -> Nat]
           /\ \A m \in Agents : nonces[m] <= nonces'[m]
           /\ \E e : /\ InFlight' \subseteq InFlight \cup {e}
                     /\ \/ InFlight' \subseteq InFlight
                        \/ /\ e \in Envelope /\ e.nonce = nonces[e.from] + 1
                           /\ nonces'[e.from] = nonces[e.from] + 1
  <1>0. nonces \in [Agents -> Nat]
    BY Zenon DEF NetInv, NetTypes
  <1>1. CASE Carries /\ nonces' = nonces
    BY SMTT(30), <1>0, <1>1 DEF Carries
  <1>2. CASE \E e : Makes(e)
    <2>1. PICK e : Makes(e)
      BY Zenon, <1>2
    <2>2. /\ scene' = scene /\ sends' \subseteq Sending
          /\ conns' \subseteq Conn /\ SendersInv'
          /\ InFlight' \subseteq InFlight \cup {e} /\ e \in Envelope
          /\ e.nonce = nonces[e.from] + 1
          /\ nonces' = [nonces EXCEPT ![e.from] = @ + 1]
      BY Zenon, <2>1 DEF Makes
    <2>3. e.from \in Agents
      BY Zenon, <2>2 DEF Envelope
    <2>4. nonces' \in [Agents -> Nat] /\ nonces'[e.from] = nonces[e.from] + 1
      BY SMTT(30), <1>0, <2>2, <2>3
    <2>5. \A m \in Agents : nonces[m] <= nonces'[m]
      BY SMTT(30), <1>0, <2>2, <2>3
    <2> QED
      BY Zenon, <2>2, <2>4, <2>5
  <1> QED
    BY Zenon, <1>1, <1>2 DEF Moves

(* Steps that carry envelopes, or make one with a new nonce, keep NetInv. *)
LEMMA MovesNet ==
    ASSUME NetInv, Moves, now' \in Nat, machine' \in [Agents -> Nat]
    PROVE  NetInv'
  <1>0. /\ nonces \in [Agents -> Nat] /\ nonces' \in [Agents -> Nat]
        /\ \A m \in Agents : nonces[m] <= nonces'[m]
        /\ InFlight \subseteq Envelope
    BY Zenon, MovesFlight, InFlightTypes DEF NetInv, NetTypes
  <1>1. NetTypes' /\ SendersInv'
    BY Zenon, MovesFlight DEF NetInv, NetTypes
  <1>2. PICK e : /\ InFlight' \subseteq InFlight \cup {e}
                 /\ \/ InFlight' \subseteq InFlight
                    \/ /\ e \in Envelope /\ e.nonce = nonces[e.from] + 1
                       /\ nonces'[e.from] = nonces[e.from] + 1
    BY Zenon, MovesFlight
  <1>3. ASSUME NEW f \in InFlight
        PROVE  /\ f.nonce <= nonces[f.from] /\ f.nonce <= nonces'[f.from]
               /\ f.nonce \in Nat /\ f.from \in Agents
    <2>1. f.nonce <= nonces[f.from] /\ f \in Envelope
      BY Zenon, <1>0 DEF NetInv, NoncesInv
    <2>2. f.nonce \in Nat /\ f.from \in Agents
      BY Zenon, <2>1 DEF Envelope
    <2> QED
      BY SMTT(30), <1>0, <2>1, <2>2
  <1>4. NoncesInv'
    <2>1. CASE InFlight' \subseteq InFlight
      BY Zenon, <1>3, <2>1 DEF NetInv, NoncesInv
    <2>2. CASE e \in Envelope /\ e.nonce = nonces[e.from] + 1
               /\ nonces'[e.from] = nonces[e.from] + 1
      <3>1. e.from \in Agents /\ nonces[e.from] \in Nat
        BY Zenon, <2>2, <1>0 DEF Envelope
      <3>2. \A f \in InFlight : f.from = e.from => f.nonce # e.nonce
        BY SMTT(30), <3>1, <2>2, <1>3
      <3>3. \A f \in InFlight' : f.nonce <= nonces'[f.from]
        BY SMTT(30), <1>2, <1>3, <2>2, <3>1
      <3>4. \A f, g \in InFlight' : f.from = g.from /\ f.nonce = g.nonce => f = g
        BY Zenon, <1>2, <3>2 DEF NetInv, NoncesInv
      <3> QED
        BY Zenon, <3>3, <3>4 DEF NoncesInv
    <2> QED
      BY Zenon, <1>2, <2>1, <2>2
  <1> QED
    BY Zenon, <1>1, <1>4 DEF NetInv

-----------------------------------------------------------------------------
(* The replay cache.                                                       *)

(* ReplayInv after a step, from what it makes of the envelopes that were in *)
(* flight before it: a new one has a nonce nobody handled.                  *)
LEMMA ReplayStep ==
    ASSUME NetInv, Moves,
           handled' \in [Agents -> [Agents -> [1..MaxNonce -> Nat]]],
           \A n, m \in Agents : \A k \in 1..MaxNonce :
              handled'[n][m][k] > 0 => k <= nonces[m],
           \A n \in Agents, e \in InFlight :
              e.nonce \in 1..MaxNonce /\ handled'[n][e.from][e.nonce] > 0 =>
                  Remembers(n, e)'
    PROVE  ReplayInv'
  <1>0. /\ nonces \in [Agents -> Nat] /\ nonces' \in [Agents -> Nat]
        /\ \A m \in Agents : nonces[m] <= nonces'[m]
        /\ MaxNonce \in Nat
    BY Zenon, MovesFlight, MessagesAssumption DEF NetInv, NetTypes
  <1>1. \A n, m \in Agents : \A k \in 1..MaxNonce :
            handled'[n][m][k] > 0 => k <= nonces'[m]
    BY SMTT(30), <1>0
  <1>2. ASSUME NEW n \in Agents, NEW e \in InFlight',
               e.nonce \in 1..MaxNonce, handled'[n][e.from][e.nonce] > 0
        PROVE  Remembers(n, e)'
    <2>1. CASE e \in InFlight
      BY Zenon, <1>2, <2>1
    <2>2. CASE e \in Envelope /\ e.nonce = nonces[e.from] + 1
      <3>1. e.from \in Agents
        BY Zenon, <2>2 DEF Envelope
      <3>2. e.nonce <= nonces[e.from]
        BY Zenon, <1>2, <3>1
      <3> QED
        BY SMTT(30), <1>0, <2>2, <3>1, <3>2
    <2> QED
      BY Zenon, <2>1, <2>2, MovesFlight
  <1> QED
    BY Zenon, <1>1, <1>2 DEF ReplayInv

(* Nothing is handled or forgotten; time may pass. *)
LEMMA ReplayIdle ==
    ASSUME NetInv, CacheTypes, ReplayInv, Moves, seen' = seen,
           handled' = handled, now' \in Nat, now <= now'
    PROVE  ReplayInv'
  <1>1. ASSUME NEW n \in Agents, NEW e \in InFlight, Remembers(n, e)
        PROVE  Remembers(n, e)'
    <2>1. scene' = scene /\ scene.skew[n] \in Int /\ now \in Nat
      BY Zenon, MovesFlight, SceneTypes DEF NetInv, NetTypes
    <2>2. e.ts \in Int /\ FreshWindow \in Nat
      BY Zenon, InFlightTypes, MessagesAssumption DEF NetInv, Envelope
    <2> QED
      BY SMTT(30), <1>1, <2>1, <2>2 DEF Remembers, Clock
  <1>2. \A n \in Agents, e \in InFlight :
            e.nonce \in 1..MaxNonce /\ handled'[n][e.from][e.nonce] > 0 =>
                Remembers(n, e)'
    BY Zenon, <1>1 DEF ReplayInv
  <1>3. handled' \in [Agents -> [Agents -> [1..MaxNonce -> Nat]]]
    BY Zenon DEF CacheTypes
  <1>4. \A n, m \in Agents : \A k \in 1..MaxNonce :
            handled'[n][m][k] > 0 => k <= nonces[m]
    BY Zenon DEF ReplayInv
  <1> QED
    BY Zenon, <1>2, <1>3, <1>4, ReplayStep

(* An entry goes only when the clock has passed what it stands for. *)
LEMMA CleanupKeeps ==
    ASSUME NetInv, CacheTypes, NEW n \in Agents, NEW e \in InFlight,
           Remembers(n, e)
    PROVE  \/ \E x \in cleanupLocked(n) : /\ x.from = e.from /\ x.nonce = e.nonce
                                          /\ x.at >= e.ts - FreshWindow
           \/ Clock(n) > e.ts + FreshWindow
  <1>0. /\ Clock(n) \in Int /\ e.ts \in Int /\ FreshWindow \in Nat
        /\ ReplayTTL \in Nat /\ ReplayTTL >= 2 * FreshWindow
    <2>1. e \in Envelope /\ NetTypes
      BY Zenon, InFlightTypes DEF NetInv
    <2> QED
      BY Zenon, <2>1, AgentTypes, MessagesAssumption, TTLAssumption DEF Envelope
  <1>1. SUFFICES ASSUME ~(Clock(n) > e.ts + FreshWindow)
                 PROVE  \E x \in cleanupLocked(n) :
                           /\ x.from = e.from /\ x.nonce = e.nonce
                           /\ x.at >= e.ts - FreshWindow
    BY Zenon
  <1>2. PICK x \in seen[n] : /\ x.from = e.from /\ x.nonce = e.nonce
                             /\ x.at >= e.ts - FreshWindow
    BY Zenon, <1>1 DEF Remembers
  <1>3. x.at \in Int
    BY SMTT(30) DEF CacheTypes, Remembered
  <1>4. x.at >= Clock(n) - ReplayTTL
    BY SMTT(30), <1>0, <1>1, <1>2, <1>3
  <1> QED
    BY Zenon, <1>2, <1>4 DEF cleanupLocked

(* An envelope that is accepted was not handled before. *)
LEMMA AcceptedIsNew ==
    ASSUME NetInv, CacheTypes, ReplayInv, NEW n \in Agents, NEW e \in InFlight,
           Accepted(n, e), e.nonce \in 1..MaxNonce
    PROVE  handled[n][e.from][e.nonce] = 0
  <1>0. Clock(n) \in Int /\ e.ts \in Int /\ FreshWindow \in Nat /\ e.from \in Agents
    BY Zenon, InFlightTypes, AgentTypes, MessagesAssumption DEF NetInv, Envelope
  <1>1. FreshEnough(n, e) /\ ~SeenBefore(n, e)
    BY Zenon DEF Accepted, Verified, Recorded
  <1>2. ~(Clock(n) > e.ts + FreshWindow)
    BY SMTT(30), <1>0, <1>1 DEF FreshEnough
  <1>3. ~Remembers(n, e)
    BY Zenon, <1>1, <1>2, CleanupKeeps DEF SeenBefore
  <1>4. ~(handled[n][e.from][e.nonce] > 0)
    BY Zenon, <1>3 DEF ReplayInv
  <1>5. handled[n][e.from][e.nonce] \in Nat
    <2>1. handled[n] \in [Agents -> [1..MaxNonce -> Nat]]
      BY Zenon DEF CacheTypes
    <2>2. handled[n][e.from] \in [1..MaxNonce -> Nat]
      BY Zenon, <1>0, <2>1
    <2> QED
      BY Zenon, <2>2
  <1> QED
    BY SMTT(30), <1>4, <1>5

(* One entry of a table of numbers is counted up. *)
LEMMA CountsOn ==
    ASSUME NEW S, NEW g \in [S -> Nat], NEW k, NEW d \in Nat
    PROVE  [g EXCEPT ![k] = @ + d] \in [S -> Nat]
  <1>1. [g EXCEPT ![k] = @ + d] = [i \in S |-> IF i = k THEN g[i] + d ELSE g[i]]
    BY Zenon
  <1>2. \A i \in S : (IF i = k THEN g[i] + d ELSE g[i]) \in Nat
    BY SMTT(30)
  <1> QED
    BY Zenon, <1>1, <1>2

(* What handleRaw does to the cache and the history. *)
LEMMA HandleCache ==
    ASSUME NetInv, CacheTypes, NEW n \in Agents, NEW env \in InFlight,
           handleRaw(n, env)
    PROVE  /\ CacheTypes'
           /\ \A p \in Agents : p # n => seen'[p] = seen[p]
           /\ cleanupLocked(n) \subseteq seen'[n]
           /\ Accepted(n, env) =>
                 /\ handled' = [handled EXCEPT ![n][env.from][env.nonce] = @ + 1]
                 /\ [from |-> env.from, nonce |-> env.nonce, at |-> Clock(n)]
                       \in seen'[n]
           /\ ~Accepted(n, env) => handled' = handled
  <1> DEFINE x == [from |-> env.from, nonce |-> env.nonce, at |-> Clock(n)]
  <1>0. x \in Remembered /\ env.from \in Agents
    <2>1. env \in Envelope /\ Clock(n) \in Int
      BY Zenon, InFlightTypes, AgentTypes DEF NetInv
    <2> QED
      BY Zenon, <2>1 DEF Envelope, Remembered
  <1>1. cleanupLocked(n) \subseteq seen[n]
    BY Zenon DEF cleanupLocked
  <1>2. /\ \/ seen' = seen
           \/ seen' = [seen EXCEPT ![n] = cleanupLocked(n)]
           \/ seen' = [seen EXCEPT ![n] = cleanupLocked(n) \cup {x}]
        /\ Accepted(n, env) =>
              seen' = [seen EXCEPT ![n] = cleanupLocked(n) \cup {x}]
        /\ Accepted(n, env) =>
              handled' = [handled EXCEPT ![n][env.from][env.nonce] = @ + 1]
        /\ ~Accepted(n, env) => handled' = handled
    BY Zenon DEF handleRaw, Accepted, Verified
  <1> HIDE DEF x
  <1>3. seen' \in [Agents -> SUBSET Remembered]
    <2>1. seen \in [Agents -> SUBSET Remembered] /\ seen[n] \subseteq Remembered
      BY Zenon DEF CacheTypes
    <2>2. /\ cleanupLocked(n) \in SUBSET Remembered
          /\ cleanupLocked(n) \cup {x} \in SUBSET Remembered
      BY Zenon, <1>0, <1>1, <2>1
    <2>3. \A S \in SUBSET Remembered :
              [seen EXCEPT ![n] = S] \in [Agents -> SUBSET Remembered]
      BY Zenon, <2>1
    <2> QED
      BY Zenon, <1>2, <2>1, <2>2, <2>3
  <1>4. handled' \in [Agents -> [Agents -> [1..MaxNonce -> Nat]]]
    <2> DEFINE m == env.from
               g == handled[n][m]
    <2>1. CASE Accepted(n, env)
      <3>1. handled[n] \in [Agents -> [1..MaxNonce -> Nat]]
            /\ g \in [1..MaxNonce -> Nat]
        BY Zenon, <1>0 DEF CacheTypes
      <3>2. [g EXCEPT ![env.nonce] = @ + 1] \in [1..MaxNonce -> Nat]
        <4>1. 1 \in Nat
          BY Zenon
        <4> QED
          BY Zenon, <3>1, <4>1, CountsOn
      <3>3. handled' = [handled EXCEPT ![n] = [handled[n] EXCEPT ![m] =
                          [g EXCEPT ![env.nonce] = @ + 1]]]
        BY Zenon, <1>2, <2>1
      <3> HIDE DEF g, m
      <3>4. [handled[n] EXCEPT ![m] = [g EXCEPT ![env.nonce] = @ + 1]]
               \in [Agents -> [1..MaxNonce -> Nat]]
        BY Zenon, <3>1, <3>2
      <3> QED
        BY Zenon, <3>3, <3>4 DEF CacheTypes
    <2>2. CASE ~Accepted(n, env)
      BY Zenon, <1>2, <2>2 DEF CacheTypes
    <2> QED
      BY Zenon, <2>1, <2>2
  <1>5. /\ \A p \in Agents : p # n => seen'[p] = seen[p]
        /\ cleanupLocked(n) \subseteq seen'[n]
        /\ Accepted(n, env) => x \in seen'[n]
    BY Zenon, <1>1, <1>2 DEF CacheTypes
  <1> QED
    BY Zenon, <1>2, <1>3, <1>4, <1>5 DEF CacheTypes, x

(* handleRaw records what it accepts, and forgets only what is too old. *)
LEMMA ReplayHandles ==
    ASSUME NetInv, CacheTypes, ReplayInv, EnvelopeHandledOnce, Moves,
           NEW n \in Agents, NEW env \in InFlight, handleRaw(n, env), now' = now
    PROVE  CacheTypes' /\ ReplayInv' /\ EnvelopeHandledOnce'
  <1> DEFINE m == env.from
             k == env.nonce
  <1>0. /\ env \in Envelope /\ m \in Agents /\ k \in Nat /\ k <= nonces[m]
        /\ scene' = scene /\ Clock(n) \in Int /\ env.ts \in Int
        /\ FreshWindow \in Nat
    <2>1. env \in Envelope /\ Clock(n) \in Int /\ FreshWindow \in Nat
      BY Zenon, InFlightTypes, AgentTypes, MessagesAssumption DEF NetInv
    <2> QED
      BY Zenon, <2>1, MovesFlight DEF NetInv, NoncesInv, Envelope
  <1>1. CacheTypes'
    BY Zenon, HandleCache
  <1>2. \A p : Clock(p)' = Clock(p)
    BY Zenon, <1>0 DEF Clock
  <1>3. ASSUME NEW p \in Agents, NEW e \in InFlight, Remembers(p, e)
        PROVE  Remembers(p, e)'
    <2>1. CASE p # n
      <3>1. seen'[p] = seen[p]
        BY Zenon, <2>1, HandleCache
      <3> QED
        BY Zenon, <1>2, <1>3, <3>1 DEF Remembers
    <2>2. CASE p = n
      <3>1. cleanupLocked(n) \subseteq seen'[n]
        BY Zenon, HandleCache
      <3> QED
        BY Zenon, <1>2, <1>3, <2>2, <3>1, CleanupKeeps DEF Remembers
    <2> QED
      BY Zenon, <2>1, <2>2
  <1>4. CASE ~Accepted(n, env)
    <2>1. handled' = handled
      BY Zenon, <1>4, HandleCache
    <2>2. ReplayInv'
      BY Zenon, <1>1, <1>3, <2>1, ReplayStep DEF CacheTypes, ReplayInv
    <2> QED
      BY Zenon, <1>1, <2>1, <2>2 DEF EnvelopeHandledOnce
  <1>5. CASE Accepted(n, env)
    <2>1. handled' = [handled EXCEPT ![n][m][k] = @ + 1]
      BY Zenon, <1>5, HandleCache
    <2>2. \A p, q \in Agents : \A j \in 1..MaxNonce :
              \/ handled'[p][q][j] = handled[p][q][j]
              \/ p = n /\ q = m /\ j = k /\ handled'[p][q][j] = 1
                   /\ handled[p][q][j] = 0
      <3> SUFFICES ASSUME NEW p \in Agents, NEW q \in Agents, NEW j \in 1..MaxNonce
                   PROVE  \/ handled'[p][q][j] = handled[p][q][j]
                          \/ p = n /\ q = m /\ j = k /\ handled'[p][q][j] = 1
                               /\ handled[p][q][j] = 0
        BY Zenon
      <3>1. CASE p = n /\ q = m /\ j = k
        <4>1. handled[n][m][k] = 0
          BY Zenon, <1>5, <3>1, AcceptedIsNew
        <4> QED
          BY SMTT(30), <1>0, <2>1, <3>1, <4>1 DEF CacheTypes
      <3>2. CASE ~(p = n /\ q = m /\ j = k)
        BY SMTT(30), <1>0, <2>1, <3>2 DEF CacheTypes
      <3> QED
        BY Zenon, <3>1, <3>2
    <2> HIDE DEF m, k
    <2>3. EnvelopeHandledOnce'
      BY SMTT(30), <2>2 DEF EnvelopeHandledOnce
    <2>4. \A p, q \in Agents : \A j \in 1..MaxNonce :
              handled'[p][q][j] > 0 => j <= nonces[q]
      BY SMTT(30), <1>0, <2>2 DEF ReplayInv
    <2>5. Remembers(n, env)'
      <3>1. env.ts - FreshWindow <= Clock(n)
        <4>1. FreshEnough(n, env)
          BY Zenon, <1>5 DEF Accepted, Verified, Recorded
        <4> QED
          BY SMTT(30), <1>0, <4>1 DEF FreshEnough
      <3>2. [from |-> env.from, nonce |-> env.nonce, at |-> Clock(n)] \in seen'[n]
        BY Zenon, <1>5, HandleCache
      <3> QED
        BY Zenon, <1>0, <3>1, <3>2 DEF Remembers
    <2>6. ASSUME NEW p \in Agents, NEW e \in InFlight, e.nonce \in 1..MaxNonce,
                 handled'[p][e.from][e.nonce] > 0
          PROVE  Remembers(p, e)'
      <3>1. e.from \in Agents
        BY Zenon, InFlightTypes DEF NetInv, Envelope
      <3>2. CASE handled'[p][e.from][e.nonce] = handled[p][e.from][e.nonce]
        BY Zenon, <1>3, <2>6, <3>2 DEF ReplayInv
      <3>3. CASE p = n /\ e.from = m /\ e.nonce = k
        <4>1. e = env
          BY Zenon, <3>3 DEF NetInv, NoncesInv, m, k
        <4> QED
          BY Zenon, <2>5, <3>3, <4>1
      <3> QED
        BY Zenon, <2>2, <2>6, <3>1, <3>2, <3>3
    <2>7. ReplayInv'
      BY Zenon, <1>1, <2>4, <2>6, ReplayStep DEF CacheTypes
    <2> QED
      BY Zenon, <1>1, <2>3, <2>7
  <1> QED
    BY Zenon, <1>4, <1>5

(* A restart forgets the cache with the history. *)
LEMMA ReplayRestarts ==
    ASSUME NetInv, CacheTypes, ReplayInv, EnvelopeHandledOnce, Moves,
           NEW n \in Agents, now' = now, seen' = [seen EXCEPT ![n] = {}],
           handled' = [handled EXCEPT ![n] =
                         [m \in Agents |-> [k \in 1..MaxNonce |-> 0]]]
    PROVE  CacheTypes' /\ ReplayInv' /\ EnvelopeHandledOnce'
  <1>1. CacheTypes'
    BY Zenon DEF CacheTypes
  <1>2. \A p \in Agents :
            \/ p # n /\ handled'[p] = handled[p] /\ seen'[p] = seen[p]
            \/ \A q \in Agents : \A j \in 1..MaxNonce : handled'[p][q][j] = 0
    BY Zenon DEF CacheTypes
  <1>3. EnvelopeHandledOnce'
    BY SMTT(30), <1>2 DEF EnvelopeHandledOnce
  <1>4. \A p, q \in Agents : \A j \in 1..MaxNonce :
            handled'[p][q][j] > 0 => j <= nonces[q]
    BY SMTT(30), <1>2 DEF ReplayInv
  <1>5. ASSUME NEW p \in Agents, NEW e \in InFlight, e.nonce \in 1..MaxNonce,
               handled'[p][e.from][e.nonce] > 0
        PROVE  Remembers(p, e)'
    <2>1. e.from \in Agents
      BY Zenon, InFlightTypes DEF NetInv, Envelope
    <2>2. handled'[p] = handled[p] /\ seen'[p] = seen[p]
      BY SMTT(30), <1>2, <1>5, <2>1
    <2>3. Remembers(p, e) /\ scene' = scene
      BY Zenon, <1>5, <2>2, MovesFlight DEF ReplayInv
    <2> QED
      BY Zenon, <2>2, <2>3 DEF Remembers, Clock
  <1>6. ReplayInv'
    BY Zenon, <1>1, <1>4, <1>5, ReplayStep DEF CacheTypes
  <1> QED
    BY Zenon, <1>1, <1>3, <1>6

-----------------------------------------------------------------------------
(* Votes and blocks.                                                       *)

(* A proposal starts the count of its height afresh. *)
LEMMA RecordProposalKeeps ==
    ASSUME NEW H \in Nat, NEW e \in [1..H -> Slot], NEW b \in Block,
           b.height \in 1..H, NEW C, Counted(e, H, C)
    PROVE  /\ RecordProposal(e, b) \in [1..H -> Slot]
           /\ Counted(RecordProposal(e, b), H, C)
  <1> DEFINE s == e[b.height]
             r == [cand |-> b, votes |-> {},
                   stage |-> IF b.id = s.cand.id THEN s.stage ELSE {},
                   stale |-> IF b.id = s.cand.id THEN s.stale
                             ELSE s.stale \cup s.stage,
                   voted |-> [v \in Nodes |-> 0], flagged |-> s.flagged]
  <1>1. s \in Slot
    BY Zenon
  <1>2. /\ s.stage \subseteq Agents /\ s.stale \subseteq Agents
        /\ s.flagged \subseteq Agents
    BY Zenon, <1>1 DEF Slot
  <1>3. RecordProposal(e, b) = [e EXCEPT ![b.height] = r]
    BY Zenon DEF RecordProposal
  <1>4. r \in Slot /\ r.votes = {}
    <2> HIDE DEF s
    <2>1. [v \in Nodes |-> 0] \in [Nodes -> Nat]
      BY Zenon
    <2> QED
      BY Zenon, <1>2, <2>1 DEF Slot
  <1> HIDE DEF r, s
  <1>5. [e EXCEPT ![b.height] = r] \in [1..H -> Slot]
    BY Zenon, <1>4
  <1>6. \A h \in 1..H : [e EXCEPT ![b.height] = r][h] =
                           IF h = b.height THEN r ELSE e[h]
    BY Zenon
  <1> QED
    BY Zenon, <1>3, <1>4, <1>5, <1>6 DEF Counted

(* A vote counts for the candidate it names. *)
LEMMA OnVotesKeeps ==
    ASSUME NEW H \in Nat, NEW e \in [1..H -> Slot], NEW b \in Block,
           b.height \in 1..H, NEW C, Counted(e, H, C),
           NEW v \in Agents, <<v, b.id>> \in C
    PROVE  /\ OnVotes(e, {v}, b) \in [1..H -> Slot]
           /\ Counted(OnVotes(e, {v}, b), H, C)
  <1> DEFINE s == e[b.height]
             known == s.cand.id = b.id
             r == [cand |-> s.cand,
                   votes |-> IF known THEN s.votes \cup {v} ELSE s.votes,
                   stage |-> IF known THEN s.stage \cup ({v} \ s.stale)
                             ELSE s.stage,
                   stale |-> s.stale,
                   voted |-> [w \in Nodes |-> IF w \in {v} /\ s.voted[w] = 0
                                              THEN b.id ELSE s.voted[w]],
                   flagged |-> s.flagged \cup Equivocators(e, {v}, b)]
  <1>1. s \in Slot
    BY Zenon
  <1>2. /\ s.cand \in Block /\ s.votes \subseteq Agents
        /\ s.stage \subseteq Agents /\ s.stale \subseteq Agents
        /\ s.flagged \subseteq Agents /\ s.voted \in [Nodes -> Nat]
    BY Zenon, <1>1 DEF Slot
  <1>3. OnVotes(e, {v}, b) = [e EXCEPT ![b.height] = r]
    BY Zenon DEF OnVotes
  <1>4. Equivocators(e, {v}, b) \subseteq Agents /\ b.id \in Nat
    BY Zenon DEF Equivocators, Block
  <1>5. /\ r \in Slot /\ r.cand = s.cand
        /\ r.votes = IF known THEN s.votes \cup {v} ELSE s.votes
    <2> HIDE DEF s
    <2>1. [w \in Nodes |-> IF w \in {v} /\ s.voted[w] = 0
                           THEN b.id ELSE s.voted[w]] \in [Nodes -> Nat]
      BY Zenon, <1>2, <1>4
    <2> QED
      BY Zenon, <1>2, <1>4, <2>1 DEF Slot
  <1>6. \A w \in r.votes : <<w, r.cand.id>> \in C
    BY Zenon, <1>5 DEF Counted
  <1> HIDE DEF r, s
  <1>7. [e EXCEPT ![b.height] = r] \in [1..H -> Slot]
    BY Zenon, <1>5
  <1>8. \A h \in 1..H : [e EXCEPT ![b.height] = r][h] =
                           IF h = b.height THEN r ELSE e[h]
    BY Zenon
  <1> QED
    BY Zenon, <1>3, <1>6, <1>7, <1>8 DEF Counted

(* TryFinalize appends only what has a quorum of the votes that count. *)
LEMMA TryFinalizeKeeps ==
    ASSUME VoteTypes, NEW n \in Agents, NEW H \in Nat, NEW e \in [1..H -> Slot],
           NEW b \in Block, b.height \in 1..H, NEW C, Counted(e, H, C),
           Certified(chain[n], C)
    PROVE  /\ TryFinalize(n, e, b) \in Seq(Entry)
           /\ Certified(TryFinalize(n, e, b), C)
  <1> DEFINE x == [blk |-> b, sigs |-> e[b.height].votes]
             c == chain[n]
  <1>1. c \in Seq(Entry)
    BY Zenon DEF VoteTypes
  <1>2. CASE TryFinalize(n, e, b) = c
    BY Zenon, <1>1, <1>2
  <1>3. CASE FinalityStatus(e, b) /\ TryFinalize(n, e, b) = Append(c, x)
    <2>1. e[b.height] \in Slot
      BY Zenon
    <2>2. x \in Entry /\ x.blk = b /\ x.sigs = e[b.height].votes
      BY Zenon, <2>1 DEF Entry, Slot
    <2>3. /\ Cardinality(x.sigs) >= requiredForFinality
          /\ \A v \in x.sigs : <<v, x.blk.id>> \in C
      BY Zenon, <1>3, <2>2 DEF FinalityStatus, Counted
    <2> HIDE DEF x, c
    <2>4. /\ Append(c, x) \in Seq(Entry)
          /\ \A h \in 1..Len(Append(c, x)) :
                \/ Append(c, x)[h] = x
                \/ h \in 1..Len(c) /\ Append(c, x)[h] = c[h]
      BY SMTT(30), <1>1, <2>2
    <2>5. Certified(Append(c, x), C)
      BY Zenon, <2>3, <2>4 DEF Certified, c
    <2> QED
      BY Zenon, <1>3, <2>4, <2>5
  <1> QED
    BY Zenon, <1>2, <1>3 DEF TryFinalize

(* QuorumBehindBlock, chain by chain. *)
LEMMA QuorumIsCertified ==
    QuorumBehindBlock <=> \A n \in Agents : Certified(chain[n], cast)
  BY Zenon DEF QuorumBehindBlock, Certified, Height

(* More votes do no harm. *)
LEMMA MoreVotes ==
    ASSUME NEW C, NEW D, C \subseteq D
    PROVE  /\ \A c : Certified(c, C) => Certified(c, D)
           /\ \A e, H : Counted(e, H, C) => Counted(e, H, D)
  BY Zenon DEF Certified, Counted

(* CountVote, with a vote that was cast. *)
LEMMA CountVoteKeeps ==
    ASSUME VoteTypes, scene.height \in Nat, scene' = scene, cast \subseteq cast',
           NEW n \in Agents, NEW v \in Agents, NEW b \in Block,
           b.height \in 1..scene.height, <<v, b.id>> \in cast',
           \A p \in Agents : Counted(engine[p], scene.height, cast),
           QuorumBehindBlock, CountVote(n, v, b), proposals' \in Nat
    PROVE  /\ VoteTypes' /\ QuorumBehindBlock'
           /\ \A p \in Agents : Counted(engine'[p], scene.height, cast')
  <1> DEFINE H == scene.height
             e == OnVotes(engine[n], {v}, b)
             c == TryFinalize(n, e, b)
  <1>0. engine[n] \in [1..H -> Slot] /\ chain[n] \in Seq(Entry)
    BY Zenon DEF VoteTypes
  <1>1. /\ \A p \in Agents : Counted(engine[p], H, cast')
        /\ \A p \in Agents : Certified(chain[p], cast')
    BY Zenon, MoreVotes, QuorumIsCertified
  <1>2. e \in [1..H -> Slot] /\ Counted(e, H, cast')
    BY Zenon, <1>0, <1>1, OnVotesKeeps
  <1>3. /\ engine' = [engine EXCEPT ![n] = e]
        /\ chain' = chain \/ chain' = [chain EXCEPT ![n] = c]
    BY Zenon DEF CountVote
  <1> HIDE DEF e
  <1>4. c \in Seq(Entry) /\ Certified(c, cast')
    BY Zenon, <1>1, <1>2, TryFinalizeKeeps
  <1> HIDE DEF c
  <1>5. /\ engine' \in [Agents -> [1..H -> Slot]]
        /\ \A p \in Agents : engine'[p] = IF p = n THEN e ELSE engine[p]
    BY Zenon, <1>2, <1>3 DEF VoteTypes
  <1>6. /\ chain' \in [Agents -> Seq(Entry)]
        /\ \A p \in Agents : chain'[p] = c \/ chain'[p] = chain[p]
    BY Zenon, <1>3, <1>4 DEF VoteTypes
  <1>7. slashed' \in [Agents -> [Nodes -> Nat]]
    <2> DEFINE g == [slashed[n] EXCEPT ![v] = @ + EquivocationPenalty]
    <2>1. slashed' = slashed \/ slashed' = [slashed EXCEPT ![n] = g]
      BY Zenon DEF CountVote
    <2>2. g \in [Nodes -> Nat]
      <3>1. slashed[n] \in [Nodes -> Nat] /\ EquivocationPenalty \in Nat
        BY Zenon, MessagesAssumption DEF VoteTypes
      <3> QED
        BY Zenon, <3>1, CountsOn
    <2> HIDE DEF g
    <2> QED
      BY Zenon, <2>1, <2>2 DEF VoteTypes
  <1>8. VoteTypes'
    BY Zenon, <1>5, <1>6, <1>7 DEF VoteTypes
  <1>9. \A p \in Agents : Certified(chain'[p], cast')
    BY Zenon, <1>1, <1>4, <1>6
  <1>10. QuorumBehindBlock'
    BY Zenon, <1>9 DEF QuorumBehindBlock, Certified, Height
  <1> QED
    BY Zenon, <1>1, <1>2, <1>5, <1>8, <1>10

(* Nothing of the votes changes, or an engine is reset. *)
LEMMA VotesIdle ==
    ASSUME VoteTypes, VotesInv, QuorumBehindBlock, scene' = scene,
           chain' = chain, slashed' = slashed, proposals' = proposals,
           cast' = cast, engine' \in [Agents -> [1..scene.height -> Slot]],
           \A n \in Agents : \/ engine'[n] = engine[n]
                             \/ Counted(engine'[n], scene.height, cast)
    PROVE  /\ VoteTypes' /\ QuorumBehindBlock'
           /\ \A n \in Agents : Counted(engine'[n], scene'.height, cast')
  <1>1. VoteTypes'
    BY Zenon DEF VoteTypes
  <1>2. QuorumBehindBlock'
    BY Zenon DEF QuorumBehindBlock, Height
  <1> QED
    BY Zenon, <1>1, <1>2 DEF VotesInv

(* What is in flight stays sound; what is new must be. *)
NewIsSound == \A e \in InFlight' : e \in InFlight \/ Sound(e)'

(* The approvals on their way, and those counted, remain votes cast. *)
LEMMA SoundStep ==
    ASSUME VotesInv, scene' = scene, cast \subseteq cast', NewIsSound,
           \A n \in Agents : Counted(engine'[n], scene'.height, cast')
    PROVE  VotesInv'
  <1>1. \A e \in InFlight : Sound(e)'
    BY Zenon DEF VotesInv, Sound
  <1> QED
    BY Zenon, <1>1 DEF VotesInv, NewIsSound

-----------------------------------------------------------------------------
(* The steps.                                                              *)

(* Steps that change none of what the votes are about. *)
QuietVotes == UNCHANGED <<engine, chain, slashed, proposals, cast>>

(* They keep what is said of votes and chains. *)
LEMMA QuietStep ==
    ASSUME GossipInv, Moves, QuietVotes, NewIsSound
    PROVE  VoteTypes' /\ QuorumBehindBlock' /\ VotesInv'
  <1>1. scene' = scene
    BY Zenon, MovesFlight DEF GossipInv
  <1>2. /\ VoteTypes' /\ QuorumBehindBlock'
        /\ \A n \in Agents : Counted(engine'[n], scene'.height, cast')
    BY Zenon, <1>1, VotesIdle DEF GossipInv, QuietVotes, VoteTypes
  <1> QED
    BY Zenon, <1>1, <1>2, SoundStep DEF GossipInv, QuietVotes

(* Steps that neither handle nor forget an envelope. *)
LEMMA QuietCache ==
    ASSUME GossipInv, Moves, UNCHANGED <<seen, handled>>, now' \in Nat, now <= now'
    PROVE  CacheTypes' /\ ReplayInv' /\ EnvelopeHandledOnce'
  <1>1. ReplayInv'
    BY Zenon, ReplayIdle DEF GossipInv
  <1>2. CacheTypes' /\ EnvelopeHandledOnce'
    BY Zenon DEF GossipInv, CacheTypes, EnvelopeHandledOnce
  <1> QED
    BY Zenon, <1>1, <1>2

(* A step that leaves the envelopes alone. *)
LEMMA StillMoves ==
    ASSUME NetInv, UNCHANGED <<scene, sends, conns, nonces>>
    PROVE  Moves /\ InFlight' \subseteq InFlight
  <1>1. SendersInv'
    BY Zenon DEF NetInv, SendersInv, Waits, Serves
  <1>2. InFlight' = InFlight
    BY Zenon DEF InFlight
  <1> QED
    BY Zenon, <1>1, <1>2 DEF Moves, Carries, NetInv, NetTypes

(* A step of the transport. *)
LEMMA TransportStep ==
    ASSUME GossipInv, TransportNext, UNCHANGED <<nodeVars, counters>>
    PROVE  GossipInv'
  <1>1. Carries
    BY Zenon, TransportCarries DEF GossipInv, NetInv
  <1>2. Moves /\ InFlight' \subseteq InFlight
    BY Zenon, <1>1 DEF Moves, Carries, nodeVars
  <1>3. now' = now /\ now \in Nat /\ machine' = machine
    BY ZenonT(40) DEF TransportNext, Dial, DialFails, SendPlain, Authenticate, ReadResponse,
           GiveUp, Break, GossipInv, NetInv, NetTypes, nodeVars
  <1>4. NetInv'
    BY Zenon, <1>2, <1>3, MovesNet DEF GossipInv, NetInv, NetTypes
  <1>5. CacheTypes' /\ ReplayInv' /\ EnvelopeHandledOnce'
    BY SMTT(30), <1>2, <1>3, QuietCache DEF nodeVars
  <1>6. VoteTypes' /\ QuorumBehindBlock' /\ VotesInv'
    <2>1. QuietVotes
      BY Zenon DEF QuietVotes, nodeVars, counters
    <2>2. NewIsSound
      BY Zenon, <1>2 DEF NewIsSound
    <2> QED
      BY Zenon, <1>2, <2>1, <2>2, QuietStep
  <1> QED
    BY Zenon, <1>4, <1>5, <1>6 DEF GossipInv

(* A message, or cover noise. *)
LEMMA SendMessageStep ==
    ASSUME GossipInv, NEW n \in Agents, NEW m \in Agents,
           NEW kind \in scene.kinds, SendMessage(n, m, kind)
    PROVE  GossipInv'
  <1> DEFINE e == BuildEnvelope(n, kind, m, NoBlock)
  <1>0. /\ UNCHANGED <<scene, now, machine, seen, handled>> /\ QuietVotes
        /\ now \in Nat /\ machine \in [Agents -> Nat] /\ scene \in Scenes
    BY Zenon DEF SendMessage, UnchangedTransport, QuietVotes, GossipInv, NetInv, NetTypes
  <1>1. Makes(e)
    BY Zenon, SendMessageMakes DEF GossipInv
  <1>2. e.kind \notin {"proposal", "vote"}
    BY Zenon, <1>0, SceneTypes DEF BuildEnvelope
  <1> HIDE DEF e
  <1>3. Moves /\ InFlight' \subseteq InFlight \cup {e}
    BY Zenon, <1>1 DEF Moves, Makes
  <1>4. NetInv'
    BY Zenon, <1>0, <1>3, MovesNet DEF GossipInv
  <1>5. CacheTypes' /\ ReplayInv' /\ EnvelopeHandledOnce'
    BY SMTT(30), <1>0, <1>3, QuietCache
  <1>6. NewIsSound
    BY Zenon, <1>2, <1>3 DEF Sound, NewIsSound
  <1>7. VoteTypes' /\ QuorumBehindBlock' /\ VotesInv'
    BY Zenon, <1>0, <1>3, <1>6, QuietStep
  <1> QED
    BY Zenon, <1>4, <1>5, <1>7 DEF GossipInv

(* A proposal, recorded by its proposer before it is broadcast. *)
LEMMA ProposeStep ==
    ASSUME GossipInv, NEW n \in Agents, ProposeBlockHash(n)
    PROVE  GossipInv'
  <1>0. /\ UNCHANGED <<scene, now, machine, seen, handled, chain, slashed, cast>>
        /\ now \in Nat /\ machine \in [Agents -> Nat] /\ scene \in Scenes
        /\ proposals' \in Nat
    BY SMTT(30) DEF ProposeBlockHash, UnchangedTransport, GossipInv, NetInv, NetTypes,
           VoteTypes
  <1>1. PICK b \in Block :
              /\ b.height \in 1..scene.height
              /\ Makes(BuildEnvelope(n, "proposal", NoAgent, b))
              /\ engine' = [engine EXCEPT ![n] = RecordProposal(@, b)]
    BY Zenon, ProposeMakes DEF GossipInv
  <1> DEFINE e == BuildEnvelope(n, "proposal", NoAgent, b)
             r == RecordProposal(engine[n], b)
  <1>2. e.kind = "proposal" /\ e.blk = b
    BY Zenon DEF BuildEnvelope
  <1>3. Makes(e)
    BY Zenon, <1>1
  <1> HIDE DEF e
  <1>4. Moves /\ InFlight' \subseteq InFlight \cup {e}
    BY Zenon, <1>3 DEF Moves, Makes
  <1>5. NetInv'
    BY Zenon, <1>0, <1>4, MovesNet DEF GossipInv
  <1>6. CacheTypes' /\ ReplayInv' /\ EnvelopeHandledOnce'
    BY SMTT(30), <1>0, <1>4, QuietCache
  <1>7. scene.height \in Nat /\ engine[n] \in [1..scene.height -> Slot]
        /\ Counted(engine[n], scene.height, cast)
    BY Zenon, <1>0, SceneTypes DEF GossipInv, VoteTypes, VotesInv
  <1>8. r \in [1..scene.height -> Slot] /\ Counted(r, scene.height, cast)
    BY Zenon, <1>1, <1>7, RecordProposalKeeps
  <1>9. engine' = [engine EXCEPT ![n] = r]
    BY Zenon, <1>1
  <1> HIDE DEF r
  <1>10. /\ engine' \in [Agents -> [1..scene.height -> Slot]]
         /\ \A p \in Agents : \/ engine'[p] = engine[p]
                              \/ Counted(engine'[p], scene.height, cast)
    BY Zenon, <1>8, <1>9 DEF GossipInv, VoteTypes
  <1>11. VoteTypes'
    BY Zenon, <1>0, <1>10 DEF GossipInv, VoteTypes
  <1>12. QuorumBehindBlock'
    BY Zenon, <1>0 DEF GossipInv, QuorumBehindBlock, Height
  <1>13. \A p \in Agents : Counted(engine'[p], scene'.height, cast')
    BY Zenon, <1>0, <1>10 DEF GossipInv, VotesInv
  <1>14. NewIsSound
    BY Zenon, <1>0, <1>1, <1>2, <1>4 DEF Sound, NewIsSound
  <1>15. VotesInv'
    BY Zenon, <1>0, <1>4, <1>13, <1>14, SoundStep DEF GossipInv
  <1> QED
    BY Zenon, <1>5, <1>6, <1>11, <1>12, <1>15 DEF GossipInv

(* The vote of a node for its own proposal. *)
LEMMA SelfVoteStep ==
    ASSUME GossipInv, NEW s \in sends, voteAndFinalizeSelf(s)
    PROVE  GossipInv'
  <1> DEFINE n == s.node
             b == s.env.blk
             e == BuildEnvelope(n, "vote", NoAgent, b)
  <1>0. /\ UNCHANGED <<scene, now, machine, seen, handled, proposals>>
        /\ now \in Nat /\ machine \in [Agents -> Nat] /\ scene \in Scenes
        /\ proposals' \in Nat /\ cast' = cast \cup {<<n, b.id>>}
        /\ CountVote(n, n, b)
    BY Zenon DEF voteAndFinalizeSelf, UnchangedTransport, GossipInv, NetInv, NetTypes,
           VoteTypes
  <1>1. n \in Agents /\ b \in Block /\ b.height \in 1..scene.height
    <2>1. s \in Sending /\ s.env \in InFlight
      BY Zenon DEF GossipInv, NetInv, NetTypes, InFlight
    <2>2. s.node \in Agents /\ s.env \in Envelope
      BY Zenon, <2>1 DEF Sending
    <2>3. s.env.kind = "proposal" /\ Sound(s.env)
      BY Zenon, <2>1 DEF GossipInv, NetInv, SendersInv, VotesInv, voteAndFinalizeSelf
    <2> QED
      BY Zenon, <2>2, <2>3 DEF Sound, Envelope
  <1>2. Makes(e)
    BY Zenon, SelfVoteMakes DEF GossipInv
  <1>3. e.kind = "vote" /\ e.blk = b /\ e.from = n
    BY Zenon DEF BuildEnvelope
  <1> HIDE DEF e, n, b
  <1>4. Moves /\ InFlight' \subseteq InFlight \cup {e}
    BY Zenon, <1>2 DEF Moves, Makes
  <1>5. NetInv'
    BY Zenon, <1>0, <1>4, MovesNet DEF GossipInv
  <1>6. CacheTypes' /\ ReplayInv' /\ EnvelopeHandledOnce'
    BY SMTT(30), <1>0, <1>4, QuietCache
  <1>7. /\ VoteTypes' /\ QuorumBehindBlock'
        /\ \A p \in Agents : Counted(engine'[p], scene.height, cast')
    <2>1. /\ VoteTypes /\ scene.height \in Nat /\ QuorumBehindBlock
          /\ \A p \in Agents : Counted(engine[p], scene.height, cast)
      BY Zenon, <1>0, SceneTypes DEF GossipInv, VotesInv
    <2>2. cast \subseteq cast' /\ <<n, b.id>> \in cast'
      BY Zenon, <1>0
    <2> QED
      BY Zenon, <1>0, <1>1, <2>1, <2>2, CountVoteKeeps
  <1>8. NewIsSound
    BY Zenon, <1>0, <1>1, <1>3, <1>4 DEF Sound, NewIsSound
  <1>9. VotesInv'
    BY Zenon, <1>0, <1>7, <1>8, SoundStep DEF GossipInv
  <1> QED
    BY Zenon, <1>5, <1>6, <1>7, <1>9 DEF GossipInv

(* What a handler that counts no vote does to the engine and the penalties. *)
LEMMA HandleProposalKeeps ==
    ASSUME GossipInv, NEW n \in Agents, NEW env \in InFlight, handleRaw(n, env),
           ~(FromValidator(n, env) /\ env.kind = "vote"),
           scene' = scene, proposals' = proposals, cast \subseteq cast'
    PROVE  /\ VoteTypes' /\ QuorumBehindBlock'
           /\ \A p \in Agents : Counted(engine'[p], scene.height, cast')
  <1> DEFINE b == env.blk
             r == RecordProposal(engine[n], b)
             g == [slashed[n] EXCEPT ![env.from] = @ + 1]
  <1>0. /\ scene.height \in Nat /\ engine[n] \in [1..scene.height -> Slot]
        /\ slashed[n] \in [Nodes -> Nat]
        /\ \A p \in Agents : Counted(engine[p], scene.height, cast')
        /\ \A p \in Agents : Certified(chain[p], cast')
    BY Zenon, SceneTypes, MoreVotes, QuorumIsCertified
       DEF GossipInv, NetInv, NetTypes, VoteTypes, VotesInv
  <1>1. /\ chain' = chain
        /\ IF GoodProposal(n, env) THEN engine' = [engine EXCEPT ![n] = r]
           ELSE engine' = engine
        /\ slashed' = slashed \/ slashed' = [slashed EXCEPT ![n] = g]
    BY Zenon DEF handleRaw
  <1>2. ASSUME GoodProposal(n, env)
        PROVE  r \in [1..scene.height -> Slot] /\ Counted(r, scene.height, cast')
    <2>1. env.kind = "proposal" /\ Sound(env) /\ env \in Envelope
      BY Zenon, <1>2, InFlightTypes
         DEF GoodProposal, NextProposal, GossipInv, VotesInv, NetInv
    <2>2. b \in Block /\ b.height \in 1..scene.height
      BY Zenon, <2>1 DEF Sound, Envelope
    <2> HIDE DEF b
    <2> QED
      BY Zenon, <1>0, <2>2, RecordProposalKeeps
  <1>3. g \in [Nodes -> Nat]
    <2>1. 1 \in Nat
      BY Zenon
    <2> QED
      BY Zenon, <1>0, <2>1, CountsOn
  <1> HIDE DEF r, g
  <1>4. /\ engine' \in [Agents -> [1..scene.height -> Slot]]
        /\ \A p \in Agents : Counted(engine'[p], scene.height, cast')
    BY ZenonT(40), <1>0, <1>1, <1>2 DEF GossipInv, VoteTypes
  <1>5. slashed' \in [Agents -> [Nodes -> Nat]]
    BY Zenon, <1>1, <1>3 DEF GossipInv, VoteTypes
  <1>6. VoteTypes'
    BY Zenon, <1>1, <1>4, <1>5 DEF GossipInv, VoteTypes
  <1>7. QuorumBehindBlock'
    BY Zenon, <1>0, <1>1 DEF QuorumBehindBlock, Certified, Height
  <1> QED
    BY Zenon, <1>4, <1>6, <1>7

(* An envelope reaches its handler, perhaps again. *)
LEMMA DispatchStep ==
    ASSUME GossipInv, NEW c \in conns, NEW again \in BOOLEAN, Dispatch(c, again)
    PROVE  GossipInv'
  <1> DEFINE n == c.to
             env == c.env
             e == BuildEnvelope(n, "vote", NoAgent, env.blk)
  <1>0. /\ UNCHANGED <<scene, now, machine, proposals>> /\ handleRaw(n, env)
        /\ now \in Nat /\ machine \in [Agents -> Nat] /\ scene \in Scenes
        /\ proposals' \in Nat
        /\ cast' = IF Answers(n, env) THEN cast \cup {<<n, env.blk.id>>} ELSE cast
    BY Zenon DEF Dispatch, handleRaw, GossipInv, NetInv, NetTypes, VoteTypes
  <1>1. n \in Agents /\ env \in InFlight /\ env \in Envelope
    <2>1. c \in Conn
      BY Zenon DEF GossipInv, NetInv, NetTypes
    <2> QED
      BY Zenon, <2>1 DEF Conn, InFlight
  <1>2. e.kind = "vote" /\ e.blk = env.blk /\ e.from = n
    BY Zenon DEF BuildEnvelope
  <1>3. /\ Answers(n, env) => Makes(e)
        /\ ~Answers(n, env) => Carries /\ nonces' = nonces
    BY Zenon, DispatchMoves DEF GossipInv
  <1> HIDE DEF e, n, env
  <1>4. /\ Moves
        /\ InFlight' \subseteq InFlight \cup {e}
        /\ ~Answers(n, env) => InFlight' \subseteq InFlight
    BY Zenon, <1>3 DEF Moves, Makes, Carries
  <1>5. NetInv'
    BY Zenon, <1>0, <1>4, MovesNet DEF GossipInv
  <1>6. CacheTypes' /\ ReplayInv' /\ EnvelopeHandledOnce'
    BY Zenon, <1>0, <1>1, <1>4, ReplayHandles DEF GossipInv
  <1>7. /\ VoteTypes' /\ QuorumBehindBlock'
        /\ \A p \in Agents : Counted(engine'[p], scene.height, cast')
    <2>1. CASE FromValidator(n, env) /\ env.kind = "vote"
      <3>1. /\ VoteTypes /\ scene.height \in Nat /\ QuorumBehindBlock
            /\ \A p \in Agents : Counted(engine[p], scene.height, cast)
        BY Zenon, <1>0, SceneTypes DEF GossipInv, VotesInv
      <3>2. /\ env.from \in Agents /\ env.blk \in Block
            /\ env.blk.height \in 1..scene.height
            /\ <<env.from, env.blk.id>> \in cast
        BY Zenon, <1>1, <2>1 DEF GossipInv, VotesInv, Sound, Envelope
      <3>3. cast \subseteq cast'
        BY Zenon, <1>0
      <3>4. CountVote(n, env.from, env.blk)
        BY Zenon, <1>0, <2>1 DEF handleRaw
      <3> QED
        BY Zenon, <1>0, <1>1, <3>1, <3>2, <3>3, <3>4, CountVoteKeeps
    <2>2. CASE ~(FromValidator(n, env) /\ env.kind = "vote")
      <3>1. cast \subseteq cast'
        BY SMTT(30), <1>0
      <3> QED
        BY Zenon, <1>0, <1>1, <2>2, <3>1, HandleProposalKeeps
    <2> QED
      BY Zenon, <2>1, <2>2
  <1>8. NewIsSound
    <2>1. CASE Answers(n, env)
      <3>1. env.kind = "proposal" /\ Sound(env)
        BY Zenon, <1>1, <2>1
           DEF Answers, GoodProposal, NextProposal, GossipInv, VotesInv
      <3> QED
        BY Zenon, <1>0, <1>2, <1>4, <2>1, <3>1 DEF Sound, NewIsSound
    <2>2. CASE ~Answers(n, env)
      BY Zenon, <1>4, <2>2 DEF NewIsSound
    <2> QED
      BY Zenon, <2>1, <2>2
  <1>9. VotesInv'
    <2>1. cast \subseteq cast'
      BY Zenon, <1>0
    <2> QED
      BY Zenon, <1>0, <1>7, <1>8, <2>1, SoundStep DEF GossipInv
  <1> QED
    BY Zenon, <1>5, <1>6, <1>7, <1>9 DEF GossipInv

(* An engine that starts has counted nothing. *)
LEMMA NewEngineTypes ==
    /\ NewEngine \in [1..scene.height -> Slot]
    /\ Counted(NewEngine, scene.height, cast)
  <1>1. NoBlock \in Block
    <2>1. NoPenalty \in [Nodes -> Nat]
      BY Zenon DEF NoPenalty
    <2> QED
      BY Zenon, <2>1 DEF NoBlock, Block
  <1>2. NewSlot(NoBlock) \in Slot /\ NewSlot(NoBlock).votes = {}
    BY Zenon, <1>1 DEF NewSlot, Slot
  <1> QED
    BY Zenon, <1>2 DEF NewEngine, Counted

(* A step that touches no envelope, cache, vote or chain: a peer becomes    *)
(* known, an agent moves, time passes, or nothing happens.                  *)
LEMMA StillStep ==
    ASSUME GossipInv, UNCHANGED <<scene, sends, conns, nonces, seen, handled>>,
           QuietVotes, now' \in Nat, now <= now', machine' \in [Agents -> Nat]
    PROVE  GossipInv'
  <1>1. Moves /\ InFlight' \subseteq InFlight
    BY Zenon, StillMoves DEF GossipInv
  <1>2. NetInv'
    BY Zenon, <1>1, MovesNet DEF GossipInv
  <1>3. CacheTypes' /\ ReplayInv' /\ EnvelopeHandledOnce'
    BY Zenon, <1>1, QuietCache
  <1>4. VoteTypes' /\ QuorumBehindBlock' /\ VotesInv'
    <2>1. NewIsSound
      BY Zenon, <1>1 DEF NewIsSound
    <2> QED
      BY Zenon, <1>1, <2>1, QuietStep
  <1> QED
    BY Zenon, <1>2, <1>3, <1>4 DEF GossipInv

(* A process starts again: it has forgotten what it handled, and the votes  *)
(* it had counted, but not its chain.                                       *)
LEMMA RestartStep ==
    ASSUME GossipInv, NEW n \in Agents, Restart(n)
    PROVE  GossipInv'
  <1>0. /\ UNCHANGED <<scene, now, machine, nonces, chain, slashed, cast,
                       proposals>>
        /\ now \in Nat /\ machine \in [Agents -> Nat] /\ scene \in Scenes
        /\ seen' = [seen EXCEPT ![n] = {}]
        /\ handled' = [handled EXCEPT ![n] =
                         [m \in Agents |-> [k \in 1..MaxNonce |-> 0]]]
        /\ engine' = [engine EXCEPT ![n] = NewEngine]
    BY Zenon DEF Restart, GossipInv, NetInv, NetTypes
  <1>1. Carries
    BY Zenon, RestartCarries DEF GossipInv, NetInv
  <1>2. Moves /\ InFlight' \subseteq InFlight
    BY Zenon, <1>0, <1>1 DEF Moves, Carries
  <1>3. NetInv'
    BY Zenon, <1>0, <1>2, MovesNet DEF GossipInv
  <1>4. CacheTypes' /\ ReplayInv' /\ EnvelopeHandledOnce'
    BY Zenon, <1>0, <1>2, ReplayRestarts DEF GossipInv
  <1>5. /\ NewEngine \in [1..scene.height -> Slot]
        /\ Counted(NewEngine, scene.height, cast)
    BY Zenon, NewEngineTypes DEF GossipInv
  <1>6. /\ engine' \in [Agents -> [1..scene.height -> Slot]]
        /\ \A p \in Agents : \/ engine'[p] = engine[p]
                             \/ Counted(engine'[p], scene.height, cast)
    BY Zenon, <1>0, <1>5 DEF GossipInv, VoteTypes
  <1>7. /\ VoteTypes' /\ QuorumBehindBlock'
        /\ \A p \in Agents : Counted(engine'[p], scene'.height, cast')
    BY Zenon, <1>0, <1>6, VotesIdle DEF GossipInv
  <1>8. VotesInv'
    <2>1. NewIsSound
      BY Zenon, <1>2 DEF NewIsSound
    <2> QED
      BY Zenon, <1>0, <1>7, <2>1, SoundStep DEF GossipInv
  <1> QED
    BY Zenon, <1>3, <1>4, <1>7, <1>8 DEF GossipInv

(* The invariant holds in the initial states. *)
LEMMA GossipInit == Init => GossipInv
  <1> SUFFICES ASSUME Init
               PROVE  GossipInv
    BY Zenon
  <1>0. /\ scene \in Scenes /\ now = 0 /\ sends = {} /\ conns = {}
        /\ machine = [n \in Agents |-> 1] /\ nonces = [n \in Agents |-> 0]
        /\ seen = [n \in Agents |-> {}] /\ chain = [n \in Agents |-> <<>>]
        /\ engine = [n \in Agents |-> NewEngine]
        /\ slashed = [n \in Agents |-> NoPenalty]
        /\ handled = [n \in Agents |->
                        [m \in Agents |-> [k \in 1..MaxNonce |-> 0]]]
        /\ cast = {} /\ proposals = 0
    BY Zenon DEF Init, TransportInit, MessagesInit, PerPeer
  <1>1. InFlight = {}
    BY Zenon, <1>0 DEF InFlight
  <1>2. NetInv
    BY Zenon, <1>0, <1>1 DEF NetInv, NetTypes, SendersInv, NoncesInv
  <1>3. CacheTypes
    BY Zenon, <1>0 DEF CacheTypes
  <1>4. \A n, m \in Agents : \A k \in 1..MaxNonce : handled[n][m][k] = 0
    BY Zenon, <1>0
  <1>5. EnvelopeHandledOnce
    BY SMTT(30), <1>4 DEF EnvelopeHandledOnce
  <1>6. ReplayInv
    BY SMTT(30), <1>1, <1>4 DEF ReplayInv
  <1>7. /\ NewEngine \in [1..scene.height -> Slot]
        /\ Counted(NewEngine, scene.height, cast)
    BY Zenon, NewEngineTypes
  <1>8. VoteTypes
    <2>1. NoPenalty \in [Nodes -> Nat]
      BY Zenon DEF NoPenalty
    <2> QED
      BY SMTT(30), <1>0, <1>7, <2>1 DEF VoteTypes
  <1>9. VotesInv
    BY Zenon, <1>0, <1>1, <1>7 DEF VotesInv
  <1>10. QuorumBehindBlock
    BY SMTT(30), <1>0 DEF QuorumBehindBlock, Height
  <1> QED
    BY Zenon, <1>2, <1>3, <1>5, <1>6, <1>8, <1>9, <1>10 DEF GossipInv

(* Every step keeps it. *)
LEMMA GossipNext ==
    ASSUME GossipInv, [Next]_vars
    PROVE  GossipInv'
  <1>0. now \in Nat /\ machine \in [Agents -> Nat]
    BY Zenon DEF GossipInv, NetInv, NetTypes
  <1>1. CASE TransportNext /\ UNCHANGED <<nodeVars, counters>>
    BY Zenon, <1>1, TransportStep
  <1>2. ASSUME NEW n \in Agents, NEW m \in Agents \ {n}, NEW kind \in scene.kinds,
               SendMessage(n, m, kind)
        PROVE  GossipInv'
    BY Zenon, <1>2, SendMessageStep
  <1>3. ASSUME NEW n \in Agents, NEW m \in Agents, AddPeer(n, m)
        PROVE  GossipInv'
    <2>1. /\ UNCHANGED <<scene, sends, conns, nonces, seen, handled, now, machine>>
          /\ QuietVotes
      BY Zenon, <1>3 DEF AddPeer, transportVars, counters, QuietVotes
    <2> QED
      BY SMTT(30), <1>0, <2>1, StillStep
  <1>4. ASSUME NEW n \in Agents, ProposeBlockHash(n)
        PROVE  GossipInv'
    BY Zenon, <1>4, ProposeStep
  <1>5. ASSUME NEW n \in Agents, Move(n)
        PROVE  GossipInv'
    <2>1. /\ UNCHANGED <<scene, sends, conns, nonces, seen, handled, now>>
          /\ QuietVotes /\ machine' = [machine EXCEPT ![n] = @ + 1]
      BY Zenon, <1>5 DEF Move, transportVars, QuietVotes
    <2>2. machine' \in [Agents -> Nat]
      BY SMTT(30), <1>0, <2>1
    <2> QED
      BY SMTT(30), <1>0, <2>1, <2>2, StillStep
  <1>6. ASSUME NEW n \in Agents, Restart(n)
        PROVE  GossipInv'
    BY SMTT(30), <1>6, RestartStep
  <1>7. ASSUME NEW s \in sends, voteAndFinalizeSelf(s)
        PROVE  GossipInv'
    BY Zenon, <1>7, SelfVoteStep
  <1>8. ASSUME NEW c \in conns, NEW again \in BOOLEAN, Dispatch(c, again)
        PROVE  GossipInv'
    BY Zenon, <1>8, DispatchStep
  <1>9. CASE Tick
    <2>1. /\ UNCHANGED <<scene, sends, conns, nonces, seen, handled, machine>>
          /\ QuietVotes /\ now' = now + 1
      BY Zenon, <1>9 DEF Tick, transportVars, nodeVars, counters, QuietVotes
    <2>2. now' \in Nat /\ now <= now'
      BY SMTT(30), <1>0, <2>1
    <2> QED
      BY Zenon, <1>0, <2>1, <2>2, StillStep
  <1>10. CASE Quiet \/ UNCHANGED vars
    <2>1. /\ UNCHANGED <<scene, sends, conns, nonces, seen, handled, now, machine>>
          /\ QuietVotes
      BY Zenon, <1>10 DEF Quiet, vars, transportVars, nodeVars, counters, QuietVotes
    <2> QED
      BY SMTT(30), <1>0, <2>1, StillStep
  <1> QED
    BY Zenon, <1>1, <1>2, <1>3, <1>4, <1>5, <1>6, <1>7, <1>8, <1>9, <1>10 DEF Next

-----------------------------------------------------------------------------
(* The theorems.                                                           *)

(* GossipInv holds in every reachable state, whatever the agents, their     *)
(* clocks, the faults of the transport, the restarts and the bounds.        *)
THEOREM GossipInvariant == Spec => []GossipInv
  <1>1. GossipInv /\ [Next]_vars => GossipInv'
    BY Zenon, GossipNext
  <1> QED
    BY <1>1, GossipInit, PTL DEF Spec

(* handleRaw acts on an envelope at most once in the life of a process:     *)
(* however many nodes there are, whatever their clocks differ by and        *)
(* however often an envelope is delivered, the replay cache holds its nonce *)
(* for as long as FreshEnough lets it in.                                   *)
THEOREM HandledOnce == Spec => []EnvelopeHandledOnce
  <1>1. GossipInv => EnvelopeHandledOnce
    BY Zenon DEF GossipInv
  <1> QED
    BY <1>1, GossipInvariant, PTL

(* Every block a node finalizes carries the approvals of a quorum, and each *)
(* of them is a vote its validator cast for the hash of that block, though  *)
(* candidates are replaced and votes arrive late, twice or not at all.      *)
THEOREM QuorumsBehindBlocks == Spec => []QuorumBehindBlock
  <1>1. GossipInv => QuorumBehindBlock
    BY Zenon DEF GossipInv
  <1> QED
    BY <1>1, GossipInvariant, PTL

=============================================================================
