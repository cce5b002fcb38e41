------------------------------- MODULE Gossip -------------------------------
(***************************************************************************)
(* Nodes that talk over a peer-to-peer transport: the senders (the         *)
(* communicator of internal/rpc/communicator.go, cover noise of            *)
(* internal/agent/agent.go, ProposeBlockHash of internal/node/node.go),    *)
(* the transport (SecureTransport) and the receivers (NodeMessages).       *)
(***************************************************************************)
EXTENDS NodeMessages

VARIABLES
    cast,       \* history: the votes made, as pairs of a validator and a hash
    messages, proposals, moves, dups, restarts   \* how many so far

(* What holds of every scene: clocks are numbers, addresses are those of    *)
(* agents, and what is sent besides proposals and votes is neither.         *)
ASSUME ScenesAssumption ==
    \A s \in Scenes :
        /\ s.skew \in [Agents -> Int] /\ s.addrs \in [Agents -> SUBSET Agents]
        /\ s.kinds \cap {"proposal", "vote"} = {} /\ s.height \in Nat

counters == <<cast, messages, proposals, moves, dups, restarts>>
vars == <<transportVars, now, nodeVars, counters>>

Init ==
    /\ TransportInit /\ MessagesInit
    /\ cast = {} /\ messages = 0 /\ proposals = 0 /\ moves = 0 /\ dups = 0 /\ restarts = 0

UnchangedTransport ==
    UNCHANGED <<scene, now, conns, banned, failed, replayProtection,
                connectionErrors, lastDial, faults>>

(* A goroutine starts to send env.  One with nobody to send to is done.     *)
Send(n, env, then, slot, S) ==
    LET s == Sender(n, env, then, slot)
    IN  IF s.todo = {} /\ then = "end" THEN S ELSE S \cup {s}

(* handleCommunicatorSend to m, or SendEnvelope of cover noise. *)
SendMessage(n, m, kind) ==
    /\ messages < scene.messages /\ nonces[n] < MaxNonce
    /\ n \in scene.talkers /\ m \in peers[n]
    /\ messages' = messages + 1
    /\ nonces' = [nonces EXCEPT ![n] = @ + 1]
    /\ sends' = Send(n, BuildEnvelope(n, kind, m, NoBlock), "end", FALSE, sends)
    /\ UnchangedTransport
    /\ UNCHANGED <<peers, machine, buckets, seen, pinned, inbox, chain, engine,
                   slashed, handled, cast, proposals, moves, dups, restarts>>

(* ProposeBlockHash up to the broadcast of the proposal, called by          *)
(* handleProposeBlock or the producer's ticker.                             *)
ProposeBlockHash(n) ==
    LET b == [id |-> proposals + 1, height |-> Height(n) + 1,
              parent |-> TipId(chain[n]), proposer |-> n, root |-> slashed[n]]
    IN  /\ n \in scene.producers /\ proposals < scene.proposals
        /\ Height(n) < scene.height /\ nonces[n] < MaxNonce
        /\ proposals' = proposals + 1
        /\ nonces' = [nonces EXCEPT ![n] = @ + 1]
        /\ engine' = [engine EXCEPT ![n] = RecordProposal(@, b)]
        /\ sends' = Send(n, BuildEnvelope(n, "proposal", NoAgent, b), "vote",
                         FALSE, sends)
        /\ UnchangedTransport
        /\ UNCHANGED <<peers, machine, buckets, seen, pinned, inbox, chain,
                       slashed, handled, cast, messages, moves, dups,
                       restarts>>

(* voteAndFinalizeSelfProposal, when the proposal has been broadcast: the   *)
(* node's own vote is recorded, and broadcast.                              *)
voteAndFinalizeSelf(s) ==
    LET n == s.node
        b == s.env.blk
    IN  /\ s.then = "vote" /\ s.todo = {}
        /\ CountVote(n, n, b)
        /\ cast' = cast \cup {<<n, b.id>>}
        /\ nonces' = [nonces EXCEPT ![n] = @ + 1]
        /\ sends' = Send(n, BuildEnvelope(n, "vote", NoAgent, b), "end", FALSE,
                         sends \ {s})
        /\ UnchangedTransport
        /\ UNCHANGED <<peers, machine, buckets, seen, pinned, inbox, handled,
                       messages, proposals, moves, dups, restarts>>

(* handleConn and dispatch: the payload is handled, in the connection's     *)
(* goroutine, which also broadcasts the vote on a proposal.  On the way to  *)
(* a plain TCP node an envelope may be delivered again.                     *)
Dispatch(c, again) ==
    LET n == c.to
    IN  /\ c.at = "payload" /\ handleRaw(n, c.env)
        /\ again => scene.kind = "tcp" /\ dups < scene.dups
        /\ dups' = IF again THEN dups + 1 ELSE dups
        /\ conns' = IF again THEN conns ELSE conns \ {c}
        /\ sends' = IF Answers(n, c.env)
                    THEN Send(n, BuildEnvelope(n, "vote", NoAgent, c.env.blk),
                              "end", TRUE, sends)
                    ELSE sends
        /\ cast' = IF Answers(n, c.env) THEN cast \cup {<<n, c.env.blk.id>>}
                   ELSE cast
        /\ UNCHANGED <<scene, now, banned, failed, replayProtection,
                       connectionErrors, lastDial, faults, messages, proposals,
                       moves, restarts>>

(* AddPeer: startValidatorRosterSync learns the key of another validator. *)
AddPeer(n, m) ==
    /\ m \in scene.joining \ peers[n]
    /\ peers' = [peers EXCEPT ![n] = @ \cup {m}]
    /\ UNCHANGED <<transportVars, now, machine, nonces, buckets, seen, pinned,
                   inbox, chain, engine, slashed, handled, counters>>

(* An agent moves to other hardware and keeps its key. *)
Move(n) ==
    /\ moves < scene.moves /\ n \in scene.talkers
    /\ moves' = moves + 1
    /\ machine' = [machine EXCEPT ![n] = @ + 1]
    /\ UNCHANGED <<transportVars, now, peers, nonces, buckets, seen, pinned,
                   inbox, chain, engine, slashed, handled, cast, messages,
                   proposals, dups, restarts>>

(* The process of n starts again: the chain is in its store, nothing else   *)
(* is.  Its connections break, so those who wait for its answer go on.  No  *)
(* scene with restarts proposes blocks.                                     *)
Restart(n) ==
    LET waiting == {s \in sends : s.node # n /\ s.to = n}
        left == {c \in conns : c.from = n /\ c.at = "hello"}
    IN  /\ restarts < scene.restarts
        /\ restarts' = restarts + 1
        /\ conns' = {c \in conns : /\ c.to # n
                                   /\ c.from # n \/ c.at \in {"payload", "orphan"}}
                    \cup {[c EXCEPT !.at = "orphan"] : c \in left}
        /\ sends' = ({s \in sends : s.node # n} \ waiting) \cup
                    {[s EXCEPT !.todo = @ \ {n}, !.to = NoAgent] :
                        s \in {w \in waiting : w.todo # {n}}}
        /\ banned' = [banned EXCEPT ![n] = {}]
        /\ failed' = [failed EXCEPT ![n] = [m \in Agents |-> 0]]
        /\ replayProtection' =
              [replayProtection EXCEPT ![n] = [m \in Agents |-> <<>>]]
        /\ connectionErrors' =
              [connectionErrors EXCEPT ![n] = [m \in Agents |-> 0]]
        /\ peers' = [peers EXCEPT ![n] = scene.known[n]]
        /\ buckets' = [buckets EXCEPT ![n] = NewPeerLimiter(n)]
        /\ seen' = [seen EXCEPT ![n] = {}]
        /\ pinned' = [pinned EXCEPT ![n] = [m \in Agents |-> 0]]
        /\ inbox' = [inbox EXCEPT ![n] = <<>>]
        /\ engine' = [engine EXCEPT ![n] = NewEngine]
        /\ handled' = [handled EXCEPT ![n] =
                         [m \in Agents |-> [k \in 1..MaxNonce |-> 0]]]
        /\ UNCHANGED <<scene, now, lastDial, faults, machine, nonces, chain,
                       slashed, cast, messages, proposals, moves, dups>>

Tick ==
    /\ now < scene.ticks
    /\ now' = now + 1
    /\ UNCHANGED <<transportVars, nodeVars, counters>>

(* Nothing is left to do, or only sends that wait for the next second when  *)
(* the clock has reached its bound.                                         *)
Quiet ==
    /\ conns = {}
    /\ \A s \in sends :
          /\ now = scene.ticks /\ scene.spaced /\ s.todo # {}
          /\ \A m \in s.todo : lastDial[s.node][m] = <<now>>
    /\ UNCHANGED vars

Next ==
    \/ TransportNext /\ UNCHANGED <<nodeVars, counters>>
    \/ \E n \in Agents :
          \/ \E m \in Agents \ {n} :
                \/ \E kind \in scene.kinds : SendMessage(n, m, kind)
                \/ AddPeer(n, m)
          \/ ProposeBlockHash(n) \/ Move(n) \/ Restart(n)
    \/ \E s \in sends : voteAndFinalizeSelf(s)
    \/ \E c \in conns : \E again \in BOOLEAN : Dispatch(c, again)
    \/ Tick
    \/ Quiet

Spec == Init /\ [][Next]_vars
-----------------------------------------------------------------------------
(* handleRaw acts on an envelope at most once in the life of a process,    *)
(* however often and late it is delivered and whatever the clocks differ   *)
(* by: the replay cache forgets a nonce only when FreshEnough refuses it.  *)
EnvelopeHandledOnce ==
    \A n, m \in Agents : \A k \in 1..MaxNonce : handled[n][m][k] <= 1

(* A node finalizes only blocks a quorum of validators voted for: the      *)
(* approvals in QuorumSignatures are votes for that very hash, although    *)
(* the candidate of a height may be replaced while votes are on their way. *)
QuorumBehindBlock ==
    \A n \in Agents : \A h \in 1..Height(n) :
        LET c == chain[n][h]
        IN  /\ Cardinality(c.sigs) >= requiredForFinality
            /\ \A v \in c.sigs : <<v, c.blk.id>> \in cast

(* A validator that sends a peer at most one message a second, and whose   *)
(* key the peer has, bans or is banned only over connection errors of one  *)
(* side (VerifyHandshake, recordConnectionError): no order of handshakes,  *)
(* late responses or lost connections looks like a replay.                 *)
BansExplained ==
    \A n, m \in Agents :
        /\ scene.spaced /\ m \in banned[n]
        /\ {n, m} \cap scene.rekeyed = {}
        /\ n \in scene.trusted[m] /\ m \in scene.trusted[n]
        => \/ connectionErrors[n][m] > ErrorThreshold
           \/ connectionErrors[m][n] > ErrorThreshold

(* When no connection fails, a sender leaves a second between its messages *)
(* to a peer and everything sent has been handled, a block broadcast once  *)
(* by ProposeBlockHash is final at its proposer, in whatever order the     *)
(* proposal and the votes reached the others.                              *)
ProposerFinalizes ==
    /\ sends = {} /\ conns = {} /\ scene.spaced
    /\ proposals = 1 /\ scene.proposals = 1 /\ scene.faults = 0
    => \A n \in scene.producers : Height(n) = 1

=============================================================================
