---------------------------- MODULE NodeMessages ----------------------------
(***************************************************************************)
(* What a node does with an envelope that reaches it: handleRaw of         *)
(* internal/node/node.go with the inbound limiter (network/ratelimit.go),  *)
(* VerifyEnvelope and the replay cache (agent/agent.go,                    *)
(* network/replay_cache.go), the pinned hardware hash, and the proposal,   *)
(* vote and communicator handlers.                                         *)
(*                                                                         *)
(* An envelope carries its sender's clock, a nonce of its own and the hash *)
(* of the sender's hardware.  The agents 1..N are the validators; a block  *)
(* is a hash, a height, a parent and a proposer.                           *)
(***************************************************************************)
EXTENDS SecureTransport, VoteEngine

CONSTANTS
    FreshWindow,    \* FreshEnough, 5 minutes either way
    ReplayTTL,      \* the replay cache's ttl, 10 minutes
    Burst, Rate,    \* NewPeerLimiter(50, 10)
    InboxSize,      \* maxInboxSize, 200
    EquivocationPenalty,    \* in invalid-block penalties
    MaxNonce        \* bound: envelopes one agent makes

ASSUME MessagesAssumption ==
    /\ Nodes \subseteq Agents
    /\ {FreshWindow, ReplayTTL, Rate, InboxSize, EquivocationPenalty, MaxNonce}
          \subseteq Nat
    /\ Burst \in Nat \ {0}

(* An envelope is fresh for twice FreshWindow of the receiver's clock.      *)
ASSUME TTLAssumption == ReplayTTL >= 2 * FreshWindow

VARIABLES
    peers,      \* per node: Node.Peers, the agents whose key it knows
    machine,    \* per agent: the hardware it runs on
    nonces,     \* per agent: envelopes made so far
    buckets,    \* per node and peer: InboundLimiter
    seen,       \* per node: replayCache, with the time of each entry
    pinned,     \* per node and peer: PeerHardwareHash, 0 if absent
    inbox,      \* per node: Communicator messages
    chain,      \* per node: finalized blocks with their QuorumSignatures
    engine,     \* per node: the vote engine
    slashed,    \* per node: what its state has taken from each validator
    handled     \* history: how often a node handled each envelope

nodeVars == <<peers, machine, nonces, buckets, seen, pinned, inbox, chain,
              engine, slashed, handled>>

NoPenalty == [v \in Nodes |-> 0]
NoBlock == [id |-> 0, height |-> 0, parent |-> 0, proposer |-> 0,
            root |-> NoPenalty]

NewEngine == [h \in 1..scene.height |-> NewSlot(NoBlock)]

NewTokenBucket(t) == [tokens |-> Burst, last |-> t]

(* A bucket made when the node starts: PeerLimiter makes it, full, at the   *)
(* first message, which is the same.                                        *)
NewPeerLimiter(n) == [m \in Agents |-> NewTokenBucket(Clock(n))]

MessagesInit ==
    /\ peers = scene.known
    /\ machine = [n \in Agents |-> 1]
    /\ nonces = [n \in Agents |-> 0]
    /\ buckets = [n \in Agents |-> NewPeerLimiter(n)]
    /\ seen = [n \in Agents |-> {}]
    /\ pinned = PerPeer(0)
    /\ inbox = [n \in Agents |-> <<>>]
    /\ chain = [n \in Agents |-> <<>>]
    /\ engine = [n \in Agents |-> NewEngine]
    /\ slashed = [n \in Agents |-> NoPenalty]
    /\ handled = PerPeer([k \in 1..MaxNonce |-> 0])

(* BuildEnvelope. *)
BuildEnvelope(n, kind, to, blk) ==
    [from |-> n, nonce |-> nonces[n] + 1, ts |-> Clock(n), kind |-> kind,
     hw |-> machine[n], to |-> to, blk |-> blk]

-----------------------------------------------------------------------------
(* The checks of handleRaw, in the order it makes them. *)

(* TokenBucket.Allow up to the test: the bucket of n for m, refilled. *)
Refilled(n, m) ==
    LET b == buckets[n][m]
    IN  IF Clock(n) > b.last
        THEN [tokens |-> Min({Burst, b.tokens + Rate * (Clock(n) - b.last)}),
              last |-> Clock(n)]
        ELSE b

(* TokenBucket.Allow: a token is there. *)
Allowed(n, env) == Refilled(n, env.from).tokens >= 1

FreshEnough(n, env) ==
    Clock(n) - FreshWindow <= env.ts /\ env.ts <= Clock(n) + FreshWindow

cleanupLocked_Inclusive(n) == {e \in seen[n] : e.at > Clock(n) - ReplayTTL}

(* ReplayCache.cleanupLocked: entries strictly older than the ttl go. *)
cleanupLocked(n) == {e \in seen[n] : e.at >= Clock(n) - ReplayTTL}

(* ReplayCache.SeenBefore. *)
SeenBefore(n, env) ==
    \E e \in cleanupLocked(n) : e.from = env.from /\ e.nonce = env.nonce

(* The signature of VerifyEnvelope, under the key n has for the sender. *)
SignatureOK(env) == env.from \notin scene.rekeyed

(* handleRaw: the hardware hash is the one pinned, or the first. *)
SameHardware(n, env) == pinned[n][env.from] \in {0, env.hw}

Known(n, env) == env.from \in peers[n]
Checked(n, env) == Known(n, env) /\ Allowed(n, env)
Recorded(n, env) ==
    Checked(n, env) /\ FreshEnough(n, env) /\ ~SeenBefore(n, env)
Verified(n, env) == Recorded(n, env) /\ SignatureOK(env)
Accepted(n, env) == Verified(n, env) /\ SameHardware(n, env)

(* IsValidator. *)
FromValidator(n, env) == Accepted(n, env) /\ env.from \in Nodes

-----------------------------------------------------------------------------
(* The chain and the handlers. *)

Height(n) == Len(chain[n])
TipId(c) == IF c = <<>> THEN 0 ELSE c[Len(c)].blk.id

(* handleRaw and HandleProposal up to the height check. *)
NextProposal(n, env) ==
    /\ FromValidator(n, env) /\ env.kind = "proposal"
    /\ env.blk.proposer = env.from
    /\ env.blk.height = Height(n) + 1

(* validateBlockLocked: the block extends n's tip and leads to its state.   *)
Extends(n, b) == b.height = Height(n) + 1 /\ b.parent = TipId(chain[n])
Valid(n, b) == Extends(n, b) /\ b.root = slashed[n]

(* HandleProposal: ValidateProposal accepts env's block. *)
GoodProposal(n, env) == NextProposal(n, env) /\ Valid(n, env.blk)

(* HandleProposal: ValidateProposal fails, and not for the state root.      *)
InvalidProposal(n, env) == NextProposal(n, env) /\ ~Extends(n, env.blk)

Answers_AsPeer(n, env) == GoodProposal(n, env) /\ n \in peers[n]

(* HandleProposal answers with a vote. *)
Answers(n, env) == GoodProposal(n, env) /\ n \in Nodes

(* TryFinalize with engine e, and FinalizeBlock's quorum check. *)
TryFinalize(n, e, b) ==
    IF TipId(chain[n]) = b.id \/ ~FinalityStatus(e, b) \/ ~Valid(n, b)
    THEN chain[n]
    ELSE Append(chain[n], [blk |-> b, sigs |-> e[b.height].votes])

(* HandleVote for voter v, with the penalty of an equivocation, and         *)
(* TryFinalize if the threshold is met.                                     *)
CountVote(n, v, b) ==
    LET e == OnVotes(engine[n], {v}, b)
    IN  /\ slashed' = IF Equivocators(engine[n], {v}, b) = {} THEN slashed
                      ELSE [slashed EXCEPT ![n][v] = @ + EquivocationPenalty]
        /\ engine' = [engine EXCEPT ![n] = e]
        /\ chain' = IF /\ e[b.height].cand.id = b.id
                       /\ ThresholdMet(e[b.height])
                    THEN [chain EXCEPT ![n] = TryFinalize(n, e, b)]
                    ELSE chain

(* appendInbox. *)
appendInbox(q, msg) ==
    LET r == Append(q, msg)
    IN  SubSeq(r, Max({1, Len(r) - InboxSize + 1}), Len(r))

(* handleRaw, with everything it changes at n. *)
handleRaw(n, env) ==
    LET m == env.from
    IN  /\ buckets' =
              IF ~Known(n, env) THEN buckets
              ELSE [buckets EXCEPT ![n][m] =
                      [Refilled(n, m) EXCEPT
                          !.tokens = IF @ >= 1 THEN @ - 1 ELSE @]]
        /\ seen' = IF Recorded(n, env)
                   THEN [seen EXCEPT ![n] = cleanupLocked(n) \cup
                           {[from |-> m, nonce |-> env.nonce, at |-> Clock(n)]}]
                   ELSE IF Checked(n, env) /\ FreshEnough(n, env)
                   THEN [seen EXCEPT ![n] = cleanupLocked(n)]
                   ELSE seen
        /\ pinned' = IF Verified(n, env) /\ pinned[n][m] = 0
                     THEN [pinned EXCEPT ![n][m] = env.hw] ELSE pinned
        /\ handled' = IF Accepted(n, env)
                      THEN [handled EXCEPT ![n][m][env.nonce] = @ + 1]
                      ELSE handled
        /\ inbox' = IF Accepted(n, env) /\ env.kind = "message"
                    THEN [inbox EXCEPT ![n] = appendInbox(@, env.nonce)]
                    ELSE inbox
        /\ IF FromValidator(n, env) /\ env.kind = "vote"
           THEN CountVote(n, m, env.blk)
           ELSE /\ engine' = IF GoodProposal(n, env)
                             THEN [engine EXCEPT ![n] =
                                     RecordProposal(@, env.blk)]
                             ELSE engine
                /\ slashed' = IF InvalidProposal(n, env)
                              THEN [slashed EXCEPT ![n][m] = @ + 1]
                              ELSE slashed
                /\ UNCHANGED chain
        /\ nonces' = IF Answers(n, env)
                     THEN [nonces EXCEPT ![n] = @ + 1] ELSE nonces
        /\ UNCHANGED <<peers, machine>>

=============================================================================
