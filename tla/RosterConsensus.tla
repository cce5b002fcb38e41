-------------------------- MODULE RosterConsensus --------------------------
(***************************************************************************)
(* The legacy chain's consensus round over HTTP (internal/rpc/server.go),  *)
(* with the vote engine (VoteEngine), the node's vote lock and             *)
(* proposal handler (internal/node/node.go), the chain's authorization and *)
(* fork choice (internal/chain/chain.go) and the producer loop             *)
(* (cmd/synthosd/main.go).  Every node is a validator of one fixed roster. *)
(*                                                                         *)
(* A block is its hash (id), height, parent and proposer, and the balances *)
(* of the validators its state root commits to: local penalties are the    *)
(* only thing that makes two honest nodes compute different roots.  A new  *)
(* candidate gets an id nothing in the system still mentions, so           *)
(* hashes never collide and a finite pool serves any number of retries.    *)
(* Heights count from the base of the hot window, whose state BaseBal is   *)
(* what TryReorg replays from.                                             *)
(***************************************************************************)
EXTENDS VoteEngine

CONSTANTS
    Deployments,    \* how a roster may be run: its producers, the rotation,
                    \* and the bounds on a behaviour
    PeerURLs,       \* who each node pushes blocks to and catches up from
    Balance,        \* a validator's balance, in invalid-block penalties
    EquivocationPenalty   \* DoubleSignPenalty, in invalid-block penalties

ASSUME RosterAssumption ==
    /\ Deployments \subseteq
          [producers : SUBSET Nodes, rotation : BOOLEAN, relay : SUBSET Nodes,
           silent : SUBSET Nodes, fleet : Seq(Nodes), height : Nat, crashes : Nat, expiries : Nat,
           lost : Nat, timeouts : Nat, ids : Nat]
    /\ \A d \in Deployments : d.silent \subseteq d.relay
    /\ PeerURLs \in [Nodes -> SUBSET Nodes]
    /\ {Balance, EquivocationPenalty} \subseteq Nat

VARIABLES
    dep,        \* the deployment
    chain,      \* per node: Chain.Blocks, with their QuorumSignatures
    bal,        \* per node: the validators' balances in Chain.State
    saved,      \* per node: what Store.Save last wrote
    engine,     \* per node: candidate and votes of the current height
    lock,       \* per node: voteLockHeight, voteLockProposer
    prod,       \* per node: ProposeBlockWithConsensus in progress
    reqs,       \* proposals on their way to, or being handled by, a voter
    mail,       \* consensus_vote messages in the registry's mailboxes
    pushes,     \* finalized blocks on their way to a peer
    crashes, expiries, lost, timeouts   \* how many of each so far

vars == <<dep, chain, bal, saved, engine, lock, prod, reqs, mail,
          pushes, crashes, expiries, lost, timeouts>>

Producers == dep.producers   \* nodes with SYNTHOS_BLOCK_PRODUCER=true
Rotation == dep.rotation     \* SYNTHOS_PRODUCER_ROTATION, and with it
LockOn == dep.rotation       \* SYNTHOS_PRODUCER_ROTATION_LOCK_SECONDS > 0
Relay == dep.relay           \* MailboxRelayPeers: validators without a URL
Silent == dep.silent         \* those that run silentnode and keep no chain
Fleet == dep.fleet           \* loadLocalFleetSigners: keys the producer holds

MaxHeight == dep.height      \* bounds: height of the chain, crashes,
MaxCrashes == dep.crashes
MaxExpiries == dep.expiries  \* votes past a lock that timed out or moved on,
MaxLost == dep.lost          \* lost requests and pushes,
MaxTimeouts == dep.timeouts  \* rounds that time out with requests open,
MaxId == dep.ids             \* hashes remembered at one time

BaseBal == [v \in Nodes |-> Balance]

NoBlock ==
    [id |-> 0, height |-> 0, parent |-> 0, proposer |-> 0, root |-> BaseBal]

Height(n) == Len(chain[n])
TipId(c) == IF c = <<>> THEN 0 ELSE c[Len(c)].blk.id

-----------------------------------------------------------------------------
NewEngine == [h \in 1..MaxHeight |-> NewSlot(NoBlock)]

-----------------------------------------------------------------------------
(* The chain. *)

Extends_HeightOnly(n, b) == b.height = Height(n) + 1

Extends(n, b) == b.height = Height(n) + 1 /\ b.parent = TipId(chain[n])

(* verifyBlockAuthorizationLocked: distinct valid approvals; proposals of   *)
(* the model carry their proposer's signature.                              *)
Authorized(sigs) == Cardinality(sigs) >= requiredForFinality

ValidBlock_NoHeight(n, c) == Authorized(c.sigs) /\ c.blk.root = bal[n]

(* validateBlockLocked with requireQuorum. *)
ValidBlock(n, c) ==
    Extends(n, c.blk) /\ Authorized(c.sigs) /\ c.blk.root = bal[n]

Score(c) == SumFunction([i \in 1..Len(c) |-> Cardinality(c[i].sigs)])

(* The replay on a scratch chain that starts from the hot window's base.    *)
Replays(c) ==
    \A h \in 1..Len(c) :
        /\ c[h].blk.height = h
        /\ c[h].blk.parent = TipId(SubSeq(c, 1, h - 1))
        /\ Authorized(c[h].sigs)
        /\ c[h].blk.root = BaseBal

(* TryReorg: switch to branch at height fork if it is heavier, or as heavy  *)
(* and longer, and replays.                                                 *)
TryReorg(n, fork, branch) ==
    LET tail == SubSeq(chain[n], fork, Height(n))
    IN  /\ \/ Score(branch) > Score(tail)
           \/ Score(branch) = Score(tail) /\ Len(branch) > Len(tail)
        /\ Replays(SubSeq(chain[n], 1, fork - 1) \o branch)

(* The node's chain and balances become c and b, and Store.Save runs.       *)
Adopt(n, c, b) ==
    /\ chain' = [chain EXCEPT ![n] = c]
    /\ bal' = [bal EXCEPT ![n] = b]
    /\ saved' = [saved EXCEPT ![n] = [chain |-> c, bal |-> b]]

KeepChain == UNCHANGED <<chain, bal, saved>>

(* executeSlash: the node's own copy of v's balance, in no block.           *)
Slash(b, v, penalty) ==
    [b EXCEPT ![v] = IF @ > penalty THEN @ - penalty ELSE 0]

SlashAll(b, V, penalty) ==
    [v \in Nodes |-> IF v \in V THEN Slash(b, v, penalty)[v] ELSE b[v]]

-----------------------------------------------------------------------------
(* The blocks something still mentions, and the hashes. *)
Blocks ==
    {engine[n][h].cand : n \in Nodes, h \in 1..MaxHeight}
    \cup {prod[n].blk : n \in Nodes}
    \cup {r.blk : r \in reqs} \cup {p.blk : p \in pushes} \cup {v.blk : v \in mail}
    \cup (UNION {{x.blk : x \in Range(chain[n]) \cup Range(saved[n].chain)} :
                     n \in Nodes})
Used ==
    {b.id : b \in Blocks} \cup {b.parent : b \in Blocks}
    \cup {engine[n][h].voted[v] : n \in Nodes, h \in 1..MaxHeight, v \in Nodes}
FreshIds == 1..MaxId \ Used
Fresh == CHOOSE i \in FreshIds : TRUE

Idle == [at |-> "idle", blk |-> NoBlock, got |-> {}, sigs |-> {}]

(* BuildBlock: the candidate that extends n's tip. *)
BuildBlock(n) ==
    [id |-> Fresh, height |-> Height(n) + 1, parent |-> TipId(chain[n]),
     proposer |-> n, root |-> bal[n]]

(* ExpectedProposer, for validators numbered from 0. *)
ExpectedProposer(height, round) == 1 + ((height + round) % N)

(* ShouldPropose: CurrentRound is elapsed time on the node's own clock,    *)
(* which nothing ties to another node's.                                   *)
ShouldPropose(n) ==
    \E round \in 0..N - 1 : ExpectedProposer(Height(n) + 1, round) = n

Init ==
    /\ dep \in Deployments
    /\ chain = [n \in Nodes |-> <<>>]
    /\ bal = [n \in Nodes |-> BaseBal]
    /\ saved = [n \in Nodes |-> [chain |-> <<>>, bal |-> BaseBal]]
    /\ engine = [n \in Nodes |-> NewEngine]
    /\ lock = [n \in Nodes |-> [height |-> 0, proposer |-> 0]]
    /\ prod = [n \in Nodes |-> Idle]
    /\ reqs = {} /\ mail = {} /\ pushes = {}
    /\ crashes = 0 /\ expiries = 0 /\ lost = 0 /\ timeouts = 0

UnchangedFaults == UNCHANGED <<dep, crashes, expiries, lost, timeouts>>

-----------------------------------------------------------------------------
(* The producer: startBlockProducer and ProposeBlockWithConsensus. *)

(* OnVote at node n for the approvals V of b, with the penalties of the     *)
(* slashing tracker.                                                        *)
HandleVotes(n, e, V, b) ==
    /\ engine' = [engine EXCEPT ![n] = OnVotes(e, V, b)]
    /\ bal' = [bal EXCEPT ![n] =
                  SlashAll(@, Equivocators(e, V, b), EquivocationPenalty)]

(* The ticker of startBlockProducer finds something to propose. *)
Tick(n) ==
    /\ n \in Producers /\ prod[n].at = "idle" /\ Height(n) < MaxHeight
    /\ FreshIds # {}

(* BuildAndSignProposal, SelfVote and the requests of collectConsensusVotes: *)
(* a POST to a peer with a URL, a message in the mailbox of one without.     *)
Propose(n) ==
    /\ Tick(n) /\ Len(Fleet) < 2
    /\ Rotation => ShouldPropose(n)
    /\ LET b == BuildBlock(n)
       IN  /\ HandleVotes(n, RecordProposal(engine[n], b), {n}, b)
           /\ prod' = [prod EXCEPT ![n] = [Idle EXCEPT !.at = "collect",
                                                       !.blk = b]]
           /\ reqs' = reqs \cup
                 {[to |-> m, blk |-> b,
                   at |-> IF m \in Relay THEN "mail" ELSE "sent"] :
                      m \in Nodes \ {n}}
    /\ UNCHANGED <<chain, saved, lock, mail, pushes>> /\ UnchangedFaults

(* startBlockProducer with the keys of several validators and no consensus  *)
(* peers: the signers take turns as proposer and all of them approve.       *)
FleetSign(n) ==
    /\ Tick(n) /\ Len(Fleet) >= 2
    /\ LET b == [BuildBlock(n) EXCEPT
                    !.proposer = Fleet[1 + (Height(n) % Len(Fleet))]]
       IN  /\ HandleVotes(n, engine[n], Range(Fleet), b)
           /\ prod' = [prod EXCEPT ![n] = [at |-> "sealed", blk |-> b,
                                           got |-> {}, sigs |-> Range(Fleet)]]
    /\ UNCHANGED <<chain, saved, lock, reqs, mail, pushes>> /\ UnchangedFaults

(* handleMailbox: a GET hands out n's messages and deletes them. *)
Pulled(n) == {v \in mail : v.to # n}

(* A vote counts for the candidate whose hash and height it carries. *)
verifyPeerVote(v, b) == v.blk.id = b.id /\ v.blk.height = b.height

(* collectMailboxVotes polls its own mailbox, which empties it: votes for   *)
(* the candidate count, everything else is gone.                            *)
PollVotes(n) ==
    LET mine == {v \in mail : v.to = n}
        good == {v \in mine : verifyPeerVote(v, prod[n].blk)}
    IN  /\ prod[n].at = "collect" /\ Relay \ {n} # {}
        /\ mine # {} \/ \E r \in reqs : r.to = n /\ r.at = "mail"
        /\ prod' = [prod EXCEPT ![n].got = @ \cup {v.from : v \in good}]
        /\ mail' = Pulled(n)
        /\ reqs' = {r \in reqs : r.to # n \/ r.at # "mail"}
        /\ UNCHANGED <<engine, lock, pushes>> /\ KeepChain /\ UnchangedFaults

(* collectConsensusVotes after wg.Wait: the answers are fed to HandleVote.  *)
(* The wait ends when every request has been answered, or at the timeout.   *)
CloseRound(n) ==
    /\ prod[n].at = "collect"
    /\ LET b == prod[n].blk
           got == prod[n].got
           waiting == \E x \in reqs \cup mail : x.blk.id = b.id
           e == OnVotes(engine[n], got, b)
       IN  /\ waiting => timeouts < MaxTimeouts
           /\ timeouts' = IF waiting THEN timeouts + 1 ELSE timeouts
           /\ HandleVotes(n, engine[n], got, b)
           /\ prod' = [prod EXCEPT ![n] =
                  IF got # {} /\ e[b.height].cand.id = b.id
                     /\ ThresholdMet(e[b.height])
                  THEN [@ EXCEPT !.at = "certified"] ELSE Idle]
    /\ UNCHANGED <<dep, chain, saved, lock, reqs, mail, pushes, crashes,
                   expiries, lost>>

(* TryFinalize up to CollectedApprovals. *)
Seal(n) ==
    /\ prod[n].at = "certified"
    /\ prod' = [prod EXCEPT ![n] =
          IF TipId(chain[n]) = @.blk.id
          THEN [@ EXCEPT !.at = "finalized", !.sigs = chain[n][Height(n)].sigs]
          ELSE IF FinalityStatus(engine[n], @.blk)
          THEN [@ EXCEPT !.at = "sealed",
                         !.sigs = engine[n][prod[n].blk.height].votes]
          ELSE Idle]
    /\ UNCHANGED <<engine, lock, reqs, mail, pushes>> /\ KeepChain
    /\ UnchangedFaults

(* TryFinalize: Chain.FinalizeBlock. *)
FinalizeBlock(n) ==
    /\ prod[n].at = "sealed"
    /\ LET c == [blk |-> prod[n].blk, sigs |-> prod[n].sigs]
       IN  IF ValidBlock(n, c)
           THEN /\ chain' = [chain EXCEPT ![n] = Append(@, c)]
                /\ prod' = [prod EXCEPT ![n].at = "finalized"]
           ELSE /\ prod' = [prod EXCEPT ![n] = Idle]
                /\ UNCHANGED chain
    /\ UNCHANGED <<bal, saved, engine, lock, reqs, mail, pushes>>
    /\ UnchangedFaults

(* TryFinalize: OnFinalize, which is Store.Save. *)
SaveFinalized(n) ==
    /\ prod[n].at = "finalized"
    /\ saved' = [saved EXCEPT ![n] = [chain |-> chain[n], bal |-> bal[n]]]
    /\ prod' = [prod EXCEPT ![n].at = "saved"]
    /\ UNCHANGED <<chain, bal, engine, lock, reqs, mail, pushes>>
    /\ UnchangedFaults

(* pushBlockToPeers; after a round only if the tip is still the block. *)
Push(n) ==
    /\ prod[n].at = "saved"
    /\ pushes' = IF TipId(chain[n]) = prod[n].blk.id \/ Fleet # <<>>
                 THEN pushes \cup {[to |-> m, blk |-> prod[n].blk,
                                    sigs |-> prod[n].sigs] :
                                       m \in PeerURLs[n] \ Relay}
                 ELSE pushes
    /\ prod' = [prod EXCEPT ![n] = Idle]
    /\ UNCHANGED <<engine, lock, reqs, mail>> /\ KeepChain /\ UnchangedFaults

-----------------------------------------------------------------------------
(* The voter: handleConsensusPropose or the mailbox listener, and           *)
(* HandleProposal, whose steps take different locks.                        *)

(* Where a request waits that its voter has not received yet. *)
OnItsWay(r) == r.at = IF r.to \in Relay THEN "mail" ELSE "sent"

Moved(r, at) == (reqs \ {r}) \cup {[r EXCEPT !.at = at]}

(* A poll of n's own mailbox, which empties it.  The proposals are handled  *)
(* one after another before the next poll, everything else is ignored.      *)
Fetch(n) ==
    /\ \/ \E r \in reqs : r.to = n /\ r.at = "mail"
       \/ \E v \in mail : v.to = n
    /\ ~ \E r \in reqs : n \in Relay /\ r.to = n /\ r.at # "mail"
    /\ reqs' = {[r EXCEPT !.at = IF r.to = n /\ @ = "mail" THEN "sent" ELSE @] :
                    r \in reqs}
    /\ mail' = Pulled(n)
    /\ UNCHANGED <<engine, lock, prod, pushes>> /\ KeepChain /\ UnchangedFaults

(* startMailboxRelayListener, which runs on every validator. *)
PollProposals(n) == n \notin Silent /\ Fetch(n)

(* silentnode: whatever block it is sent, if the hash is right, it approves; *)
(* it has no chain, no engine and no vote lock.                             *)
fetchMailboxMessages(n) == n \in Silent /\ Fetch(n)

postVoteBack(r) == [to |-> r.blk.proposer, from |-> r.to, blk |-> r.blk]

SilentVote(r) ==
    /\ r.to \in Silent /\ r.at = "sent"
    /\ reqs' = reqs \ {r}
    /\ mail' = mail \cup {postVoteBack(r)}
    /\ UNCHANGED <<engine, lock, prod, pushes>> /\ KeepChain /\ UnchangedFaults

(* HandleProposal: the height check. *)
CheckHeight(r) ==
    /\ r.at = "sent" /\ r.to \notin Silent
    /\ r.to \in Relay => ~ \E q \in reqs : q.to = r.to /\ q.at \in {"checked", "valid"}
    /\ reqs' = IF r.blk.height = Height(r.to) + 1 THEN Moved(r, "checked")
               ELSE reqs \ {r}
    /\ UNCHANGED <<engine, lock, prod, mail, pushes>> /\ KeepChain
    /\ UnchangedFaults

(* HandleProposal: Chain.ValidateProposal.  A block that fails for another  *)
(* reason than its state root costs its proposer the invalid-block penalty. *)
ValidateProposal(r) ==
    /\ r.at = "checked"
    /\ reqs' = IF Extends(r.to, r.blk) /\ r.blk.root = bal[r.to]
               THEN Moved(r, "valid") ELSE reqs \ {r}
    /\ bal' = IF Extends(r.to, r.blk) THEN bal
              ELSE [bal EXCEPT ![r.to] = Slash(@, r.blk.proposer, 1)]
    /\ UNCHANGED <<chain, saved, engine, lock, prod, mail, pushes>>
    /\ UnchangedFaults

Locked_OlderHeight(n, b) ==
    /\ LockOn /\ lock[n].height < b.height
    /\ lock[n].proposer \notin {0, b.proposer}

(* checkAndUpdateVoteLock: the lock is another proposer's. *)
Locked(n, b) ==
    /\ LockOn /\ lock[n].height = b.height
    /\ lock[n].proposer \notin {0, b.proposer}

(* HandleProposal: a lock that has not timed out. *)
RefuseVote(r) ==
    /\ r.at = "valid" /\ Locked(r.to, r.blk)
    /\ reqs' = reqs \ {r}
    /\ UNCHANGED <<engine, lock, prod, mail, pushes>> /\ KeepChain
    /\ UnchangedFaults

(* handleConsensusPropose returns the vote; it reaches a round that still   *)
(* waits.                                                                   *)
AnswerVote(r) ==
    LET p == r.blk.proposer
    IN  /\ prod' = IF prod[p].at = "collect" /\ verifyPeerVote(r, prod[p].blk)
                   THEN [prod EXCEPT ![p].got = @ \cup {r.to}]
                   ELSE prod
        /\ UNCHANGED mail

(* postRelayMailbox leaves the vote in the proposer's mailbox. *)
PostVote(r) ==
    /\ mail' = mail \cup {[to |-> r.blk.proposer, from |-> r.to, blk |-> r.blk]}
    /\ UNCHANGED prod

(* checkAndUpdateVoteLock: the lock has gone on to a later height while the *)
(* handler of b was between ValidateProposal and here; it does not compare. *)
Overtaken(n, b) == LockOn /\ lock[n].height > b.height

(* HandleProposal: no lock, one that has timed out or one of another height, *)
(* RecordReceivedProposal and the signed vote.                              *)
CastVote(r) ==
    LET p       == r.blk.proposer
        expired == IF Locked(r.to, r.blk) \/ Overtaken(r.to, r.blk)
                   THEN 1 ELSE 0
    IN  /\ r.at = "valid" /\ expiries + expired <= MaxExpiries
        /\ expiries' = expiries + expired
        /\ reqs' = reqs \ {r}
        /\ lock' = IF LockOn
                   THEN [lock EXCEPT ![r.to] =
                           [height |-> r.blk.height, proposer |-> p]]
                   ELSE lock
        /\ engine' = [engine EXCEPT ![r.to] = RecordProposal(@, r.blk)]
        /\ IF r.to \in Relay THEN PostVote(r) ELSE AnswerVote(r)
        /\ UNCHANGED <<dep, pushes, crashes, lost, timeouts>> /\ KeepChain

-----------------------------------------------------------------------------
(* Blocks from peers. *)

(* applyPeerBlock on a pushed block (handleGossipBlock). *)
DeliverPush(p) ==
    LET n == p.to
        c == [blk |-> p.blk, sigs |-> p.sigs]
        h == p.blk.height
    IN  /\ pushes' = pushes \ {p}
        /\ IF h > Height(n)
           THEN IF ValidBlock(n, c) THEN Adopt(n, Append(chain[n], c), bal[n])
                ELSE KeepChain
           ELSE IF chain[n][h].blk.id # p.blk.id /\ TryReorg(n, h, <<c>>)
                THEN Adopt(n, Append(SubSeq(chain[n], 1, h - 1), c), BaseBal)
                ELSE KeepChain
        /\ UNCHANGED <<engine, lock, prod, reqs, mail>> /\ UnchangedFaults

Appends_MissesTip(n, c) ==
    {k \in 0..(Len(c) - Height(n) - 1) :
        \A h \in Height(n) + 1..Height(n) + k :
            c[h].blk.height = h /\ Authorized(c[h].sigs)
            /\ c[h].blk.root = bal[n]} \cup {0}

(* How many of the blocks c offers beyond n's height FinalizeBlock accepts. *)
Appends(n, c) ==
    LET ok(h) == /\ c[h].blk.parent = IF h = Height(n) + 1 THEN TipId(chain[n])
                                      ELSE c[h - 1].blk.id
                 /\ c[h].blk.height = h
                 /\ Authorized(c[h].sigs) /\ c[h].blk.root = bal[n]
    IN  {k \in 0..(Len(c) - Height(n)) :
            \A h \in Height(n) + 1..Height(n) + k : ok(h)}

(* The fork heights CatchUpOnce tries, at most four blocks back. *)
Forks(n, c) ==
    {f \in 1..Height(n) :
        /\ Height(n) - f <= 3
        /\ chain[n][f].blk.id # c[f].blk.id
        /\ TryReorg(n, f, SubSeq(c, f, Len(c)))}

(* CatchUpOnce: n pulls from peer m everything beyond its height; if not    *)
(* even the first block applies, it looks for a fork.                       *)
CatchUpOnce(n, m) ==
    LET c == chain[m]
    IN  /\ n \notin Silent /\ m \in PeerURLs[n] \ Relay /\ Len(c) > Height(n)
        /\ \/ \E k \in Appends(n, c) :
                 /\ k > 0 /\ k + 1 \notin Appends(n, c)
                 /\ Adopt(n, chain[n] \o SubSeq(c, Height(n) + 1, Height(n) + k),
                          bal[n])
           \/ /\ 1 \notin Appends(n, c)
              /\ \E f \in Forks(n, c) :
                    /\ \A g \in Forks(n, c) : g <= f
                    /\ Adopt(n, SubSeq(chain[n], 1, f - 1) \o SubSeq(c, f, Len(c)),
                             BaseBal)
        /\ UNCHANGED <<engine, lock, prod, reqs, mail, pushes>>
        /\ UnchangedFaults

-----------------------------------------------------------------------------
(* Faults. *)

(* The process dies and starts again from its store.  Requests it was       *)
(* handling die with it; votes, candidates and the vote lock are not saved. *)
Crash(n) ==
    /\ crashes < MaxCrashes
    /\ crashes' = crashes + 1
    /\ chain' = [chain EXCEPT ![n] = saved[n].chain]
    /\ bal' = [bal EXCEPT ![n] = saved[n].bal]
    /\ engine' = [engine EXCEPT ![n] = NewEngine]
    /\ lock' = [lock EXCEPT ![n] = [height |-> 0, proposer |-> 0]]
    /\ prod' = [prod EXCEPT ![n] = Idle]
    /\ reqs' = {r \in reqs : r.to # n \/ OnItsWay(r)}
    /\ UNCHANGED <<dep, saved, mail, pushes, expiries, lost, timeouts>>

LoseRequest(r) ==
    /\ OnItsWay(r) /\ lost < MaxLost
    /\ reqs' = reqs \ {r} /\ lost' = lost + 1
    /\ UNCHANGED <<dep, engine, lock, prod, mail, pushes, crashes, expiries,
                   timeouts>>
    /\ KeepChain

LoseVote(v) ==
    /\ lost < MaxLost
    /\ mail' = mail \ {v} /\ lost' = lost + 1
    /\ UNCHANGED <<dep, engine, lock, prod, reqs, pushes, crashes, expiries,
                   timeouts>>
    /\ KeepChain

LosePush(p) ==
    /\ lost < MaxLost
    /\ pushes' = pushes \ {p} /\ lost' = lost + 1
    /\ UNCHANGED <<dep, engine, lock, prod, reqs, mail, crashes, expiries,
                   timeouts>>
    /\ KeepChain

(* The chain has reached the bound. *)
Bounded ==
    /\ \A n \in Producers : prod[n].at = "idle" /\ Height(n) = MaxHeight
    /\ UNCHANGED vars

Next ==
    \/ \E n \in Nodes :
          \/ Propose(n) \/ PollVotes(n) \/ CloseRound(n) \/ Seal(n)
          \/ FleetSign(n) \/ PollProposals(n) \/ fetchMailboxMessages(n)
          \/ FinalizeBlock(n) \/ SaveFinalized(n) \/ Push(n)
          \/ Crash(n)
          \/ \E m \in Nodes : CatchUpOnce(n, m)
    \/ \E r \in reqs :
          \/ CheckHeight(r) \/ ValidateProposal(r)
          \/ RefuseVote(r) \/ CastVote(r) \/ SilentVote(r) \/ LoseRequest(r)
    \/ \E v \in mail : LoseVote(v)
    \/ \E p \in pushes : DeliverPush(p) \/ LosePush(p)
    \/ Bounded

Spec == Init /\ [][Next]_vars

(* The producer's ticker and the goroutines of a round run on, handlers    *)
(* finish, a push that is not lost arrives, and StartPeerSync's ticker     *)
(* keeps calling CatchUpOnce.                                              *)
FairSpec ==
    /\ Spec
    /\ \A n \in Nodes :
          /\ WF_vars(Propose(n) \/ PollVotes(n) \/ CloseRound(n) \/ Seal(n)
                     \/ FleetSign(n) \/ FinalizeBlock(n) \/ SaveFinalized(n)
                     \/ Push(n))
          /\ WF_vars(PollProposals(n) \/ fetchMailboxMessages(n))
          /\ WF_vars(\E m \in Nodes : CatchUpOnce(n, m))
    /\ WF_vars(\E r \in reqs : CheckHeight(r) \/ ValidateProposal(r)
                             \/ RefuseVote(r) \/ CastVote(r) \/ SilentVote(r))
    /\ WF_vars(\E p \in pushes : DeliverPush(p))

-----------------------------------------------------------------------------
(* Two nodes never hold different blocks at one height: what the quorum of *)
(* ProposeBlockWithConsensus and the vote lock of HandleProposal are for.  *)
Agreement ==
    \A n, m \in Nodes : \A h \in 1..Height(n) \cap 1..Height(m) :
        chain[n][h].blk.id = chain[m][h].blk.id

(* A crash that loses a block peers already pulled from the producer's     *)
(* memory forks the chain, but, with one producer, only at the tip of the  *)
(* shorter chain: no node ever extends a block the others do not have.     *)
ForksOnlyAtTip ==
    (\E p \in Nodes : Producers = {p}) =>
        \A n, m \in Nodes : \A h \in 1..Height(n) \cap 1..Height(m) :
            chain[n][h].blk.id # chain[m][h].blk.id =>
                h = Min({Height(n), Height(m)})

(* What the vote lock guarantees where every validator has one: if two     *)
(* proposers' blocks of one height both got a quorum, the only validators  *)
(* that signed both are the two proposers, unless a vote was cast past a   *)
(* lock that timed out or had gone on to the next height, or a node forgot *)
(* its lock.                                                               *)
LockHolds ==
    LockOn /\ Silent = {} /\ Len(Fleet) < 2
    /\ expiries = 0 /\ crashes = 0 =>
        \A n, m \in Nodes : \A h \in 1..Height(n) \cap 1..Height(m) :
            LET c == chain[n][h]
                d == chain[m][h]
            IN  c.blk.proposer # d.blk.proposer =>
                    c.sigs \cap d.sigs \subseteq {c.blk.proposer, d.blk.proposer}

(* One producer that does not crash; if it signs for a fleet, for a quorum. *)
Steady(d) ==
    /\ Cardinality(d.producers) = 1 /\ d.crashes = 0
    /\ Len(d.fleet) >= 2 => Authorized(Range(d.fleet))

(* A validator that votes for every candidate it is asked about is never   *)
(* taken for an equivocator, however rounds are retried and interleaved    *)
(* (RecordEquivocation, ForgetVotesAtHeight); nor is one that a fleet      *)
(* signs for, if the fleet's blocks are accepted at the first attempt: no  *)
(* ForgetVotesAtHeight precedes its next one.                              *)
NoFalseEquivocation ==
    Len(Fleet) < 2 \/ Steady(dep) =>
        \A n \in Nodes : \A h \in 1..MaxHeight : engine[n][h].flagged = {}

(* With one producer a quorum is never wasted: once collectConsensusVotes  *)
(* reports one, TryFinalize finds it in its other tally, the tip has not   *)
(* moved and the state root still matches.                                 *)
NoWastedQuorum ==
    [][\A n \in Nodes :
          prod[n].at \in {"certified", "sealed"} /\ crashes' = crashes =>
              prod'[n].at # "idle"]_vars

(* A producer whose requests are no longer lost finalizes in the end: a    *)
(* round that missed its quorum is tried again at the next tick, and       *)
(* RecordOwnProposal clears what the failed round left in the engine.      *)
RetryFinalizes == \A n \in Nodes : n \in Producers ~> Height(n) > 0

(* Every block one node has reaches every node, by push or, when the push  *)
(* is lost or the node cannot be reached, by CatchUpOnce.                  *)
FollowersCatchUp ==
    \A h \in 1..Max({d.height : d \in Deployments}) :
        (\E n \in Nodes : Height(n) >= h) ~> (\A n \in Nodes \ Silent : Height(n) >= h)

=============================================================================
