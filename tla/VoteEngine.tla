----------------------------- MODULE VoteEngine -----------------------------
(***************************************************************************)
(* The vote engine of the legacy chain (internal/consensus/engine.go) with *)
(* the vote memory of its slashing tracker (slashing.go), for one roster   *)
(* of equally weighted validators.  A candidate is a record with a hash    *)
(* (id) and a height.                                                      *)
(***************************************************************************)
EXTENDS Integers, FiniteSets, Sequences, FiniteSetsExt

CONSTANT N      \* validators, in the order of the roster

Nodes == 1..N

ASSUME NAssumption == N \in Nat \ {0}

(* (2*n+2)/3: both requiredForFinalityLocked and, all powers being 1,       *)
(* requiredPowerForFinalityLocked; the chain's requiredQuorum is the same.  *)
requiredForFinality == (2 * N + 2) \div 3

-----------------------------------------------------------------------------
(* The engine, one slot per height: proposalsByHeight, votes,              *)
(* votesByHeightAndRound and the slashing tracker's votedHashes.  Rounds   *)
(* are always 0 here.  stage and stale split the precommits of             *)
(* votesByHeightAndRound: those for the candidate, and those for abandoned *)
(* ones, which are never removed and so keep their voters from counting.   *)

NewSlot(none) ==
    [cand |-> none, votes |-> {}, stage |-> {}, stale |-> {},
     voted |-> [v \in Nodes |-> 0], flagged |-> {}]

RecordProposal_KeepsVoted(e, b) ==
    [e EXCEPT ![b.height] =
        [@ EXCEPT !.cand = b, !.votes = {},
                  !.stage = IF b.id = e[b.height].cand.id THEN @ ELSE {},
                  !.stale = IF b.id = e[b.height].cand.id THEN @
                            ELSE @ \cup e[b.height].stage]]

(* RecordOwnProposal and RecordReceivedProposal, with ForgetVotesAtHeight. *)
RecordProposal(e, b) ==
    [e EXCEPT ![b.height] =
        [cand |-> b, votes |-> {},
         stage |-> IF b.id = @.cand.id THEN @.stage ELSE {},
         stale |-> IF b.id = @.cand.id THEN @.stale ELSE @.stale \cup @.stage,
         voted |-> [v \in Nodes |-> 0], flagged |-> @.flagged]]

(* RecordEquivocation: the voters of b remembered with another hash. *)
Equivocators(e, V, b) ==
    {v \in V : e[b.height].voted[v] \notin {0, b.id}}

OnVotes_AnyCandidate(e, V, b) ==
    [e EXCEPT ![b.height] =
        [@ EXCEPT !.votes = @ \cup V, !.stage = @ \cup (V \ e[b.height].stale)]]

(* OnVote for approvals of b by V, one after the other: a vote counts only *)
(* for the candidate, and only a voter's first precommit is ever stored.   *)
OnVotes(e, V, b) ==
    LET s == e[b.height]
        known == s.cand.id = b.id
    IN  [e EXCEPT ![b.height] =
            [cand |-> s.cand,
             votes |-> IF known THEN s.votes \cup V ELSE s.votes,
             stage |-> IF known THEN s.stage \cup (V \ s.stale) ELSE s.stage,
             stale |-> s.stale,
             voted |-> [v \in Nodes |-> IF v \in V /\ s.voted[v] = 0
                                        THEN b.id ELSE s.voted[v]],
             flagged |-> s.flagged \cup Equivocators(e, V, b)]]

(* thresholdMet of processVoteInternal, for the candidate of slot s. *)
ThresholdMet(s) ==
    LET votesFor == Max({Cardinality(s.votes), Cardinality(s.stage)})
        votesPower == Cardinality(s.stage)
    IN  votesFor >= requiredForFinality /\ votesPower >= requiredForFinality

(* FinalityStatus. *)
FinalityStatus(e, b) ==
    /\ e[b.height].cand.id = b.id
    /\ Cardinality(e[b.height].votes) >= requiredForFinality

=============================================================================
