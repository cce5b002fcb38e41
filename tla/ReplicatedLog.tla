---------------------------- MODULE ReplicatedLog ----------------------------
(***************************************************************************)
(* What the roster promises its users: one log that only grows, every      *)
(* entry of which a quorum approved on top of the entry before it, and     *)
(* replicas that hold a prefix of it and only ever learn more.             *)
(***************************************************************************)
EXTENDS Integers, FiniteSets, Sequences

CONSTANT Replicas

VARIABLES
    log,     \* the finalized blocks, with the approvals that finalized them
    copy     \* per replica: the blocks it holds

logVars == <<log, copy>>

(* Two thirds of the replicas. *)
IsQuorum(Q) == Q \subseteq Replicas /\ 3 * Cardinality(Q) >= 2 * Cardinality(Replicas)

LogInit == log = <<>> /\ copy = [r \in Replicas |-> <<>>]

Begins(s, t) == Len(s) <= Len(t) /\ s = SubSeq(t, 1, Len(s))

(* A quorum finalizes one more block; r is the first replica to hold it. *)
Finalize(r) ==
    /\ Len(log') = Len(log) + 1 /\ Begins(log, log')
    /\ LET new == log'[Len(log')]
       IN  /\ IsQuorum(new.sigs)
           /\ new.blk.height = Len(log')
           /\ log # <<>> => new.blk.parent = log[Len(log)].blk.id
    /\ copy' = [copy EXCEPT ![r] = log']

(* A replica learns some of what it is missing. *)
Learn(r) ==
    /\ Begins(copy[r], copy'[r]) /\ copy'[r] # copy[r] /\ Begins(copy'[r], log)
    /\ copy' = [copy EXCEPT ![r] = copy'[r]]
    /\ UNCHANGED log

LogNext == \E r \in Replicas : Finalize(r) \/ Learn(r)

LogSpec == LogInit /\ [][LogNext]_logVars
=============================================================================
