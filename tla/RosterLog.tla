----------------------------- MODULE RosterLog -----------------------------
(***************************************************************************)
(* The roster of RosterConsensus as an implementation of ReplicatedLog.    *)
(***************************************************************************)
EXTENDS RosterConsensus

(* A roster with one producer that does not crash implements a replicated  *)
(* log: the producer's chain is the log, every block of it approved by a   *)
(* quorum, and what another node holds is always a prefix of it that never *)
(* shrinks, whether blocks come by push or by CatchUpOnce, votes directly  *)
(* or by mailbox, and whatever gets lost.                                  *)
Log == INSTANCE ReplicatedLog
          WITH Replicas <- Nodes, copy <- chain,
               log <- chain[CHOOSE n \in Nodes : n \in Producers]

ImplementsLog == Log!LogSpec

=============================================================================
