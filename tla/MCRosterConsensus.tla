------------------------- MODULE MCRosterConsensus -------------------------
(* Instances of RosterConsensus and RosterLog for TLC. *)
EXTENDS RosterLog

(* Every node pushes to and catches up from every other. *)
AllPeers == [n \in Nodes |-> Nodes \ {n}]

(* One producer, nothing goes wrong. *)
Plain == [producers |-> {1}, rotation |-> FALSE, relay |-> {}, silent |-> {},
          fleet |-> <<>>, height |-> 2, crashes |-> 0, expiries |-> 0, lost |-> 0,
          timeouts |-> 0, ids |-> 6]

Rotates == [Plain EXCEPT !.producers = {1, 2}, !.rotation = TRUE, !.height = 1]

\* One producer that may crash; two producers in rotation with a vote lock
\* that may time out; a validator behind the mailbox, whose votes may come late;
\* a silentnode in its place.
Safe == {[Plain EXCEPT !.crashes = 1],
         [Rotates EXCEPT !.expiries = 1, !.ids = 3],
         [Plain EXCEPT !.relay = {3}, !.height = 1, !.timeouts = 1, !.ids = 3],
         [Plain EXCEPT !.relay = {3}, !.silent = {3}, !.timeouts = 1, !.ids = 4]}

\* One producer, messages get lost: every voter has a URL, one is reached by
\* mailbox, or the producer holds the keys of a quorum.
Lossy == {[Plain EXCEPT !.lost = 2],
          [Plain EXCEPT !.relay = {3}, !.height = 1, !.lost = 1, !.ids = 4],
          [Plain EXCEPT !.relay = {3}, !.silent = {3}, !.height = 1, !.lost = 1, !.ids = 4],
          [Plain EXCEPT !.fleet = <<1, 2>>, !.lost = 2]}

\* Two producers and a lock that holds.
Rotating == {[Rotates EXCEPT !.timeouts = 1, !.ids = 4]}

\* Rounds that lose three requests in all.
Retrying == {[Plain EXCEPT !.height = 1, !.lost = 3, !.ids = 4]}
=============================================================================
