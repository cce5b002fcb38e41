------------------------------ MODULE MCGossip ------------------------------
(***************************************************************************)
(* Scenes for Gossip: each behaviour plays one of them.                    *)
(***************************************************************************)
EXTENDS Gossip

MCAgents == 1..3

Among(S) == [n \in MCAgents |-> IF n \in S THEN S \ {n} ELSE {}]

(* Configurations in which the others know only the address of agent 1. *)
Star == [n \in MCAgents |-> IF n = 1 THEN MCAgents \ {1} ELSE {1}]

(* A scene in which the agents of S know each other and nothing happens. *)
Scene(kind, S) ==
    [kind |-> kind, skew |-> [n \in MCAgents |-> 0], spaced |-> TRUE,
     addrs |-> Among(S), trusted |-> Among(S), known |-> Among(S),
     kinds |-> {"message"}, rekeyed |-> {}, joining |-> {}, talkers |-> {},
     producers |-> {}, maxConns |-> 9, messages |-> 0, proposals |-> 0, height |-> 0,
     faults |-> 0, moves |-> 0, dups |-> 0, restarts |-> 0, ticks |-> 0]

(* Two validators talk to each other; dials fail, responses come late and   *)
(* a single slot is contended for.                                          *)
Talk ==
    [Scene("secure", {1, 2}) EXCEPT !.talkers = {1, 2}, !.maxConns = 1,
        !.messages = 3, !.faults = 2, !.ticks = 2]

(* One validator has a new key the other two do not know, one is restarted. *)
Rekeyed ==
    [Scene("secure", {1, 2}) EXCEPT !.talkers = {1}, !.rekeyed = {1},
        !.messages = 3, !.restarts = 1, !.ticks = 2]

(* A validator with nobody's key in the other's configuration.              *)
Stranger ==
    [Scene("secure", {1, 2, 3}) EXCEPT !.talkers = {1, 3}, !.messages = 2,
        !.kinds = {"message", "noise"},
        !.trusted = Among({1, 2}), !.known = Among({1, 2}), !.joining = {3},
        !.ticks = 1]

(* Delayed and repeated envelopes between nodes whose clocks differ by the  *)
(* freshness window; a node restarts.                                       *)
Replay ==
    [Scene("tcp", {1, 2}) EXCEPT !.talkers = {1}, !.messages = 2, !.dups = 2,
        !.skew = [n \in MCAgents |-> IF n = 2 THEN -FreshWindow ELSE 0],
        !.restarts = 1, !.ticks = 2 * FreshWindow + 1]

(* More messages than the limiter and the inbox have room for.              *)
Flood ==
    [Scene("tcp", {1, 2}) EXCEPT !.talkers = {1}, !.messages = 4,
        !.moves = 1, !.ticks = 2]

(* A proposal and its votes, over plain TCP and over the authenticated      *)
(* transport.                                                               *)
Block ==
    [Scene("tcp", 1..3) EXCEPT !.producers = {1}, !.proposals = 1,
        !.height = 1]
SecureBlock ==
    [Scene("secure", 1..3) EXCEPT !.producers = {1}, !.proposals = 1,
        !.height = 1, !.addrs = Star, !.ticks = 1]

(* Proposals for two heights, one perhaps before the last is finalized, by  *)
(* one of two validators that are up; a message is lost.                    *)
TwoBlocks ==
    [Scene("tcp", {1, 2}) EXCEPT !.producers = {1}, !.proposals = 2,
        !.height = 2, !.faults = 1, !.ticks = 1]

(* The same as SecureBlock with a proposer that does not wait a second      *)
(* between the proposal and its vote.                                       *)
Hasty == [SecureBlock EXCEPT !.spaced = FALSE, !.ticks = 0]

MCScenes ==
    {Talk, Rekeyed, Stranger, Replay, Flood, Block, SecureBlock, TwoBlocks,
     Hasty}
=============================================================================
