--------------------------- MODULE MCTestNetwork ---------------------------
(* Small test networks.                                                    *)
EXTENDS TestNetwork, TLC

CONSTANTS a1, a2, c1, c2

Person(a, c) == [to |-> a, client |-> c]

Still == [seconds |-> 0, tunnels |-> 0, open |-> 0, faults |-> 0, restarts |-> FALSE, drift |-> {0}]

Quiet == [visitors |-> {}, clients |-> {c1, c2}, funds |-> 0, transfers |-> FALSE, missing |-> 0,
          first |-> a1, emptyUpTo |-> 0, counts |-> FALSE, failing |-> FALSE, boots |-> 0,
          limits |-> Still]

MCScenes ==
    { \* two people; the node restarts, or the faucet runs dry
      [Quiet EXCEPT !.visitors = {Person(a1, c1), Person(a2, c2)}, !.funds = 6, !.boots = 1],
      [Quiet EXCEPT !.visitors = {Person(a1, c1), Person(a2, c2)}, !.funds = 9],
      \* two addresses of one client; a block without transactions
      [Quiet EXCEPT !.visitors = {Person(a1, c1), Person(a2, c1)}, !.funds = 6, !.emptyUpTo = 1],
      \* what was received is sent on, here and through other nodes, and
      \* counted by a node that does not have the first block
      [Quiet EXCEPT !.visitors = {Person(a2, c2)}, !.funds = 6, !.missing = 1,
                    !.transfers = TRUE, !.counts = TRUE],
      \* counting that breaks off and starts over
      [Quiet EXCEPT !.visitors = {Person(a1, c1)}, !.funds = 6, !.counts = TRUE,
                    !.failing = TRUE, !.boots = 1, !.emptyUpTo = 1],
      \* the tunnel changes its address
      [Quiet EXCEPT !.boots = 1,
                    !.limits = [seconds |-> 2, tunnels |-> 1, open |-> 2, faults |-> 1,
                                restarts |-> TRUE, drift |-> {0, 1}]] }
=============================================================================
