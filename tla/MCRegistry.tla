----------------------------- MODULE MCRegistry -----------------------------
(* Instances of the registry for TLC. *)
EXTENDS Registry

CONSTANTS k1, k2, i1, i2, h1, h2, pc, addr, other

\* Nothing happens but the passing of time.
Quiet ==
    [names |-> Names, from |-> 3, until |-> 3, nodes |-> NoState.peers,
     machine |-> [n \in Names |-> None], home |-> [n \in Names |-> None],
     approved |-> [n \in Names |-> addr], addresses |-> {None}, delay |-> 0,
     does |-> {}, pays |-> FALSE, sells |-> FALSE, patient |-> TRUE, requests |-> 0,
     covers |-> [h \in Hashes |-> {}], chain |-> "native",
     crashes |-> 0, lost |-> 0, restarts |-> 0,
     runs |-> [n \in Names |-> None], open |-> FALSE, stops |-> 0,
     static |-> [n \in Names |-> None], reachable |-> {}, consensus |-> FALSE]

\* A node of key k that has sent heartbeats from time first to time last.
Proven(k, first, last, uptime) ==
    [key |-> k, registered |-> first, first |-> first, last |-> last, seen |-> last,
     uptime |-> uptime, nonce |-> last, machine |-> None, home |-> None, payout |-> None,
     approved |-> FALSE, paidMonth |-> 0, total |-> 0, uptimeAtPaid |-> 0]

\* One name, two keys, every way to register, approvals, silence.
Joining == [Quiet EXCEPT !.names = {1}, !.until = 7,
                         !.does = {"heartbeat", "register", "admin"}]

\* Two nodes short of their first reward, to the end of the next month.
Earning(where) ==
    [Quiet EXCEPT !.until = 7, !.does = {"heartbeat"}, !.pays = TRUE, !.chain = where,
                  !.nodes = (1 :> Proven(k1, 1, 3, 2) @@ 2 :> Proven(k2, 1, 3, 2))]

\* One of them.
Alone == [Earning("native") EXCEPT !.names = {1}, !.nodes[2] = None]

\* Three requests for two intents and two payments, one of which would do for
\* either intent.
Buying(where) ==
    [Quiet EXCEPT !.sells = TRUE, !.chain = where, !.requests = 3, !.lost = 1,
                  !.covers = (h1 :> {i1, i2} @@ h2 :> {i2})]

\* The programs of nodes, an administrator who approves, a validator that
\* follows the roster.
Running(one, two) ==
    [Quiet EXCEPT !.until = 6, !.runs = (1 :> one @@ 2 :> two), !.consensus = TRUE,
                  !.does = {"approve", "sync"}]

MCScenes ==
    {[Joining EXCEPT !.until = 6, !.does = @ \cup {"sync"}, !.consensus = TRUE, !.static[2] = k2],
     [Joining EXCEPT !.until = 4, !.crashes = 1],
     [Running("silent", None) EXCEPT !.names = {1}, !.stops = 1, !.lost = 1],
     [Running("silent", None) EXCEPT !.names = {1}, !.stops = 1, !.lost = 1, !.crashes = 1,
                                     !.does = {"approve"}, !.until = 5],
     [Running("synthosd", "silent") EXCEPT !.reachable = {1}, !.until = 4, !.lost = 1],
     [Running("synthosd", "silent") EXCEPT !.until = 4, !.does = {},
         !.nodes = (1 :> Proven(k1, 1, 3, 2) @@ 2 :> Proven(k2, 1, 3, 2))],
     [Running("fleet", "desktop") EXCEPT !.open = TRUE, !.stops = 1, !.lost = 1,
                                         !.does = {"approve"}, !.until = 4],
     [Running("fleet", "desktop") EXCEPT !.nodes[1] = Proven(k1, 1, 3, 2),
                                         !.does = {"heartbeat"}, !.until = 4],
     [Earning("comet") EXCEPT !.lost = 1],
     [Earning("native") EXCEPT !.machine = [n \in Names |-> pc], !.restarts = 1],
     [Alone EXCEPT !.crashes = 1, !.lost = 1],
     [Alone EXCEPT !.does = {"heartbeat", "register"}, !.addresses = {None, other}, !.delay = 1],
     [Buying("native") EXCEPT !.crashes = 1],
     [Buying("comet") EXCEPT !.patient = FALSE]}
=============================================================================
