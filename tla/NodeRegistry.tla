---------------------------- MODULE NodeRegistry ----------------------------
(***************************************************************************)
(* The nodes of the registry: registration under either endpoint, signed   *)
(* heartbeats and the uptime they prove, approval as a validator, pruning. *)
(* A peer record keeps the fields other code decides on.  ValidHeartbeats  *)
(* is positive exactly when LastNonce is set; nothing in the program opens *)
(* a hosted proof session; the heartbeat nonce, a time stamp followed by a *)
(* counter, is the time it was signed.                                     *)
(***************************************************************************)
EXTENDS RegistryState

CONSTANTS
    Fresh,          \* heartbeatFreshAfter
    StaleAfter,     \* staleAfter
    ForgetAfter     \* the 30 days a proven node may be silent

ASSUME WindowsAssumption ==
    /\ {Fresh, StaleAfter, ForgetAfter} \subseteq Nat \ {0}
    /\ Fresh <= StaleAfter
    /\ StaleAfter <= ForgetAfter

peers == mem.peers
Known(n) == peers[n] # None

SetPeer(n, p) == Change([mem EXCEPT !.peers[n] = p])

NewPeer(k, seen, machine, home, payout) ==
    [key |-> k, registered |-> now, first |-> 0, last |-> 0, seen |-> seen,
     uptime |-> 0, nonce |-> 0, machine |-> machine, home |-> home, payout |-> payout,
     approved |-> FALSE, paidMonth |-> 0, total |-> 0, uptimeAtPaid |-> 0]

Given(x, default) == IF x # None THEN x ELSE default

\* isRealSignedHeartbeat
Real(p) == p.nonce # 0

peerIsStale(p) == p.seen = 0 \/ now - p.seen > StaleAfter

-----------------------------------------------------------------------------
(* POST /register, for nodes that know the registry's secret.  The record  *)
(* is new but for the time of registration.                                *)
handleRegister(n, k) ==
    /\ Known(n) => peers[n].key \in {None, k}
    /\ SetPeer(n, [NewPeer(k, now, scene.machine[n], None, None)
                     EXCEPT !.registered = IF Known(n) THEN peers[n].registered ELSE now])

\* POST /api/nodes/register.  Another key takes the name over when the node
\* has never sent a heartbeat or is silent; the same key, or a first one for a
\* record without, keeps what the node has proved.
Taken(p, k) == p.key \notin {None, k} /\ Real(p) /\ now - p.seen < StaleAfter

\* Mutant: another key inherits the record.
Keeps_AnyKey(p, k) == p # None

\* Mutant: a node that fell silent starts over.
Keeps_WhileLive(p, k) == p # None /\ p.key \in {None, k} /\ ~peerIsStale(p)

Keeps(p, k) == p # None /\ p.key \in {None, k}

Reregistered(p, k, machine, home, payout) ==
    [p EXCEPT !.key = k,
              !.home = home,
              !.payout = Given(@, payout),
              !.machine = IF p.machine # None /\ ~peerIsStale(p) THEN p.machine ELSE machine]

handleAPINodeRegister(n, k, payout) ==
    LET p == peers[n]
    IN  /\ Known(n) => ~Taken(p, k)
        /\ SetPeer(n, IF Known(n) /\ Keeps(p, k)
                      THEN Reregistered(p, k, scene.machine[n], scene.home[n], payout)
                      ELSE NewPeer(k, 0, scene.machine[n], scene.home[n], payout))

\* POST /api/nodes/provision writes over whatever has the name.
handleAPIProvisionNode(n, k) == SetPeer(n, NewPeer(k, 0, None, None, None))

\* A heartbeat the node signed at time t.  It proves the time since the last
\* one, and never more than the fresh window of it.
\* Mutant: the first heartbeat earns uptime.
Credit_FirstToo(p) == Min({now - p.last, Fresh})

Credit(p) == IF p.last = 0 THEN 0 ELSE Min({now - p.last, Fresh})

\* The nonces of the programs order like the times in them.
nonceLess(a, b) == a < b

\* Nothing is signed with the key of a record that has none.
verifyHeartbeatSignature(p, k) == p.key = k

handleAPINodeHeartbeat(n, k, t, payout) ==
    LET p == peers[n]
    IN  /\ Known(n)
        /\ nonceLess(p.nonce, t)
        /\ verifyHeartbeatSignature(p, k)
        /\ SetPeer(n, [p EXCEPT !.first = IF @ = 0 THEN now ELSE @,
                                !.uptime = @ + Credit(p),
                                !.last = now,
                                !.seen = now,
                                !.nonce = t,
                                !.machine = Given(scene.machine[n], @),
                                !.home = Given(scene.home[n], @),
                                !.payout = Given(payout, @)])

\* POST /api/nodes/ID/payout-address, unsigned: sets an empty address only.
SetPayoutAddress(n, payout) ==
    /\ Known(n)
    /\ peers[n].payout \in {None, payout}
    /\ SetPeer(n, [peers[n] EXCEPT !.payout = payout])

-----------------------------------------------------------------------------
(* Approval as a validator by the administrator, or by showing the bond,   *)
(* which asks for no key.  (A bond that is too small changes nothing that  *)
(* is modelled.)                                                           *)
Approve(n) ==
    /\ Known(n)
    /\ peers[n].key # None
    /\ SetPeer(n, [peers[n] EXCEPT !.approved = TRUE])

handleAPIValidatorStake(n) ==
    /\ Known(n)
    /\ SetPeer(n, [peers[n] EXCEPT !.approved = TRUE])

Revoke(n) ==
    /\ Known(n)
    /\ SetPeer(n, [peers[n] EXCEPT !.approved = FALSE])

\* GET /api/validators/roster: the keys other nodes come to trust.
Roster == {n \in Names : Known(n) /\ peers[n].approved /\ peers[n].key # None}

DeletePeer(n) == Known(n) /\ SetPeer(n, None)

-----------------------------------------------------------------------------
(* The pruner, on its ticker and on every request for the network's status.*)
Silent(p) == now - (IF p.seen = 0 THEN p.registered ELSE p.seen)

Prunable(p) ==
    Silent(p) > IF Real(p) \/ p.uptime > 0 THEN ForgetAfter ELSE StaleAfter

pruneInactivePeers ==
    LET gone == {n \in Names : Known(n) /\ Prunable(peers[n])}
    IN  /\ gone # {}
        /\ ChangeLocked([mem EXCEPT !.peers =
                            [n \in Names |-> IF n \in gone THEN None ELSE @[n]]])
=============================================================================
