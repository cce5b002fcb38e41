------------------------------ MODULE Registry ------------------------------
(***************************************************************************)
(* The registry server: the handlers of the nodes, the reward keeper and   *)
(* the early-access sale over one state, one file and one process that may *)
(* die at any point, with the programs that keep nodes in it and a         *)
(* validator that follows its roster.                                      *)
(***************************************************************************)
EXTENDS RewardKeeper, EarlyAccess, NodeClients

VARIABLE granted    \* the nodes that were approved, with the key they had then

others == <<client, trust, granted>>

vars == <<scene, now, server, chain, faults, keeper, sale, others>>

rest == <<scene, now, chain, faults, keeper, sale, client, trust>>

Init ==
    /\ scene \in Scenes
    /\ now = scene.from
    /\ mem = [NoState EXCEPT !.peers = scene.nodes]
    /\ file = mem
    /\ owed = FALSE /\ enc = None /\ lock = FALSE
    /\ nonce = [w \in Wallets |-> 0] /\ pool = {} /\ done = {}
    /\ faults = NoFaults
    /\ keeper = Idle
    /\ paid = {} /\ served = 0
    /\ reqs = [r \in Requests |-> NoRequest]
    /\ client = [n \in Names |-> NotStarted]
    /\ trust = FromConfiguration
    /\ granted = {}

-----------------------------------------------------------------------------
(* The nodes and the administrator.                                        *)

Does(what) == what \in scene.does

Heartbeat ==
    /\ Does("heartbeat")
    /\ \E n \in scene.names, k \in Keys, t \in (now - scene.delay)..now, a \in scene.addresses :
          handleAPINodeHeartbeat(n, k, t, a)
    /\ UNCHANGED <<rest, granted>>

RegisterNode ==
    /\ Does("register")
    /\ \E n \in scene.names, k \in Keys, a \in scene.addresses : handleAPINodeRegister(n, k, a)
    /\ UNCHANGED <<rest, granted>>

RegisterPeer ==
    /\ Does("admin")
    /\ \E n \in scene.names, k \in Keys \cup {None} : handleRegister(n, k)
    /\ UNCHANGED <<rest, granted>>

ProvisionNode ==
    /\ Does("admin")
    /\ \E n \in scene.names, k \in Keys : handleAPIProvisionNode(n, k)
    /\ UNCHANGED <<rest, granted>>

PayoutAddress ==
    /\ Does("register")
    /\ \E n \in scene.names, a \in scene.addresses \ {None} : SetPayoutAddress(n, a)
    /\ UNCHANGED <<rest, granted>>

ApproveValidator ==
    /\ Does("admin") \/ Does("approve")
    /\ \E n \in scene.names :
          /\ Approve(n) \/ handleAPIValidatorStake(n)
          /\ granted' = granted \cup {<<n, peers[n].key>>}
    /\ UNCHANGED rest

RevokeOrDelete ==
    /\ Does("admin")
    /\ \E n \in scene.names : Revoke(n) \/ DeletePeer(n)
    /\ UNCHANGED <<rest, granted>>

Prune ==
    /\ pruneInactivePeers
    /\ UNCHANGED <<rest, granted>>

Tick ==
    /\ now < scene.until
    /\ now' = now + 1
    /\ UNCHANGED <<scene, server, chain, faults, keeper, sale, others>>

\* The programs of the nodes.
Clients ==
    /\ \E n \in scene.names : ClientStep(n) \/ Stop(n)
    /\ UNCHANGED <<scene, now, chain, keeper, sale, trust, granted>>

Sync ==
    /\ Does("sync")
    /\ RosterSync
    /\ UNCHANGED <<scene, now, server, chain, faults, keeper, sale, client, granted>>

-----------------------------------------------------------------------------
Write ==
    /\ BeginWrite \/ EndWrite \/ LockedWrite
    /\ UNCHANGED <<keeper, sale, others>>

\* Cycles and requests die with the process; what they sent does not.
Crash ==
    /\ CrashServer
    /\ keeper' = Idle
    /\ reqs' = [r \in Requests |-> NoRequest]
    /\ UNCHANGED <<paid, served, others>>

Block ==
    /\ (\E t \in pool : Execute(t)) \/ RestartChain
    /\ UNCHANGED <<keeper, sale, others>>

Keeper ==
    /\ ReadNonce \/ Settle \/ Send \/ Record
    /\ UNCHANGED <<sale, others>>

Sale ==
    /\ \/ \E i \in Intents : CreateIntent(i) \/ \E r \in Requests, h \in Hashes : ReadIntent(r, i, h)
       \/ \E h \in Hashes : Mine(h)
       \/ \E r \in Requests :
             \/ reservePaymentTxHash(r) \/ PersistReservation(r)
             \/ Verified(r) \/ NotVerified(r)
             \/ ReadSaleNonce(r) \/ allocateNativeSYN(r) \/ savePaymentIntent(r)
    /\ UNCHANGED <<keeper, others>>

Next ==
    \/ Heartbeat \/ RegisterNode \/ RegisterPeer \/ ProvisionNode \/ PayoutAddress
    \/ ApproveValidator \/ RevokeOrDelete \/ Prune \/ Tick
    \/ Clients \/ Sync
    \/ Write \/ Crash \/ Block \/ Keeper \/ Sale

Spec == Init /\ [][Next]_vars

-----------------------------------------------------------------------------
(* A node is never credited with more time than has passed between its     *)
(* first and its last heartbeat, whatever is registered again, replayed,   *)
(* pruned or restored from an older file in between.                       *)
UptimeEarned ==
    \A n \in Names : Known(n) => peers[n].uptime <= peers[n].last - peers[n].first

(* The validator that follows the roster trusts, beside its configuration, *)
(* only keys that were approved: an approval does not pass to the key that *)
(* takes over the name of a silent node, whatever is fetched when.  (A     *)
(* bond may be shown for a node without a key; the first key to register   *)
(* gets it.)                                                               *)
TrustedWereApproved ==
    \A n \in Trusted(trust.keys) :
        \/ trust.keys[n] = scene.static[n]
        \/ <<n, trust.keys[n]>> \in granted
        \/ <<n, None>> \in granted

(* A node that runs the downloadable program loses nothing of what it has  *)
(* proved and of what it was granted, however often it stops, registers    *)
(* again or hears no answer: its uptime never falls and its approval ends  *)
(* with a revocation only, until the registry itself goes back to an older *)
(* file or forgets a node that was silent for ForgetAfter.                 *)
Owns(n) == Known(n) /\ peers[n].key = MyKey(n) /\ MyKey(n) # None

Forgotten(n) == Prunable(peers[n]) \/ faults'.crash # faults.crash

ProofKept ==
    [][\A n \in Names : Runs(n) = "silent" /\ Owns(n) /\ ~Forgotten(n) =>
          /\ Known(n)'
          /\ peers[n].uptime <= peers'[n].uptime
          /\ peers[n].approved => peers'[n].approved]_vars

Rewards == {t \in done : t.wallet = "rewards"}
Sales == {t \in pool \cup done : t.wallet = "sale"}

\* Answers of the chain the registry never took note of.
Unheard == faults.lost + faults.crash

(* A node is paid once for a month, unless the keeper did not learn of a   *)
(* transfer it had sent.                                                   *)
PaidOnceAMonth ==
    \A n \in Names, month \in {t.ref : t \in Rewards} :
        Cardinality({t \in Rewards : t.to = n /\ t.ref = month}) <= 1 + Unheard

(* A payment buys SYN for one intent only, and an intent is allocated once *)
(* plus once for every answer that went unheard, when buyers wait for an   *)
(* answer before they ask again.  It takes two failures to free the hash   *)
(* of a payment: one that hides the allocation and one of the EVM node     *)
(* when it is verified again.                                              *)
PaymentBuysOnce ==
    scene.patient =>
        /\ Unheard <= 1 => \A t, u \in Sales : t.ref = u.ref => t.to = u.to
        /\ \A i \in Intents : Cardinality({t \in Sales : t.to = i}) <= 1 + Unheard
=============================================================================
