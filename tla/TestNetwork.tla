---------------------------- MODULE TestNetwork ----------------------------
(***************************************************************************)
(* The test network as visitors meet it: the website that hands out the    *)
(* node's address, and the node with its faucet.  The computer at home     *)
(* runs the node and the tunnel: when the node restarts, the tunnel may    *)
(* come back under another address.                                        *)
(***************************************************************************)
EXTENDS LegacyApi, TestnetRelay

CONSTANT Scenes  \* the situations a behaviour may start in

vars == <<nodeVars, relayVars>>

Init ==
    /\ scene \in Scenes
    /\ limits = scene.limits
    /\ NodeInit
    /\ RelayInit

Next ==
    \/ NodeStep /\ UNCHANGED relayVars
    \/ RelayStep /\ UNCHANGED nodeVars
    \/ NewTunnel /\ UNCHANGED nodeVars
    \/ Restart /\ UNCHANGED relayVars
    \/ Restart /\ NewTunnel

(* Handlers and the consensus run, time passes, and a visitor who has not  *)
(* been paid asks again.                                                   *)
Fairness ==
    /\ \A v \in UNION {s.visitors : s \in Scenes} :
          WF_vars(v \in Visitors /\ (PostFaucet(v) \/ drip(v)) /\ UNCHANGED relayVars)
    /\ WF_vars(Broadcast /\ UNCHANGED relayVars)
    /\ WF_vars(MakeBlock /\ UNCHANGED relayVars)
    /\ WF_vars(Tick /\ UNCHANGED relayVars)

Spec == Init /\ [][Next]_vars /\ Fairness

-----------------------------------------------------------------------------
(***************************************************************************)
(* Properties.                                                             *)
(***************************************************************************)

(* drip: while the node runs, no address and no client is paid twice       *)
(* within the cool-down, whatever requests overlap, wait or fail: the      *)
(* request that was paid is Cooldown old when the next one is.             *)
PaidOncePerCooldown ==
    [][\A d \in drips' \ drips : \A e \in drips :
          d.nonce \notin {f.nonce : f \in drips} /\ (e.to = d.to \/ e.client = d.client)
              => e.age >= Cooldown]_vars

DripsIn(txs) == {tx \in Range(txs) : tx.from = Faucet}
Succeeded(done) == {r.tx : r \in {q \in Range(done) : q.ok}}

(* "sent; it arrives in the next block": a drip the visitor was told of    *)
(* leaves the mempool by taking effect, or with the process.               *)
DripsArrive ==
    [][boots' = boots =>
          DripsIn(mempool) \ DripsIn(mempool') \subseteq
              UNION {Succeeded(blocks'[h]) : h \in Len(blocks) + 1..Len(blocks')}]_vars

Received(a) == \E h \in 1..Len(blocks) : \E tx \in Succeeded(blocks[h]) :
                  tx.from = Faucet /\ tx.to = a

(* Those who keep asking are all paid on the chain in the end, or find the *)
(* faucet empty: no nonce that went wrong blocks the faucet for good.      *)
VisitorsPaid ==
    <>(\/ \A v \in Visitors : Received(v.to)
       \/ committed[Faucet].balance < Amount + Fee)

(* catchUp: what GET /activity shows counts every transaction that took    *)
(* effect in the blocks up to counted_to once, although passes break off   *)
(* and overlap with new blocks.                                            *)
ActivityExact ==
    LET seen == FlattenSeq([i \in 1..Most(0, act.indexed - Missing) |-> Paid(blocks[Missing + i])])
    IN  /\ act.txs = Len(seen)
        /\ act.drips = Len(SelectSeq(seen, LAMBDA r : r.tx.from = Faucet))
        /\ act.wallets = {IF r.tx.from = Faucet THEN r.tx.to ELSE r.tx.from : r \in Range(seen)}
        /\ act.recent = Newest(seen, RecentKeep)

(* handleTestnetAnnounce: visitors are never sent back to an address older *)
(* than the one the website had, over overlapping announcements, probes    *)
(* and restarts; only a write that failed can do that.                     *)
AddressNeverGoesBack ==
    [][/\ Held # NoAnnouncement
       /\ Held' = NoAnnouncement \/ Held'.timestamp < Held.timestamp
       => Held # file]_vars
=============================================================================
