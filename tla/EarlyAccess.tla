---------------------------- MODULE EarlyAccess ----------------------------
(***************************************************************************)
(* The early-access sale: a buyer opens a payment intent, pays on an EVM   *)
(* chain and asks the registry to verify the payment, which reserves its   *)
(* hash, checks it and sends the SYN.  verifyPaymentIntent works on a copy *)
(* of the intent it read at the start and holds no lock across its calls   *)
(* to either chain.                                                        *)
(***************************************************************************)
EXTENDS RegistryState

VARIABLES
    paid,       \* payments that are mined on the EVM chain
    reqs,       \* the requests that are being served
    served      \* how many have been accepted so far

sale == <<paid, reqs, served>>

NoRequest == [step |-> "idle", intent |-> None, hash |-> None, nonce |-> 0, status |-> None]

At(r, step) == reqs[r].step = step

Goto(r, step) == reqs' = [reqs EXCEPT ![r].step = step]

\* The request goes on to savePaymentIntent with this status in its copy.
Ends(r, status) == reqs' = [reqs EXCEPT ![r].step = "save", ![r].status = status]

\* POST /api/early-access/payment-intents
CreateIntent(i) ==
    /\ scene.sells
    /\ mem.payments[i] = None
    /\ Change([mem EXCEPT !.payments[i] = "pending_payment"])
    /\ UNCHANGED <<scene, now, chain, faults, sale>>

\* The buyer's payment is mined.
Mine(h) ==
    /\ scene.sells
    /\ h \notin paid
    /\ paid' = paid \cup {h}
    /\ UNCHANGED <<scene, now, server, chain, faults, reqs, served>>

-----------------------------------------------------------------------------
(* POST /api/early-access/payment-intents/ID/verify                        *)

Open(i) == mem.payments[i] \notin {None, "syn_allocated"}

\* The intent is read; one that is allocated is answered at once.  A buyer
\* who waits for an answer has one request at a time.
ReadIntent(r, i, h) ==
    /\ At(r, "idle")
    /\ ~lock
    /\ Open(i)
    /\ scene.patient => \A q \in Requests : reqs[q].intent # i
    /\ served < scene.requests
    /\ served' = served + 1
    /\ reqs' = [reqs EXCEPT ![r] = [NoRequest EXCEPT !.step = "reserve", !.intent = i, !.hash = h]]
    /\ UNCHANGED <<scene, now, server, chain, faults, paid>>

\* Mutant: the owner of a hash is not checked.
Free_Always(h, i) == TRUE

Free(h, i) == mem.consumed[h] \in {None, i}

reservePaymentTxHash(r) ==
    LET i == reqs[r].intent
        h == reqs[r].hash
    IN  /\ At(r, "reserve")
        /\ ~lock
        /\ IF Free(h, i)
           THEN /\ mem' = [mem EXCEPT !.consumed[h] = i]
                /\ Goto(r, "persist")
                /\ UNCHANGED <<file, owed, enc, lock>>
           ELSE /\ reqs' = [reqs EXCEPT ![r] = NoRequest]
                /\ UNCHANGED server
        /\ UNCHANGED <<scene, now, chain, faults, paid, served>>

\* The reservation is on disk before the payment is looked at.
PersistReservation(r) ==
    /\ At(r, "persist")
    /\ IF Watched THEN WholeWrite ELSE UNCHANGED <<mem, file, enc>>
    /\ Goto(r, "check")
    /\ UNCHANGED <<scene, now, owed, lock, chain, faults, paid, served>>

\* verifyEVMPayment: the receipt exists, and pays the treasury enough for this
\* intent.
Pays(h, i) == h \in paid /\ i \in scene.covers[h]

Verified(r) ==
    /\ At(r, "check")
    /\ Pays(reqs[r].hash, reqs[r].intent)
    /\ Goto(r, "nonce")
    /\ UNCHANGED <<scene, now, server, chain, faults, paid, served>>

releasePaymentTxHash(h, i) ==
    Change([mem EXCEPT !.consumed[h] = IF @ = i THEN None ELSE @])

\* Not mined, too little, or the EVM node does not answer.
NotVerified(r) ==
    /\ At(r, "check")
    /\ Pays(reqs[r].hash, reqs[r].intent) => faults.lost < scene.lost
    /\ faults' = IF Pays(reqs[r].hash, reqs[r].intent)
                 THEN [faults EXCEPT !.lost = @ + 1] ELSE faults
    /\ releasePaymentTxHash(reqs[r].hash, reqs[r].intent)
    /\ Ends(r, "verification_failed")
    /\ UNCHANGED <<scene, now, chain, paid, served>>

\* allocateNativeSYN: the nonce of the distribution wallet, then the transfer.
\* The answer to one that is accepted has its transaction id.
ReadSaleNonce(r) ==
    /\ At(r, "nonce")
    /\ reqs' = [reqs EXCEPT ![r].step = "allocate", ![r].nonce = nonce["sale"]]
    /\ UNCHANGED <<scene, now, server, chain, faults, paid, served>>

Allocation(q) ==
    [wallet |-> "sale", nonce |-> q.nonce, to |-> q.intent, ref |-> q.hash]

allocateNativeSYN(r) ==
    /\ At(r, "allocate")
    /\ \E answer \in {"ok", "error"} :
          /\ Submit(Allocation(reqs[r]), answer)
          /\ Ends(r, IF answer = "ok" THEN "syn_allocated" ELSE "allocation_pending")
    /\ UNCHANGED <<scene, now, nonce, done, server, paid, served>>

savePaymentIntent(r) ==
    /\ At(r, "save")
    /\ Change([mem EXCEPT !.payments[reqs[r].intent] = reqs[r].status])
    /\ reqs' = [reqs EXCEPT ![r] = NoRequest]
    /\ UNCHANGED <<scene, now, chain, faults, paid, served>>
=============================================================================
