---------------------------- MODULE NodeClients ----------------------------
(***************************************************************************)
(* The programs that keep a node in the registry, and the one that reads   *)
(* the roster.                                                             *)
(*                                                                         *)
(*   silent     the node to download (cmd/silentnode): registers and sends *)
(*              a signed heartbeat on every tick;                          *)
(*   fleet      the fleet manager (cmd/fleet): the same for each of its    *)
(*              names, but it deletes the name's record when it starts and *)
(*              whenever a registration fails;                             *)
(*   desktop    the desktop agent (cmd/desktopagent): POST /register, with *)
(*              no key and without the registry's secret;                  *)
(*   synthosd   a validator (cmd/synthosd): POST /register with its key.   *)
(*                                                                         *)
(* Each is a loop of calls, and of any call nothing may be heard.  trust   *)
(* is what one more validator, that is not in Names, makes of the roster.  *)
(* The mailbox the programs read is part of RosterConsensus.               *)
(***************************************************************************)
EXTENDS NodeRegistry

VARIABLES
    client,         \* of each name: where its program is, its key file, its clock readings
    trust           \* the validator's fetched roster, engine, chain and peers

Runs(n) == scene.runs[n]
Doing(n) == client[n].at
MyKey(n) == client[n].key

NotStarted == [at |-> "down", key |-> None, beat |-> 0, stamp |-> 0]

Moved(n, where) == client' = [client EXCEPT ![n].at = where]

\* The desktop agent and the fleet send no X-Registry-Secret: they are heard by
\* a registry in its insecure development mode only.
authorized(n) == Runs(n) = "synthosd" \/ scene.open

-----------------------------------------------------------------------------
(* What the programs share.                                                *)

\* The request is accepted or refused and the caller hears of it, or it hears
\* nothing and the request may have been handled all the same.
postJSON(accepts, handle, ok) ==
    /\ ~lock
    /\ \/ ok /\ handle /\ UNCHANGED faults
       \/ ~ok /\ ~accepts /\ UNCHANGED <<server, faults>>
       \/ /\ ~ok
          /\ faults.lost < scene.lost
          /\ faults' = [faults EXCEPT !.lost = @ + 1]
          /\ (accepts /\ handle) \/ UNCHANGED server

\* A key is made once and read from its file ever after.
Loaded(n, k) == IF MyKey(n) # None THEN k = MyKey(n) ELSE k \in Keys \ {MyKey(m) : m \in Names}

StartWithKey(n, program, where) ==
    /\ Runs(n) = program
    /\ Doing(n) = "down"
    /\ \E k \in Keys :
          /\ Loaded(n, k)
          /\ client' = [client EXCEPT ![n].key = k, ![n].at = where]
    /\ UNCHANGED <<server, faults>>

\* The ticker fires, once in a time unit.
Tock(n, program, where, stamp) ==
    /\ Runs(n) = program
    /\ Doing(n) = "idle"
    /\ client[n].beat < now
    /\ client' = [client EXCEPT ![n].at = where, ![n].beat = now, ![n].stamp = stamp]
    /\ UNCHANGED <<server, faults>>

\* The programs are stopped, by their user or by a crash, wherever they are.
Stop(n) ==
    /\ Doing(n) # "down"
    /\ faults.stop < scene.stops
    /\ faults' = [faults EXCEPT !.stop = @ + 1]
    /\ Moved(n, "down")
    /\ UNCHANGED server

MayRegister(n) == Known(n) => ~Taken(peers[n], MyKey(n))

Registers(n, ok) ==
    postJSON(MayRegister(n), handleAPINodeRegister(n, MyKey(n), None), ok)

MayBeat(n, t) ==
    Known(n) /\ nonceLess(peers[n].nonce, t) /\ verifyHeartbeatSignature(peers[n], MyKey(n))

Beats(n, t, ok) ==
    postJSON(MayBeat(n, t), handleAPINodeHeartbeat(n, MyKey(n), t, None), ok)

MayPost(n) == authorized(n) /\ (Known(n) => peers[n].key \in {None, MyKey(n)})

Posts(n, ok) ==
    postJSON(MayPost(n), authorized(n) /\ handleRegister(n, MyKey(n)), ok)

-----------------------------------------------------------------------------
(* silentnode.  The heartbeat is numbered before the node registers, and   *)
(* sent whatever the answer to the registration is.                        *)
loadOrCreateNodeKey(n) == StartWithKey(n, "silent", "idle")

heartbeatAll(n) == Tock(n, "silent", "register", now)

register(n) ==
    /\ Runs(n) = "silent"
    /\ Doing(n) = "register"
    /\ \E ok \in BOOLEAN : Registers(n, ok)
    /\ Moved(n, "heartbeat")

heartbeat(n) ==
    /\ Runs(n) = "silent"
    /\ Doing(n) = "heartbeat"
    /\ \E ok \in BOOLEAN : Beats(n, client[n].stamp, ok)
    /\ Moved(n, "idle")

-----------------------------------------------------------------------------
(* fleet.  A worker deletes the record of its name when it starts and when *)
(* a registration fails, and then tries once more.  The heartbeat is       *)
(* numbered as it is sent.                                                 *)
loadOrGenerateKey(n) == StartWithKey(n, "fleet", "startup")

clearStalePeer(n) ==
    /\ Doing(n) \in {"startup", "refused"}
    /\ \E ok \in BOOLEAN : postJSON(authorized(n) /\ Known(n), authorized(n) /\ DeletePeer(n), ok)
    /\ client' = [client EXCEPT ![n].at = IF @ = "startup" THEN "register" ELSE "retry",
                                ![n].beat = now]

runNodeWorker(n) == Tock(n, "fleet", "register", 0)

registerOrClear(n) ==
    /\ Runs(n) = "fleet"
    /\ Doing(n) \in {"register", "retry"}
    /\ \E ok \in BOOLEAN :
          /\ Registers(n, ok)
          /\ Moved(n, IF ~ok /\ Doing(n) = "register" THEN "refused" ELSE "heartbeat")

doHeartbeat(n) ==
    /\ Runs(n) = "fleet"
    /\ Doing(n) = "heartbeat"
    /\ \E ok \in BOOLEAN : Beats(n, now, ok)
    /\ Moved(n, "idle")

-----------------------------------------------------------------------------
(* desktopagent, and synthosd's registry heartbeat.                        *)
startNode(n) ==
    /\ Runs(n) = "desktop"
    /\ Doing(n) = "down"
    /\ Moved(n, "idle")
    /\ UNCHANGED <<server, faults>>

heartbeatLoop(n) == Tock(n, "desktop", "post", 0)

registerHeartbeat(n) ==
    /\ Runs(n) = "desktop"
    /\ Doing(n) = "post"
    /\ \E ok \in BOOLEAN : Posts(n, ok)
    /\ Moved(n, "idle")

loadOrCreatePersistedKeyPair(n) == StartWithKey(n, "synthosd", "idle")

startRegistryHeartbeat(n) ==
    \/ Tock(n, "synthosd", "post", 0)
    \/ /\ Runs(n) = "synthosd"
       /\ Doing(n) = "post"
       /\ \E ok \in BOOLEAN : Posts(n, ok)
       /\ Moved(n, "idle")

ClientStep(n) ==
    \/ loadOrCreateNodeKey(n) \/ heartbeatAll(n) \/ register(n) \/ heartbeat(n)
    \/ loadOrGenerateKey(n) \/ clearStalePeer(n) \/ runNodeWorker(n)
    \/ registerOrClear(n) \/ doHeartbeat(n)
    \/ startNode(n) \/ heartbeatLoop(n) \/ registerHeartbeat(n)
    \/ loadOrCreatePersistedKeyPair(n) \/ startRegistryHeartbeat(n)

-----------------------------------------------------------------------------
(* startValidatorRosterSync: the roster is fetched, and then applied to the *)
(* engine and to the chain of the validator, over its configuration.  What  *)
(* cannot be fetched changes nothing.                                       *)

\* The validators of the configuration, with their keys.
buildValidatorKeySet == scene.static

Trusted(keys) == {n \in Names : keys[n] # None}

\* requiredForFinalityLocked, the validator itself counted.
Required(validators) == (2 * (Cardinality(validators) + 1) + 2) \div 3

mergeValidatorRoster(roster) ==
    [n \in Names |-> IF n \in DOMAIN roster THEN roster[n] ELSE buildValidatorKeySet[n]]

mailboxRelayPeersFromRoster(roster) == DOMAIN roster \ scene.reachable

\* Until consensus is switched on a validator counts its own vote only.
resolveConsensusValidators ==
    IF scene.consensus THEN Trusted(buildValidatorKeySet) ELSE {}

resolveChainQuorum == IF scene.consensus THEN Required(resolveConsensusValidators) ELSE 1

FromConfiguration ==
    [fetched |-> None, peers |-> buildValidatorKeySet, engine |-> resolveConsensusValidators,
     keys |-> buildValidatorKeySet, quorum |-> resolveChainQuorum, urls |-> {}, relay |-> {}]

fetchValidatorRoster ==
    /\ scene.consensus
    /\ trust.fetched = None
    /\ trust' = [trust EXCEPT !.fetched = [n \in Roster |-> peers[n].key]]

\* AddPeer for every key, which nothing takes back, and SetValidators.
ApplyToEngine ==
    /\ trust.fetched # None
    /\ LET keys == mergeValidatorRoster(trust.fetched)
       IN  /\ trust.engine # Trusted(keys) \/ \E n \in Trusted(keys) : trust.peers[n] # keys[n]
           /\ trust' = [trust EXCEPT !.engine = Trusted(keys),
                                     !.peers = [n \in Names |-> Given(keys[n], @[n])]]

\* SetValidatorSet, with the quorum of the engine as it is now.
ApplyToChain ==
    /\ trust.fetched # None
    /\ LET keys == mergeValidatorRoster(trust.fetched)
       IN  /\ trust.engine = Trusted(keys)
           /\ \A n \in Trusted(keys) : trust.peers[n] = keys[n]
           /\ trust' = [trust EXCEPT
                 !.fetched = None,
                 !.keys = keys,
                 !.quorum = Required(trust.engine),
                 !.urls = DOMAIN trust.fetched \cap scene.reachable,
                 !.relay = mailboxRelayPeersFromRoster(trust.fetched)]

RosterSync == fetchValidatorRoster \/ ApplyToEngine \/ ApplyToChain
=============================================================================
