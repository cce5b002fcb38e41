---------------------------- MODULE TestnetRelay ----------------------------
(***************************************************************************)
(* How the website learns the public address of the test network's node    *)
(* (cmd/cloudless-registry/testnet.go, cometapp/legacyapi/announce.go).    *)
(* The node sits behind a tunnel whose address changes when it restarts;   *)
(* its computer signs each new one with a time in whole seconds and sends  *)
(* it.  handleTestnetAnnounce lets go of its lock while it asks the node   *)
(* at that address for its status, so announcements overlap.               *)
(*                                                                         *)
(* Signatures, the announcer's key, the form of the address and the name   *)
(* of the network are checked before anything else and refuse what this    *)
(* module never sends.                                                     *)
(***************************************************************************)
EXTENDS Integers, FiniteSets

CONSTANTS MaxSkew,        \* testnetAnnounceMaxSkew, in seconds
          NoAnnouncement  \* a nil pointer, or no file

VARIABLES
    limits,    \* bounds: seconds, tunnels, open announcements, faults
    clock,     \* the time, in seconds
    tunnel,    \* the address the node can be reached at
    announces, \* announcements on their way: [url, timestamp, at]
    current,   \* testnetRelay.current
    loaded,    \* testnetRelay.loaded
    file,      \* testnet-announce.json
    faults     \* failed writes, and probes that got no answer

relayVars == <<limits, clock, tunnel, announces, current, loaded, file, faults>>

RelayInit ==
    /\ clock = 0 /\ tunnel = 0
    /\ announces = {}
    /\ current = NoAnnouncement /\ loaded = FALSE /\ file = NoAnnouncement
    /\ faults = 0

\* What the relay holds once load() has run.
Held == IF loaded THEN current ELSE file

Pass ==
    /\ clock < limits.seconds
    /\ clock' = clock + 1
    /\ UNCHANGED <<limits, tunnel, announces, current, loaded, file, faults>>

NewTunnel ==
    /\ tunnel < limits.tunnels
    /\ tunnel' = tunnel + 1
    /\ UNCHANGED <<limits, clock, announces, current, loaded, file, faults>>

\* The announcer's clock may be off by d.
Announce ==
    /\ Cardinality(announces) < limits.open
    /\ \E d \in limits.drift :
          announces' = announces \cup {[url |-> tunnel, timestamp |-> clock + d, at |-> "sent"]}
    /\ UNCHANGED <<limits, clock, tunnel, current, loaded, file, faults>>

Moves(a, at) == announces' = (announces \ {a}) \cup {[a EXCEPT !.at = at]}
Answered(a) == announces' = announces \ {a}

\* Nothing as new as this one is held.
IsNewer(a) == Held = NoAnnouncement \/ a.timestamp > Held.timestamp

\* handleTestnetAnnounce up to the end of its first critical section.
Arrive(a) ==
    /\ a.at = "sent"
    /\ IF a.timestamp \notin clock - MaxSkew .. clock + MaxSkew
       THEN Answered(a) /\ UNCHANGED <<current, loaded>>
       ELSE /\ current' = Held /\ loaded' = TRUE
            /\ IF IsNewer(a) THEN Moves(a, "probing") ELSE Answered(a)
    /\ UNCHANGED <<limits, clock, tunnel, file, faults>>

\* checkTestnetNode, without the lock: only the present tunnel answers.
checkTestnetNode(a) ==
    /\ a.at = "probing"
    /\ \/ a.url = tunnel /\ Moves(a, "probed") /\ UNCHANGED faults
       \/ a.url # tunnel /\ Answered(a) /\ UNCHANGED faults
       \/ a.url = tunnel /\ faults < limits.faults /\ Answered(a) /\ faults' = faults + 1
    /\ UNCHANGED <<limits, clock, tunnel, current, loaded, file>>

\* save: the file is replaced in one step, or the write fails unnoticed.
Save(announcement) ==
    \/ file' = announcement /\ UNCHANGED faults
    \/ faults < limits.faults /\ faults' = faults + 1 /\ UNCHANGED file

\* Mutant: what was announced during the probe is not looked at again.
Store_Unchecked(a) ==
    /\ a.at = "probed"
    /\ Answered(a)
    /\ current' = [url |-> a.url, timestamp |-> a.timestamp] /\ Save(current')
    /\ UNCHANGED <<limits, clock, tunnel, loaded>>

\* The second critical section.
Store(a) ==
    /\ a.at = "probed"
    /\ Answered(a)
    /\ IF current = NoAnnouncement \/ a.timestamp > current.timestamp
       THEN current' = [url |-> a.url, timestamp |-> a.timestamp] /\ Save(current')
       ELSE UNCHANGED <<current, file, faults>>
    /\ UNCHANGED <<limits, clock, tunnel, loaded>>

\* handleTestnetConfig loads the file too; what it serves is Held.
ServeConfig ==
    /\ ~loaded
    /\ current' = Held /\ loaded' = TRUE
    /\ UNCHANGED <<limits, clock, tunnel, announces, file, faults>>

\* The website restarts; requests in progress are lost with it.
RestartSite ==
    /\ loaded
    /\ limits.restarts
    /\ current' = NoAnnouncement /\ loaded' = FALSE
    /\ announces' = {a \in announces : a.at = "sent"}
    /\ UNCHANGED <<limits, clock, tunnel, file, faults>>

RelayStep ==
    \/ Pass \/ Announce
    \/ \E a \in announces : Arrive(a) \/ checkTestnetNode(a) \/ Store(a)
    \/ ServeConfig
    \/ RestartSite
=============================================================================
