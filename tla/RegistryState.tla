--------------------------- MODULE RegistryState ---------------------------
(***************************************************************************)
(* The state of the cloudless registry (cmd/cloudless-registry): the maps  *)
(* a single mutex guards, the JSON file they are written to, and the chain *)
(* the registry pays from.                                                 *)
(*                                                                         *)
(* persist() takes a lock of its own and not the one that guards the maps. *)
(* Most handlers change a map, release the map lock and then call it, so a *)
(* file can be encoded while another handler changes the maps: the peers,  *)
(* encoded first, may be older than the rest.  The reward keeper and the   *)
(* pruner call it with the map lock held.                                  *)
(***************************************************************************)
EXTENDS Integers, Sequences, FiniteSets, FiniteSetsExt

CONSTANTS
    Names,          \* node IDs, numbers: their order breaks ties
    Keys,           \* Ed25519 public keys
    Intents,        \* early-access payment intents
    Hashes,         \* hashes of EVM payments
    Requests,       \* concurrent requests to verify a payment
    Scenes,         \* who takes part and what the world does (one is picked)
    None            \* the empty string, the missing entry

VARIABLES
    scene,          \* the member of Scenes this behaviour plays
    now,            \* time.Now()
    mem,            \* server.state
    file,           \* the state file
    owed,           \* a handler has changed mem and not yet called persist
    enc,            \* what a running persist has read so far, or None
    lock,           \* the map lock is held by a caller of persist
    nonce,          \* next nonce of the rewards and of the sale wallet
    pool,           \* mempool of the chain
    done,           \* transfers the chain has executed
    faults          \* crashes, lost answers, restarts of the chain and of clients

server == <<mem, file, owed, enc, lock>>
chain == <<nonce, pool, done>>

Wallets == {"rewards", "sale"}

NoState ==
    [peers    |-> [n \in Names |-> None],
     payments |-> [i \in Intents |-> None],
     consumed |-> [h \in Hashes |-> None],
     payouts  |-> <<>>]

NoFaults == [crash |-> 0, lost |-> 0, restart |-> 0, stop |-> 0]

-----------------------------------------------------------------------------
(* Persistence.                                                            *)

\* The file is read after a crash: once no crash can come, writing it is left
\* out.
Watched == faults.crash < scene.crashes

\* A handler that changes mem under the lock and saves after releasing it.
Change(m) ==
    /\ ~lock
    /\ mem' = m
    /\ owed' = Watched
    /\ UNCHANGED <<file, enc, lock>>

\* One that saves before it releases the lock (LockedWrite).
ChangeLocked(m) ==
    /\ ~lock
    /\ mem' = m
    /\ lock' = Watched
    /\ UNCHANGED <<file, owed, enc>>

\* persist for the handlers of Change: the peers are encoded, other handlers
\* may run, the rest is encoded and the file renamed into place.  The state is
\* passed by value: the maps in it are shared, the list of payouts has the
\* length it had, and its rows are shared until an append moves them.
BeginWrite ==
    /\ owed
    /\ enc = None
    /\ enc' = [peers |-> mem.peers, payouts |-> mem.payouts]
    /\ owed' = FALSE
    /\ UNCHANGED <<scene, now, mem, file, lock, chain, faults>>

EndWrite ==
    /\ enc # None
    /\ \E rows \in {enc.payouts, SubSeq(mem.payouts, 1, Len(enc.payouts))} :
          file' = [mem EXCEPT !.peers = enc.peers, !.payouts = rows]
    /\ enc' = None
    /\ UNCHANGED <<scene, now, mem, owed, lock, chain, faults>>

\* A persist that nothing overlaps: it waits for the one that is running.
WholeWrite ==
    /\ enc = None
    /\ file' = mem
    /\ UNCHANGED <<mem, enc>>

LockedWrite ==
    /\ lock
    /\ WholeWrite
    /\ lock' = FALSE
    /\ UNCHANGED <<scene, now, owed, chain, faults>>

\* The process dies, by itself or from the concurrent use of a map the
\* unguarded encoding allows, and load() reads the last complete file.
CrashServer ==
    /\ Watched
    /\ faults' = [faults EXCEPT !.crash = @ + 1]
    /\ mem' = file
    /\ owed' = FALSE
    /\ enc' = None
    /\ lock' = FALSE
    /\ UNCHANGED <<scene, now, file, chain>>

-----------------------------------------------------------------------------
(* The chain: POST /submitTx, GET /account and a block.  A node of the      *)
(* native chain wants the nonce of the account and a new transaction id, a  *)
(* CometBFT node the nonce after the transactions it has already admitted.  *)

Pending(w) == {t \in pool : t.wallet = w}

Admits(t) ==
    /\ t \notin pool
    /\ t.nonce = nonce[t.wallet]
                 + IF scene.chain = "comet" THEN Cardinality(Pending(t.wallet)) ELSE 0

\* A transfer whose nonce another one has used can never be executed and is
\* dropped here.
Execute(t) ==
    /\ t \in pool
    /\ t.nonce = nonce[t.wallet]
    /\ nonce' = [nonce EXCEPT ![t.wallet] = @ + 1]
    /\ done' = done \cup {t}
    /\ pool' = {u \in pool : u.wallet # t.wallet \/ u.nonce > t.nonce}
    /\ UNCHANGED <<scene, now, server, faults>>

\* The node restarts and forgets its mempool.
RestartChain ==
    /\ faults.restart < scene.restarts
    /\ pool # {}
    /\ faults' = [faults EXCEPT !.restart = @ + 1]
    /\ pool' = {}
    /\ UNCHANGED <<scene, now, server, nonce, done>>

\* What a caller of /submitTx can see: the answer, a refusal, or no answer to
\* a transfer that was admitted all the same.
Submit(t, answer) ==
    \/ /\ answer = "ok"
       /\ Admits(t)
       /\ pool' = pool \cup {t}
       /\ UNCHANGED faults
    \/ /\ answer = "error"
       /\ ~Admits(t)
       /\ UNCHANGED <<pool, faults>>
    \/ /\ answer = "error"
       /\ faults.lost < scene.lost
       /\ faults' = [faults EXCEPT !.lost = @ + 1]
       /\ pool' = IF Admits(t) THEN pool \cup {t} ELSE pool
=============================================================================
