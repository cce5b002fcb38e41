-------------------------- MODULE RosterLogProofs --------------------------
(***************************************************************************)
(* A roster with one producer that does not crash: no quorum it collects   *)
(* is wasted, and its chain is a replicated log.                           *)
(***************************************************************************)
EXTENDS RosterLog, RosterConsensusProofs, FiniteSetTheorems

\* Where a round of the only producer p stands.
Standing(p) ==
    /\ prod[p].at \in {"collect", "certified", "sealed"} =>
          /\ Extends(p, prod[p].blk) /\ prod[p].blk.root = bal[p]
          /\ prod[p].blk.id # TipId(chain[p])
    /\ prod[p].at = "certified" => FinalityStatus(engine[p], prod[p].blk)
    /\ prod[p].at = "sealed" => Authorized(prod[p].sigs)
    /\ prod[p].at \in {"finalized", "saved"} =>
          /\ prod[p].blk.height = Height(p)
          /\ chain[p][Height(p)] = [blk |-> prod[p].blk, sigs |-> prod[p].sigs]
    /\ \A h \in 1..MaxHeight : engine[p][h].stage \subseteq engine[p][h].votes

\* The engine of a fleet's producer has heard of no vote beyond its chain but
\* those for the block it is about to add.
FleetMemory(p) ==
    Len(Fleet) >= 2 =>
        /\ prod[p].at \notin {"collect", "certified"}
        /\ \A h \in 1..MaxHeight : engine[p][h].flagged = {}
        /\ \A h \in 1..MaxHeight :
              h > Height(p) + (IF prod[p].at = "sealed" THEN 1 ELSE 0) =>
                  \A v \in Nodes : engine[p][h].voted[v] = 0

\* The chain d is the beginning of c.
Leads(c, d) == Len(d) <= Len(c) /\ \A i \in 1..Len(d) : d[i] = c[i]

\* Nobody else runs a round, and a fleet's validators are never asked.
OthersFollow(p) ==
    /\ \A n \in Nodes \ {p} :
          /\ prod[n].at = "idle"
          /\ Len(Fleet) >= 2 => \A h \in 1..MaxHeight : engine[n][h].flagged = {}
    /\ \A r \in reqs : r.to # p /\ Len(Fleet) < 2

\* What the others hold or are sent is on p's chain.
OnItsChain(p) ==
    /\ \A m \in Nodes : Leads(chain[p], chain[m])
    /\ \A q \in pushes :
          /\ q.blk.height \in 1..Height(p)
          /\ chain[p][q.blk.height] = [blk |-> q.blk, sigs |-> q.sigs]

\* One steady producer.
SteadyInv ==
    Steady(dep) =>
        /\ crashes = 0
        /\ \A p \in Producers :
              Standing(p) /\ FleetMemory(p) /\ OthersFollow(p) /\ OnItsChain(p)

-----------------------------------------------------------------------------
\* The roster is finite.
LEMMA NodesFinite ==
    /\ IsFiniteSet(Nodes) /\ Cardinality(Nodes) = N
    /\ \A S \in SUBSET Nodes : IsFiniteSet(S) /\ Cardinality(S) \in 0..N
<1>1. N \in Nat /\ 1 \in Int /\ N \in Int
  BY SMTT(30), NAssumption
<1>2. IsFiniteSet(Nodes) /\ Cardinality(Nodes) = N
  BY SMTT(30), <1>1, FS_Interval DEF Nodes
<1>3. ASSUME NEW S \in SUBSET Nodes PROVE IsFiniteSet(S) /\ Cardinality(S) \in 0..N
  <2>1. IsFiniteSet(S) /\ Cardinality(S) <= Cardinality(Nodes)
    BY Zenon, <1>2, FS_Subset
  <2>2. Cardinality(S) \in Nat
    BY Zenon, <2>1, FS_CardinalityType
  <2> QED BY SMTT(30), <1>1, <1>2, <2>1, <2>2
<1> QED BY Zenon, <1>2, <1>3

\* A steady deployment has one producer.
LEMMA OneProducer ==
    ASSUME Typed, Steady(dep)
    PROVE  \E p \in Nodes : Producers = {p}
<1>1. Producers \subseteq Nodes /\ Cardinality(Producers) = 1
  BY Zenon, DeploymentTyped DEF Typed, Steady, Producers
<1>2. IsFiniteSet(Producers)
  BY Zenon, <1>1, NodesFinite
<1>3. \E p : Producers = {p}
  BY Zenon, <1>1, <1>2, FS_Singleton
<1> QED BY Zenon, <1>1, <1>3

\* Counting votes leaves the tally of the current round within the one of
\* the candidate.
LEMMA TalliesKept ==
    ASSUME NEW e \in Slots, NEW b \in Block, b.height \in 1..MaxHeight,
           NEW V, V \subseteq Nodes,
           \A h \in 1..MaxHeight : e[h].stage \subseteq e[h].votes
    PROVE  \A h \in 1..MaxHeight : OnVotes(e, V, b)[h].stage \subseteq OnVotes(e, V, b)[h].votes
<1> DEFINE o == OnVotes(e, V, b)
<1>1. \A h \in 1..MaxHeight : h # b.height => o[h] = e[h]
  BY SMTT(30), OnVotesTyped
<1>2. /\ e[b.height].cand.id = b.id =>
            /\ o[b.height].votes = e[b.height].votes \cup V
            /\ o[b.height].stage \subseteq e[b.height].stage \cup V
      /\ e[b.height].cand.id # b.id =>
            /\ o[b.height].votes = e[b.height].votes
            /\ o[b.height].stage = e[b.height].stage
  BY Zenon DEF OnVotes, Slots
<1> HIDE DEF o
<1>3. o[b.height].stage \subseteq o[b.height].votes
  <2>1. e[b.height].stage \subseteq e[b.height].votes
    BY Zenon
  <2> QED BY Zenon, <1>2, <2>1
<1>4. \A h \in 1..MaxHeight : o[h].stage \subseteq o[h].votes
  BY Zenon, <1>1, <1>3
<1> QED BY Zenon, <1>4 DEF o

\* Votes that contradict no other cost nobody anything.
LEMMA NoPenalty ==
    ASSUME ChainsTyped, NEW n \in Nodes, NEW e, NEW V, NEW b, HandleVotes(n, e, V, b),
           Equivocators(e, V, b) = {}
    PROVE  bal' = bal /\ engine' = [engine EXCEPT ![n] = OnVotes(e, V, b)]
<1>1. bal' = [bal EXCEPT ![n] = SlashAll(bal[n], {}, EquivocationPenalty)]
  BY Zenon DEF HandleVotes
<1>2. bal \in [Nodes -> Balances] /\ EquivocationPenalty \in Nat
  BY Zenon, RosterAssumption DEF ChainsTyped
<1>3. SlashAll(bal[n], {}, EquivocationPenalty) = bal[n]
  BY Zenon, <1>2, SlashTyped
<1>4. bal' = bal
  BY Zenon, <1>1, <1>2, <1>3
<1> QED BY Zenon, <1>4 DEF HandleVotes

\* A step that leaves the producer's chain, engine, balances and round alone.
LEMMA SteadyLeft ==
    ASSUME Typed, SteadyInv, Steady(dep), NEW p \in Nodes, Producers = {p},
           dep' = dep, crashes' = crashes,
           chain'[p] = chain[p], bal'[p] = bal[p], engine'[p] = engine[p],
           \A n \in Nodes : /\ prod'[n].at = prod[n].at /\ prod'[n].blk = prod[n].blk
                            /\ prod'[n].sigs = prod[n].sigs,
           \A r \in reqs' : \E s \in reqs : r.to = s.to,
           reqs = {} => engine' = engine,
           \A m \in Nodes : Leads(chain[p], chain'[m]),
           pushes' \subseteq pushes
    PROVE  SteadyInv'
<1>0. Producers' = {p} /\ Fleet' = Fleet /\ MaxHeight' = MaxHeight /\ Height(p)' = Height(p)
  BY Zenon DEF Producers, Fleet, MaxHeight, Height
<1>1. Standing(p) /\ FleetMemory(p) /\ OthersFollow(p) /\ OnItsChain(p) /\ crashes = 0
  BY Zenon DEF SteadyInv
<1>2. Standing(p)'
  <2>1. /\ prod'[p].at = prod[p].at /\ prod'[p].blk = prod[p].blk
        /\ prod'[p].sigs = prod[p].sigs
    BY Zenon
  <2> QED BY Zenon, <1>0, <1>1, <2>1 DEF Standing, Extends
<1>3. FleetMemory(p)'
  BY SMTT(30), <1>0, <1>1 DEF FleetMemory
<1>4. OthersFollow(p)'
  <2>1. \A r \in reqs' : r.to # p /\ Len(Fleet) < 2
    BY Zenon, <1>1 DEF OthersFollow
  <2>2. Len(Fleet) >= 2 => engine' = engine
    <3>1. Len(Fleet) \in Nat
      BY SMTT(30), DeploymentTyped DEF Typed
    <3> QED BY SMTT(30), <1>1, <3>1 DEF OthersFollow
  <2> QED BY Zenon, <1>0, <1>1, <2>1, <2>2 DEF OthersFollow
<1>5. OnItsChain(p)'
  BY Zenon, <1>0, <1>1 DEF OnItsChain
<1> QED BY Zenon, <1>0, <1>1, <1>2, <1>3, <1>4, <1>5 DEF SteadyInv

\* A step of the producer's round.
LEMMA SteadyRound ==
    ASSUME Typed, SteadyInv, Steady(dep), NEW p \in Nodes, Producers = {p},
           dep' = dep, crashes' = crashes,
           \A n \in Nodes \ {p} : prod'[n] = prod[n] /\ engine'[n] = engine[n],
           \A r \in reqs' : r \in reqs \/ (r.to # p /\ Len(Fleet) < 2),
           Standing(p)', FleetMemory(p)', OnItsChain(p)'
    PROVE  SteadyInv'
<1>0. Producers' = {p} /\ Fleet' = Fleet /\ MaxHeight' = MaxHeight
  BY Zenon DEF Producers, Fleet, MaxHeight
<1>1. OthersFollow(p) /\ crashes = 0
  BY Zenon DEF SteadyInv
<1>2. OthersFollow(p)'
  BY Zenon, <1>0, <1>1 DEF OthersFollow
<1> QED BY Zenon, <1>0, <1>1, <1>2 DEF SteadyInv

-----------------------------------------------------------------------------
\* What a step of the others amounts to: no round moves on, and at most one
\* of them holds more blocks than before.
Followed(p) ==
    /\ SteadyInv'
    /\ \A n \in Nodes : prod'[n].at = prod[n].at
    /\ \/ chain' = chain
       \/ \E n \in Nodes \ {p} : \E c \in Seq(Entry) :
             chain' = [chain EXCEPT ![n] = c] /\ Len(c) > Len(chain[n])

\* The only producer never runs after another chain.
LEMMA SteadyOthers ==
    ASSUME Typed, SteadyInv, Steady(dep), NEW p \in Nodes, Producers = {p},
           \/ \E n \in Nodes : Fetch(n) \/ \E m \in Nodes : CatchUpOnce(n, m)
           \/ \E r \in reqs : \/ CheckHeight(r) \/ ValidateProposal(r) \/ RefuseVote(r)
                              \/ CastVote(r) \/ SilentVote(r) \/ LoseRequest(r)
           \/ \E v \in mail : LoseVote(v)
           \/ \E q \in pushes : DeliverPush(q) \/ LosePush(q)
           \/ UNCHANGED vars
    PROVE  Followed(p)
<1>0. dep' = dep /\ crashes' = crashes
  BY ZenonT(40) DEF Fetch, CatchUpOnce, CheckHeight, ValidateProposal, RefuseVote, CastVote,
     SilentVote, LoseRequest, LoseVote, DeliverPush, LosePush, UnchangedFaults, vars
<1>1. /\ Standing(p) /\ FleetMemory(p) /\ OthersFollow(p) /\ OnItsChain(p)
      /\ \A m \in Nodes : Leads(chain[p], chain[m])
      /\ chain \in [Nodes -> Seq(Entry)] /\ bal \in [Nodes -> Balances]
  BY Zenon DEF SteadyInv, OnItsChain, Typed, ChainsTyped
<1>2. ASSUME chain' = chain, bal'[p] = bal[p], engine' = engine, prod' = prod,
             \A r \in reqs' : \E s \in reqs : r.to = s.to, pushes' \subseteq pushes
      PROVE  Followed(p)
  BY Zenon, <1>0, <1>1, <1>2, SteadyLeft DEF Followed
<1>3. ASSUME NEW n \in Nodes, Fetch(n)
      PROVE  Followed(p)
  <2>1. \A r \in reqs : [r EXCEPT !.at = IF r.to = n /\ @ = "mail" THEN "sent" ELSE @].to = r.to
    BY Zenon DEF Typed, RequestsTyped, Request
  <2>2. \A r \in reqs' : \E s \in reqs : r.to = s.to
    BY ZenonT(40), <1>3, <2>1 DEF Fetch
  <2> QED BY Zenon, <1>2, <1>3, <2>2 DEF Fetch, KeepChain
<1>4. ASSUME NEW r \in reqs, CheckHeight(r) \/ ValidateProposal(r)
      PROVE  Followed(p)
  <2>1. \A at : [r EXCEPT !.at = at].to = r.to
    BY Zenon DEF Typed, RequestsTyped, Request
  <2>2. \A s \in reqs' : s \in reqs \/ s.to = r.to
    BY ZenonT(40), <1>4, <2>1 DEF CheckHeight, ValidateProposal, Moved
  <2>3. bal'[p] = bal[p]
    <3>1. r.to # p
      BY Zenon, <1>1 DEF OthersFollow
    <3> QED BY Zenon, <1>1, <1>4, <3>1 DEF CheckHeight, ValidateProposal, KeepChain
  <2> QED BY Zenon, <1>2, <1>4, <2>2, <2>3 DEF CheckHeight, ValidateProposal, KeepChain
<1>5. ASSUME \/ \E r \in reqs : RefuseVote(r) \/ SilentVote(r) \/ LoseRequest(r)
             \/ \E v \in mail : LoseVote(v)
             \/ \E q \in pushes : LosePush(q)
             \/ UNCHANGED vars
      PROVE  Followed(p)
  BY Zenon, <1>2, <1>5 DEF RefuseVote, SilentVote, LoseRequest, LoseVote, LosePush, KeepChain, vars
<1>6. ASSUME NEW r \in reqs, CastVote(r)
      PROVE  Followed(p)
  <2>1. r.to \in Nodes \ {p} /\ r.blk.proposer \in Nodes
    BY Zenon, <1>1 DEF OthersFollow, Typed, RequestsTyped, Request, Proposed
  <2>2. engine'[p] = engine[p]
    BY Zenon, <1>6, <2>1 DEF CastVote, Typed, EnginesTyped
  <2>3. \A n \in Nodes : /\ prod'[n].at = prod[n].at /\ prod'[n].blk = prod[n].blk
                         /\ prod'[n].sigs = prod[n].sigs
    <3>1. \/ prod' = prod
          \/ prod' = [prod EXCEPT ![r.blk.proposer] = [prod[r.blk.proposer] EXCEPT !.got = @ \cup {r.to}]]
      BY Zenon, <1>6 DEF CastVote, PostVote, AnswerVote
    <3> QED BY SMTT(30), <2>1, <3>1 DEF Typed, RoundsTyped, Round
  <2>4. chain' = chain /\ bal' = bal /\ pushes' = pushes /\ reqs' \subseteq reqs /\ reqs # {}
    BY Zenon, <1>6 DEF CastVote, KeepChain
  <2> QED BY Zenon, <1>0, <1>1, <2>2, <2>3, <2>4, SteadyLeft DEF Followed
<1>7. ASSUME NEW n \in Nodes, n # p, NEW c, NEW x, Adopt(n, c, x), Leads(chain[p], c),
             c \in Seq(Entry), Len(c) > Len(chain[n]),
             engine' = engine, prod' = prod, reqs' = reqs, pushes' \subseteq pushes
      PROVE  Followed(p)
  <2>1. /\ chain'[p] = chain[p] /\ bal'[p] = bal[p]
        /\ \A m \in Nodes : Leads(chain[p], chain'[m])
    BY Zenon, <1>1, <1>7 DEF Adopt
  <2>2. SteadyInv'
    BY Zenon, <1>0, <1>1, <1>7, <2>1, SteadyLeft
  <2> QED BY Zenon, <1>7, <2>2 DEF Followed, Adopt
<1>8. ASSUME NEW n \in Nodes, NEW m \in Nodes, CatchUpOnce(n, m)
      PROVE  Followed(p)
  <2>1. PICK c, x : CaughtUp(n, m, c) /\ Adopt(n, c, x)
    BY Zenon, <1>8, CatchingUp
  <2>2. /\ Height(n) \in Nat /\ Height(m) \in Nat /\ Height(p) \in Nat /\ Len(c) \in Nat
        /\ c \in Seq(Entry) /\ Len(c) > Height(n) /\ Len(c) <= Height(m)
        /\ Height(n) <= Height(p) /\ Height(m) <= Height(p)
    BY Zenon, <1>1, <2>1, TipTyped DEF CaughtUp, Height, Leads
  <2>3. n # p
    BY SMTT(30), <2>2
  <2>4. /\ \A i \in 1..Height(n) : chain[n][i] = chain[p][i]
        /\ \A i \in 1..Height(m) : chain[m][i] = chain[p][i]
    BY Zenon, <1>1 DEF Leads, Height
  <2>5. \A i \in 1..Len(c) : c[i] = chain[p][i]
    <3>1. \A i \in 1..Len(c) : \/ i \in 1..Height(n) /\ c[i] = chain[n][i]
                               \/ i \in 1..Height(m) /\ c[i] = chain[m][i]
      BY SMTT(30), <2>1, <2>2 DEF CaughtUp
    <3> QED BY Zenon, <2>4, <3>1
  <2>6. Leads(chain[p], c)
    BY SMTT(30), <2>2, <2>5 DEF Leads, Height
  <2> QED BY Zenon, <1>7, <1>8, <2>1, <2>2, <2>3, <2>6 DEF CatchUpOnce, Height
<1>9. ASSUME NEW q \in pushes, DeliverPush(q)
      PROVE  Followed(p)
  <2> DEFINE n == q.to
             h == q.blk.height
             y == [blk |-> q.blk, sigs |-> q.sigs]
  <2>1. /\ n \in Nodes /\ h \in 1..Height(p) /\ chain[p][h] = y /\ y.blk = q.blk
        /\ Height(p) \in Nat /\ Height(n) \in Nat /\ Height(n) <= Height(p)
    BY Zenon, <1>1, TipTyped DEF OnItsChain, Typed, PushesTyped, Pushed, Leads, Height
  <2>2. CASE KeepChain
    BY Zenon, <1>2, <1>9, <2>2 DEF DeliverPush, KeepChain
  <2>3. ASSUME NEW c, NEW x, Delivered(q, c), Adopt(n, c, x)
        PROVE  Followed(p)
    <3>1. \A i \in 1..Height(n) : chain[n][i] = chain[p][i]
      BY Zenon, <1>1, <2>1 DEF Leads, Height
    <3>2. ~ \E i \in 1..Height(n) : i = h /\ chain[n][i].blk.id # q.blk.id
      BY Zenon, <2>1, <3>1
    <3>3. h = Height(n) + 1 /\ c = Append(chain[n], y)
      BY Zenon, <2>3, <3>2 DEF Delivered, Extends
    <3>4. n # p
      BY SMTT(30), <2>1, <3>3
    <3>5. /\ Len(c) = Height(n) + 1 /\ c[Height(n) + 1] = y
          /\ \A i \in 1..Height(n) : c[i] = chain[n][i]
      <4>1. chain[n] \in Seq(Entry) /\ Height(n) = Len(chain[n])
        BY Zenon, <1>1, <2>1 DEF Height
      <4> HIDE DEF y, n
      <4> QED BY SMTT(30), <3>3, <4>1
    <3>6. \A i \in 1..Len(c) : c[i] = chain[p][i]
      <4>1. \A i \in 1..Len(c) : i \in 1..Height(n) \/ i = Height(n) + 1
        BY SMTT(30), <2>1, <3>5
      <4> QED BY Zenon, <2>1, <3>1, <3>3, <3>5, <4>1
    <3>7. Leads(chain[p], c)
      BY SMTT(30), <2>1, <3>3, <3>5, <3>6 DEF Leads, Height
    <3>8. y \in Entry
      BY Zenon DEF Typed, PushesTyped, Pushed, Entry
    <3>9. c \in Seq(Entry) /\ Len(c) > Len(chain[n])
      BY SMTT(30), <1>1, <2>1, <3>3, <3>5, <3>8 DEF Height
    <3> QED BY Zenon, <1>7, <1>9, <2>1, <2>3, <3>4, <3>7, <3>9 DEF DeliverPush
  <2> QED BY Zenon, <1>9, <2>2, <2>3, Delivering
<1> QED BY Zenon, <1>3, <1>4, <1>5, <1>6, <1>8, <1>9

-----------------------------------------------------------------------------
\* The producer's first step of a round: nothing it has heard contradicts its
\* candidate, so it changes no balance.
LEMMA SteadyProposal ==
    ASSUME Typed, SteadyInv, Steady(dep), NEW p \in Nodes, Producers = {p}, Propose(p)
    PROVE  SteadyInv'
<1> DEFINE b == BuildBlock(p)
           V == {p}
           r == RecordProposal(engine[p], b)
           x == [Idle EXCEPT !.at = "collect", !.blk = b]
<1>0. /\ Standing(p) /\ FleetMemory(p) /\ OnItsChain(p)
      /\ prod \in [Nodes -> Round] /\ engine \in [Nodes -> Slots] /\ engine[p] \in Slots
      /\ Height(p) \in Nat /\ MaxHeight \in Nat /\ ChainsTyped
  BY Zenon, TipTyped, DeploymentTyped
     DEF SteadyInv, Typed, RoundsTyped, EnginesTyped, ChainsTyped, Height
<1>1. /\ dep' = dep /\ crashes' = crashes /\ chain' = chain /\ pushes' = pushes
      /\ FreshIds # {} /\ Height(p) < MaxHeight /\ Len(Fleet) < 2
      /\ HandleVotes(p, r, V, b) /\ prod' = [prod EXCEPT ![p] = x]
      /\ reqs' = reqs \cup {[to |-> m, blk |-> b,
                             at |-> IF m \in Relay THEN "mail" ELSE "sent"] :
                                m \in Nodes \ {p}}
  BY Zenon DEF Propose, Tick, UnchangedFaults
<1>2. /\ b \in Block /\ Extends(p, b) /\ b.root = bal[p] /\ b.id # TipId(chain[p])
      /\ \A c : Mentioned(c) => c.id # b.id
  BY Zenon, <1>1, Built
<1>3. b.height \in 1..MaxHeight
  BY SMTT(30), <1>0, <1>1, <1>2 DEF Extends
<1>4. V \subseteq Nodes
  BY Zenon
<1>5. x.at = "collect" /\ x.blk = b
  BY Zenon, <1>2, IdleTyped DEF Round
<1> HIDE DEF b, V, x
<1>6. \A s \in reqs' : s \in reqs \/ (s.to # p /\ Len(Fleet) < 2)
  BY SMTT(30), <1>1
<1>7. /\ r \in Slots /\ \A v \in Nodes : r[b.height].voted[v] = 0
      /\ \A h \in 1..MaxHeight : r[h].stage \subseteq r[h].votes
  <2>1. Mentioned(engine[p][b.height].cand)
    BY Zenon, <1>3 DEF Mentioned, InEngines
  <2>2. b.id # engine[p][b.height].cand.id
    BY Zenon, <1>2, <2>1
  <2>3. /\ r \in Slots /\ \A v \in Nodes : r[b.height].voted[v] = 0
        /\ \A h \in 1..MaxHeight : h # b.height => r[h] = engine[p][h]
        /\ r[b.height].stage = {}
    BY ZenonT(40), <1>0, <1>2, <1>3, <2>2, RecordProposalTyped
  <2> QED BY Zenon, <1>0, <2>3 DEF Standing
<1> HIDE DEF r
<1>8. Equivocators(r, V, b) = {}
  BY Zenon, <1>4, <1>7 DEF Equivocators
<1>9. bal' = bal /\ engine' = [engine EXCEPT ![p] = OnVotes(r, V, b)]
  BY Zenon, <1>0, <1>1, <1>8, NoPenalty
<1>10. \A h \in 1..MaxHeight : engine'[p][h].stage \subseteq engine'[p][h].votes
  BY Zenon, <1>0, <1>2, <1>3, <1>4, <1>7, <1>9, TalliesKept
<1>11. /\ \A n \in Nodes \ {p} : prod'[n] = prod[n] /\ engine'[n] = engine[n]
       /\ prod'[p] = x
  BY Zenon, <1>0, <1>1, <1>9
<1>12. Standing(p)'
  BY Zenon, <1>1, <1>2, <1>5, <1>9, <1>10, <1>11 DEF Standing, Extends, Height, MaxHeight
<1>13. FleetMemory(p)'
  <2>1. Len(Fleet) \in Nat
    BY SMTT(30), DeploymentTyped DEF Typed
  <2> QED BY SMTT(30), <1>1, <2>1 DEF FleetMemory, Fleet
<1>14. OnItsChain(p)'
  BY Zenon, <1>0, <1>1 DEF OnItsChain, Height
<1> QED BY Zenon, <1>1, <1>6, <1>11, <1>12, <1>13, <1>14, SteadyRound

\* A fleet's round: its keys have voted for nothing beyond the chain.
LEMMA SteadyFleet ==
    ASSUME Typed, SteadyInv, Steady(dep), NEW p \in Nodes, Producers = {p}, FleetSign(p)
    PROVE  SteadyInv'
<1> DEFINE w == Fleet[1 + (Height(p) % Len(Fleet))]
           b == [BuildBlock(p) EXCEPT !.proposer = w]
           V == Range(Fleet)
           x == [at |-> "sealed", blk |-> b, got |-> {}, sigs |-> V]
<1>0. /\ Standing(p) /\ FleetMemory(p) /\ OnItsChain(p)
      /\ prod \in [Nodes -> Round] /\ engine \in [Nodes -> Slots] /\ engine[p] \in Slots
      /\ Height(p) \in Nat /\ MaxHeight \in Nat /\ ChainsTyped
      /\ Fleet \in Seq(Nodes)
  BY Zenon, TipTyped, DeploymentTyped
     DEF SteadyInv, Typed, RoundsTyped, EnginesTyped, ChainsTyped, Height
<1>1. /\ dep' = dep /\ crashes' = crashes /\ chain' = chain /\ pushes' = pushes
      /\ reqs' = reqs
      /\ FreshIds # {} /\ Height(p) < MaxHeight /\ Len(Fleet) >= 2 /\ prod[p].at = "idle"
      /\ HandleVotes(p, engine[p], V, b) /\ prod' = [prod EXCEPT ![p] = x]
  BY Zenon DEF FleetSign, Tick, UnchangedFaults
<1>2. w \in Nodes /\ V \subseteq Nodes /\ Authorized(V)
  <2>1. 1 + (Height(p) % Len(Fleet)) \in 1..Len(Fleet)
    BY SMTT(30), <1>0, <1>1, TurnTyped
  <2> QED BY SMTT(30), <1>0, <1>1, <2>1 DEF Range, Steady, Fleet
<1>3. /\ b \in Block /\ Extends(p, b) /\ b.root = bal[p] /\ b.id # TipId(chain[p])
  <2>1. /\ BuildBlock(p) \in Block /\ Extends(p, BuildBlock(p))
        /\ BuildBlock(p).root = bal[p] /\ BuildBlock(p).id # TipId(chain[p])
    BY Zenon, <1>1, Built
  <2> HIDE DEF w
  <2> QED BY SMTT(30), <1>2, <2>1 DEF Extends, Block, Nodes
<1>4. b.height = Height(p) + 1 /\ b.height \in 1..MaxHeight
  BY SMTT(30), <1>0, <1>1, <1>3 DEF Extends
<1>5. x.at = "sealed" /\ x.blk = b /\ x.sigs = V
  BY Zenon
<1> HIDE DEF b, V, x
<1>6. /\ \A h \in 1..MaxHeight : engine[p][h].flagged = {}
      /\ \A h \in 1..MaxHeight : h > Height(p) => \A v \in Nodes : engine[p][h].voted[v] = 0
  BY SMTT(30), <1>0, <1>1 DEF FleetMemory
<1>7. Equivocators(engine[p], V, b) = {}
  BY SMTT(30), <1>0, <1>2, <1>4, <1>6 DEF Equivocators
<1>8. bal' = bal /\ engine' = [engine EXCEPT ![p] = OnVotes(engine[p], V, b)]
  BY SMTT(30), <1>0, <1>1, <1>7, NoPenalty
<1>9. /\ \A h \in 1..MaxHeight : engine'[p][h].stage \subseteq engine'[p][h].votes
      /\ \A h \in 1..MaxHeight : engine'[p][h].flagged = {}
      /\ \A h \in 1..MaxHeight : h # b.height => engine'[p][h] = engine[p][h]
  <2>1. \A h \in 1..MaxHeight : engine[p][h].stage \subseteq engine[p][h].votes
    BY Zenon, <1>0 DEF Standing
  <2>2. \A h \in 1..MaxHeight : engine'[p][h].stage \subseteq engine'[p][h].votes
    BY Zenon, <1>0, <1>2, <1>3, <1>4, <1>8, <2>1, TalliesKept
  <2>3. \A h \in 1..MaxHeight : engine'[p][h].flagged = {}
    <3>1. engine'[p] = OnVotes(engine[p], V, b)
      BY Zenon, <1>0, <1>8
    <3>2. \A h \in 1..MaxHeight : OnVotes(engine[p], V, b)[h].flagged = engine[p][h].flagged
      BY SMTT(30), <1>0, <1>2, <1>3, <1>4, <1>7, NoneFlagged
    <3> QED BY Zenon, <1>6, <3>1, <3>2
  <2>4. \A h \in 1..MaxHeight : h # b.height => engine'[p][h] = engine[p][h]
    BY SMTT(30), <1>0, <1>2, <1>3, <1>4, <1>8, OnVotesTyped
  <2> QED BY Zenon, <2>2, <2>3, <2>4
<1>10. /\ \A n \in Nodes \ {p} : prod'[n] = prod[n] /\ engine'[n] = engine[n]
       /\ prod'[p] = x
  BY Zenon, <1>0, <1>1, <1>8
<1>11. Standing(p)'
  BY Zenon, <1>1, <1>2, <1>3, <1>5, <1>8, <1>9, <1>10
     DEF Standing, Extends, Height, MaxHeight, Authorized
<1>12. FleetMemory(p)'
  <2>1. \A h \in 1..MaxHeight : h > Height(p) + 1 => \A v \in Nodes : engine'[p][h].voted[v] = 0
    BY SMTT(30), <1>0, <1>4, <1>6, <1>9
  <2> QED BY Zenon, <1>1, <1>5, <1>9, <1>10, <2>1 DEF FleetMemory, Fleet, Height, MaxHeight
<1>13. OnItsChain(p)'
  BY Zenon, <1>0, <1>1 DEF OnItsChain, Height
<1> QED BY Zenon, <1>1, <1>10, <1>11, <1>12, <1>13, SteadyRound

\* The steps that follow: the votes of the round count in both tallies, and
\* the block is still the one that extends the chain.
LEMMA SteadyRounds ==
    ASSUME Typed, VoteMemory, SteadyInv, Steady(dep), NEW p \in Nodes, Producers = {p},
           \/ PollVotes(p) \/ CloseRound(p) \/ Seal(p) \/ FinalizeBlock(p)
           \/ SaveFinalized(p) \/ Push(p)
    PROVE  /\ SteadyInv'
           /\ prod[p].at \in {"certified", "sealed"} => prod'[p].at # "idle"
<1> DEFINE b == prod[p].blk
<1>0. /\ Standing(p) /\ FleetMemory(p) /\ OthersFollow(p) /\ OnItsChain(p)
      /\ prod \in [Nodes -> Round] /\ engine \in [Nodes -> Slots] /\ engine[p] \in Slots
      /\ prod[p] \in Round /\ chain \in [Nodes -> Seq(Entry)] /\ chain[p] \in Seq(Entry)
      /\ Height(p) \in Nat /\ Height(p) = Len(chain[p]) /\ MaxHeight \in Nat /\ ChainsTyped
      /\ prod[p].at # "idle" => Proposed(prod[p].blk)
      /\ Fleet \in Seq(Nodes)
  BY Zenon, TipTyped, DeploymentTyped
     DEF SteadyInv, Typed, RoundsTyped, EnginesTyped, ChainsTyped, Height
<1>1. dep' = dep /\ crashes' = crashes
  BY Zenon DEF PollVotes, CloseRound, Seal, FinalizeBlock, SaveFinalized, Push, UnchangedFaults
<1>2. ASSUME engine' = engine, reqs' = reqs, NEW x, prod' = [prod EXCEPT ![p] = x],
             Standing(p)', FleetMemory(p)', OnItsChain(p)'
      PROVE  SteadyInv' /\ prod'[p] = x
  <2>1. prod'[p] = x /\ \A n \in Nodes \ {p} : prod'[n] = prod[n] /\ engine'[n] = engine[n]
    BY Zenon, <1>0, <1>2
  <2> QED BY Zenon, <1>1, <1>2, <2>1, SteadyRound
<1>3. CASE PollVotes(p)
  <2>1. \E G : prod' = [prod EXCEPT ![p] = [prod[p] EXCEPT !.got = G]]
    BY Zenon, <1>3 DEF PollVotes
  <2>2. \A n \in Nodes : /\ prod'[n].at = prod[n].at /\ prod'[n].blk = prod[n].blk
                         /\ prod'[n].sigs = prod[n].sigs
    BY SMTT(30), <1>0, <2>1 DEF Round
  <2>3. /\ chain' = chain /\ bal' = bal /\ engine' = engine /\ pushes' = pushes
        /\ reqs' \subseteq reqs
    BY Zenon, <1>3 DEF PollVotes, KeepChain
  <2>4. \A m \in Nodes : Leads(chain[p], chain[m])
    BY Zenon, <1>0 DEF OnItsChain
  <2>5. SteadyInv'
    BY Zenon, <1>1, <2>2, <2>3, <2>4, SteadyLeft
  <2> QED BY Zenon, <1>3, <2>5 DEF PollVotes
<1>4. CASE CloseRound(p)
  <2> DEFINE V == prod[p].got
             e == OnVotes(engine[p], V, b)
             met == V # {} /\ e[b.height].cand.id = b.id /\ ThresholdMet(e[b.height])
             x == IF met THEN [prod[p] EXCEPT !.at = "certified"] ELSE Idle
  <2>1. /\ prod[p].at = "collect" /\ HandleVotes(p, engine[p], V, b)
        /\ prod' = [prod EXCEPT ![p] = x]
        /\ chain' = chain /\ pushes' = pushes /\ reqs' = reqs
    BY Zenon, <1>4 DEF CloseRound
  <2>2. b \in Block /\ b.height \in 1..MaxHeight /\ V \subseteq Nodes
    BY Zenon, <1>0, <2>1 DEF Round, Proposed
  <2>3. Len(Fleet) < 2
    BY SMTT(30), <1>0, <2>1 DEF FleetMemory
  <2>4. \A v \in Nodes : engine[p][b.height].voted[v] \in {0, b.id}
    BY Zenon, <2>1, <2>3 DEF VoteMemory
  <2>5. x.at = "idle" \/ (met /\ x.at = "certified" /\ x.blk = b)
    BY Zenon, <1>0, IdleTyped DEF Round
  <2> HIDE DEF b, V
  <2>6. Equivocators(engine[p], V, b) = {}
    BY Zenon, <2>2, <2>4 DEF Equivocators
  <2>7. bal' = bal /\ engine' = [engine EXCEPT ![p] = e]
    BY SMTT(30), <1>0, <2>1, <2>6, NoPenalty
  <2>8. /\ e \in Slots /\ \A h \in 1..MaxHeight : e[h].stage \subseteq e[h].votes
    <3>1. \A h \in 1..MaxHeight : engine[p][h].stage \subseteq engine[p][h].votes
      BY Zenon, <1>0 DEF Standing
    <3>2. e \in Slots
      BY Zenon, <1>0, <2>2, OnVotesTyped
    <3>3. \A h \in 1..MaxHeight : e[h].stage \subseteq e[h].votes
      BY Zenon, <1>0, <2>2, <3>1, TalliesKept
    <3> QED BY Zenon, <3>2, <3>3
  <2>9. met => FinalityStatus(e, b)
    <3> HIDE DEF e
    <3> SUFFICES ASSUME e[b.height].cand.id = b.id, ThresholdMet(e[b.height])
                 PROVE  FinalityStatus(e, b)
      BY Zenon
    <3>1. e[b.height].stage \subseteq e[b.height].votes /\ e[b.height].votes \subseteq Nodes
      BY Zenon, <2>2, <2>8 DEF Slots, Slot
    <3>2. /\ Cardinality(e[b.height].votes) \in Nat /\ Cardinality(e[b.height].stage) \in Nat
          /\ Cardinality(e[b.height].stage) <= Cardinality(e[b.height].votes)
      BY SMTT(30), <3>1, NodesFinite, FS_Subset
    <3>3. Cardinality(e[b.height].stage) >= requiredForFinality
      BY Zenon DEF ThresholdMet
    <3>4. requiredForFinality \in Nat
      BY SMTT(30), NAssumption DEF requiredForFinality
    <3> QED BY SMTT(30), <3>2, <3>3, <3>4 DEF FinalityStatus
  <2> HIDE DEF e, met
  <2>10. prod'[p] = x /\ engine'[p] = e
         /\ \A n \in Nodes \ {p} : prod'[n] = prod[n] /\ engine'[n] = engine[n]
    BY Zenon, <1>0, <2>1, <2>7
  <2>11. Extends(p, b) /\ b.root = bal[p] /\ b.id # TipId(chain[p])
    BY Zenon, <1>0, <2>1 DEF Standing, b
  <2> HIDE DEF x
  <2>12. Standing(p)'
    BY Zenon, <1>1, <2>1, <2>5, <2>7, <2>8, <2>9, <2>10, <2>11
       DEF Standing, Extends, Height, MaxHeight, FinalityStatus
  <2>13. FleetMemory(p)' /\ OnItsChain(p)'
    BY Zenon, <1>0, <1>1, <2>1, <2>3 DEF FleetMemory, OnItsChain, Fleet, Height
  <2>14. SteadyInv'
    BY Zenon, <1>1, <2>1, <2>10, <2>12, <2>13, SteadyRound
  <2> QED BY Zenon, <2>1, <2>14
<1>5. CASE Seal(p)
  <2> DEFINE x == [prod[p] EXCEPT !.at = "sealed", !.sigs = engine[p][b.height].votes]
  <2>1. /\ prod[p].at = "certified" /\ chain' = chain /\ bal' = bal /\ engine' = engine
        /\ reqs' = reqs /\ pushes' = pushes
    BY Zenon, <1>5 DEF Seal, KeepChain
  <2>2. /\ Extends(p, b) /\ b.root = bal[p] /\ b.id # TipId(chain[p])
        /\ FinalityStatus(engine[p], b)
        /\ \A h \in 1..MaxHeight : engine[p][h].stage \subseteq engine[p][h].votes
    BY Zenon, <1>0, <2>1 DEF Standing
  <2>3. prod' = [prod EXCEPT ![p] = x]
    BY Zenon, <1>5, <2>2 DEF Seal
  <2>4. x.at = "sealed" /\ x.blk = b /\ x.sigs = engine[p][b.height].votes
    BY Zenon, <1>0 DEF Round
  <2>5. Authorized(x.sigs)
    BY Zenon, <2>2, <2>4 DEF FinalityStatus, Authorized
  <2> HIDE DEF x, b
  <2>6. prod'[p] = x
    BY Zenon, <1>0, <2>3
  <2>7. Standing(p)'
    BY Zenon, <1>1, <2>1, <2>2, <2>4, <2>5, <2>6
       DEF Standing, Extends, Height, MaxHeight, Authorized
  <2>8. Len(Fleet) < 2
    BY SMTT(30), <1>0, <2>1 DEF FleetMemory
  <2>9. FleetMemory(p)' /\ OnItsChain(p)'
    BY Zenon, <1>0, <1>1, <2>1, <2>8 DEF FleetMemory, OnItsChain, Fleet, Height
  <2> QED BY Zenon, <1>2, <2>1, <2>3, <2>4, <2>6, <2>7, <2>9
<1>6. CASE FinalizeBlock(p)
  <2> DEFINE c == [blk |-> b, sigs |-> prod[p].sigs]
             x == [prod[p] EXCEPT !.at = "finalized"]
  <2>1. /\ prod[p].at = "sealed" /\ bal' = bal /\ engine' = engine
        /\ reqs' = reqs /\ pushes' = pushes
    BY Zenon, <1>6 DEF FinalizeBlock
  <2>2. /\ Extends(p, b) /\ b.root = bal[p] /\ Authorized(prod[p].sigs)
        /\ \A h \in 1..MaxHeight : engine[p][h].stage \subseteq engine[p][h].votes
    BY Zenon, <1>0, <2>1 DEF Standing
  <2>3. ValidBlock(p, c)
    BY Zenon, <2>2 DEF ValidBlock
  <2>4. chain' = [chain EXCEPT ![p] = Append(chain[p], c)] /\ prod' = [prod EXCEPT ![p] = x]
    BY Zenon, <1>6, <2>3 DEF FinalizeBlock
  <2>5. x.at = "finalized" /\ x.blk = b /\ x.sigs = prod[p].sigs
    BY Zenon, <1>0 DEF Round
  <2>6. c \in Entry /\ b.height = Height(p) + 1
    BY Zenon, <1>0, <2>2 DEF Round, Entry, Extends
  <2>7. c = [blk |-> x.blk, sigs |-> x.sigs]
    BY Zenon, <2>5
  <2> HIDE DEF c, x
  <2>8. /\ Height(p)' = Height(p) + 1 /\ chain'[p][Height(p) + 1] = c
        /\ \A i \in 1..Height(p) : chain'[p][i] = chain[p][i]
        /\ \A m \in Nodes \ {p} : chain'[m] = chain[m]
    <3>1. chain'[p] = Append(chain[p], c) /\ \A m \in Nodes \ {p} : chain'[m] = chain[m]
      BY Zenon, <1>0, <2>4
    <3>2. /\ Len(Append(chain[p], c)) = Len(chain[p]) + 1
          /\ Append(chain[p], c)[Len(chain[p]) + 1] = c
          /\ \A i \in 1..Len(chain[p]) : Append(chain[p], c)[i] = chain[p][i]
      BY SMTT(30), <1>0, <2>6
    <3> QED BY Zenon, <1>0, <3>1, <3>2 DEF Height
  <2>9. prod'[p] = x
    BY Zenon, <1>0, <2>4
  <2>10. Standing(p)'
    <3>1. prod'[p].at = "finalized" /\ prod'[p].blk.height = Height(p)'
          /\ chain'[p][Height(p)'] = [blk |-> prod'[p].blk, sigs |-> prod'[p].sigs]
      BY Zenon, <2>5, <2>6, <2>7, <2>8, <2>9
    <3>2. \A h \in 1..MaxHeight' : engine'[p][h].stage \subseteq engine'[p][h].votes
      BY Zenon, <1>1, <2>1, <2>2 DEF MaxHeight
    <3> QED BY Zenon, <3>1, <3>2 DEF Standing
  <2>11. FleetMemory(p)'
    <3>1. Height(p)' + 0 = Height(p) + 1
      BY SMTT(30), <1>0, <2>8
    <3> QED BY Zenon, <1>0, <1>1, <2>1, <2>5, <2>9, <3>1 DEF FleetMemory, Fleet, MaxHeight
  <2>12. OnItsChain(p)'
    <3>1. \A m \in Nodes : Leads(chain'[p], chain'[m])
      <4> SUFFICES ASSUME NEW m \in Nodes PROVE Leads(chain'[p], chain'[m])
        BY Zenon
      <4>1. CASE m = p
        <5>1. Len(chain'[p]) \in Nat
          BY SMTT(30), <1>0, <2>8 DEF Height
        <5> QED BY SMTT(30), <4>1, <5>1 DEF Leads
      <4>2. CASE m # p
        <5>1. /\ Len(chain[m]) \in Nat /\ Len(chain[m]) <= Height(p)
              /\ \A i \in 1..Len(chain[m]) : chain[m][i] = chain[p][i]
          BY SMTT(30), <1>0 DEF OnItsChain, Leads
        <5>2. \A i \in 1..Len(chain[m]) : i \in 1..Height(p)
          BY SMTT(30), <1>0, <5>1
        <5> QED BY SMTT(30), <1>0, <2>8, <4>2, <5>1, <5>2 DEF Leads, Height
      <4> QED BY Zenon, <4>1, <4>2
    <3>2. \A q \in pushes : /\ q.blk.height \in 1..Height(p) + 1
                            /\ chain'[p][q.blk.height] = [blk |-> q.blk, sigs |-> q.sigs]
      <4> SUFFICES ASSUME NEW q \in pushes
                   PROVE  /\ q.blk.height \in 1..Height(p) + 1
                          /\ chain'[p][q.blk.height] = [blk |-> q.blk, sigs |-> q.sigs]
        BY Zenon
      <4>1. /\ q.blk.height \in 1..Height(p)
            /\ chain[p][q.blk.height] = [blk |-> q.blk, sigs |-> q.sigs]
        BY Zenon, <1>0 DEF OnItsChain
      <4>2. chain'[p][q.blk.height] = chain[p][q.blk.height]
        BY Zenon, <2>8, <4>1
      <4> HIDE DEF b
      <4> QED BY SMTT(30), <1>0, <4>1, <4>2
    <3> QED BY Zenon, <2>1, <2>8, <3>1, <3>2 DEF OnItsChain
  <2> QED BY Zenon, <1>2, <2>1, <2>4, <2>5, <2>10, <2>11, <2>12
<1>7. CASE SaveFinalized(p)
  <2> DEFINE x == [prod[p] EXCEPT !.at = "saved"]
  <2>1. /\ prod[p].at = "finalized" /\ chain' = chain /\ bal' = bal /\ engine' = engine
        /\ reqs' = reqs /\ pushes' = pushes /\ prod' = [prod EXCEPT ![p] = x]
    BY Zenon, <1>7 DEF SaveFinalized
  <2>2. x.at = "saved" /\ x.blk = b /\ x.sigs = prod[p].sigs
    BY Zenon, <1>0 DEF Round
  <2> HIDE DEF x
  <2>3. prod'[p] = x
    BY Zenon, <1>0, <2>1
  <2>4. Standing(p)'
    BY Zenon, <1>0, <1>1, <2>1, <2>2, <2>3 DEF Standing, Height, MaxHeight
  <2>5. FleetMemory(p)' /\ OnItsChain(p)'
    BY Zenon, <1>0, <1>1, <2>1, <2>2, <2>3 DEF FleetMemory, OnItsChain, Fleet, Height, MaxHeight
  <2> QED BY Zenon, <1>2, <2>1, <2>4, <2>5
<1>8. CASE Push(p)
  <2>1. /\ prod[p].at = "saved" /\ chain' = chain /\ bal' = bal /\ engine' = engine
        /\ reqs' = reqs /\ prod' = [prod EXCEPT ![p] = Idle]
        /\ \A q \in pushes' : q \in pushes \/ (q.blk = b /\ q.sigs = prod[p].sigs)
    BY SMTT(30), <1>8 DEF Push, KeepChain
  <2>2. prod'[p] = Idle /\ Idle.at = "idle"
    BY Zenon, <1>0, <2>1, IdleTyped
  <2>3. Standing(p)'
    BY Zenon, <1>0, <1>1, <2>1, <2>2 DEF Standing, MaxHeight
  <2>4. FleetMemory(p)'
    BY Zenon, <1>0, <1>1, <2>1, <2>2 DEF FleetMemory, Fleet, Height, MaxHeight
  <2>5. OnItsChain(p)'
    <3>1. b.height = Height(p) /\ b.height \in 1..MaxHeight
          /\ chain[p][b.height] = [blk |-> b, sigs |-> prod[p].sigs]
      BY Zenon, <1>0, <2>1 DEF Standing, Proposed
    <3>2. \A q \in pushes' : /\ q.blk.height \in 1..Height(p)
                             /\ chain[p][q.blk.height] = [blk |-> q.blk, sigs |-> q.sigs]
      <4> SUFFICES ASSUME NEW q \in pushes'
                   PROVE  /\ q.blk.height \in 1..Height(p)
                          /\ chain[p][q.blk.height] = [blk |-> q.blk, sigs |-> q.sigs]
        BY Zenon
      <4>1. CASE q \in pushes
        BY Zenon, <1>0, <4>1 DEF OnItsChain
      <4>2. CASE q.blk = b /\ q.sigs = prod[p].sigs
        <5>1. b.height \in 1..Height(p)
          BY SMTT(30), <1>0, <3>1
        <5> QED BY Zenon, <3>1, <4>2, <5>1
      <4> QED BY Zenon, <2>1, <4>1, <4>2
    <3> QED BY Zenon, <1>0, <2>1, <3>2 DEF OnItsChain, Height
  <2> QED BY Zenon, <1>2, <2>1, <2>3, <2>4, <2>5
<1> QED BY Zenon, <1>3, <1>4, <1>5, <1>6, <1>7, <1>8

-----------------------------------------------------------------------------
\* The steps of a steady deployment: those of the producer's round, and those
\* of the others.
LEMMA SteadySteps ==
    ASSUME Typed, SteadyInv, Steady(dep), NEW p \in Nodes, Producers = {p}, [Next]_vars
    PROVE  \/ Propose(p) \/ FleetSign(p)
           \/ PollVotes(p) \/ CloseRound(p) \/ Seal(p) \/ FinalizeBlock(p)
           \/ SaveFinalized(p) \/ Push(p)
           \/ Followed(p)
<1>1. /\ \A n \in Nodes \ {p} : prod[n].at = "idle"
      /\ ~ \E n \in Nodes : Crash(n)
  <2>1. crashes = 0 /\ MaxCrashes = 0
    BY Zenon DEF SteadyInv, Steady, MaxCrashes
  <2> QED BY SMTT(30), <2>1 DEF SteadyInv, OthersFollow, Crash
<1>2. \A n \in Nodes :
        (\/ Propose(n) \/ FleetSign(n) \/ PollVotes(n) \/ CloseRound(n) \/ Seal(n)
         \/ FinalizeBlock(n) \/ SaveFinalized(n) \/ Push(n)) => n = p
  <2> SUFFICES ASSUME NEW n \in Nodes,
                      \/ Propose(n) \/ FleetSign(n) \/ PollVotes(n) \/ CloseRound(n)
                      \/ Seal(n) \/ FinalizeBlock(n) \/ SaveFinalized(n) \/ Push(n)
               PROVE  n = p
    BY Zenon
  <2>1. CASE Propose(n) \/ FleetSign(n)
    BY Zenon, <2>1 DEF Propose, FleetSign, Tick
  <2>2. CASE PollVotes(n) \/ CloseRound(n) \/ Seal(n)
    BY Zenon, <1>1, <2>2 DEF PollVotes, CloseRound, Seal
  <2>3. CASE FinalizeBlock(n) \/ SaveFinalized(n) \/ Push(n)
    BY SMTT(30), <1>1, <2>3 DEF FinalizeBlock, SaveFinalized, Push
  <2> QED BY Zenon, <2>1, <2>2, <2>3
<1>3. \/ \E n \in Nodes : \/ Propose(n) \/ FleetSign(n) \/ PollVotes(n) \/ CloseRound(n)
                          \/ Seal(n) \/ FinalizeBlock(n) \/ SaveFinalized(n) \/ Push(n)
      \/ \E n \in Nodes : Fetch(n) \/ \E m \in Nodes : CatchUpOnce(n, m)
      \/ \E r \in reqs : \/ CheckHeight(r) \/ ValidateProposal(r) \/ RefuseVote(r)
                         \/ CastVote(r) \/ SilentVote(r) \/ LoseRequest(r)
      \/ \E v \in mail : LoseVote(v)
      \/ \E q \in pushes : DeliverPush(q) \/ LosePush(q)
      \/ UNCHANGED vars
  BY Zenon, <1>1 DEF Next, PollProposals, fetchMailboxMessages, Bounded
<1>4. CASE \E n \in Nodes :
               \/ Propose(n) \/ FleetSign(n) \/ PollVotes(n) \/ CloseRound(n) \/ Seal(n)
               \/ FinalizeBlock(n) \/ SaveFinalized(n) \/ Push(n)
  BY Zenon, <1>2, <1>4
<1>5. CASE \/ \E n \in Nodes : Fetch(n) \/ \E m \in Nodes : CatchUpOnce(n, m)
           \/ \E r \in reqs : \/ CheckHeight(r) \/ ValidateProposal(r) \/ RefuseVote(r)
                              \/ CastVote(r) \/ SilentVote(r) \/ LoseRequest(r)
           \/ \E v \in mail : LoseVote(v)
           \/ \E q \in pushes : DeliverPush(q) \/ LosePush(q)
           \/ UNCHANGED vars
  <2>1. Followed(p)
    BY Zenon, <1>5, SteadyOthers
  <2> QED BY Zenon, <2>1
<1> QED BY Zenon, <1>3, <1>4, <1>5

\* A steady deployment stays one, with the producer ahead of everybody.
LEMMA SteadyNext == Typed /\ VoteMemory /\ SteadyInv /\ [Next]_vars => SteadyInv'
<1> SUFFICES ASSUME Typed, VoteMemory, SteadyInv, [Next]_vars, Steady(dep')
             PROVE  SteadyInv'
  BY Zenon DEF SteadyInv
<1>1. dep' = dep
  BY ZenonT(40), StepCases, QuietSteps DEF Propose, FleetSign, CloseRound, Crash, CastVote, UnchangedFaults
<1>2. Steady(dep)
  BY Zenon, <1>1
<1>3. PICK p \in Nodes : Producers = {p}
  BY Zenon, <1>2, OneProducer
<1> QED BY Zenon, <1>2, <1>3, SteadySteps, SteadyProposal, SteadyFleet, SteadyRounds DEF Followed

\* The one producer that does not crash is never behind, never sees its
\* candidate contradicted, and holds every block anybody holds.
THEOREM SteadyInvariant == Spec => []SteadyInv
<1>1. Init => SteadyInv
  <2> SUFFICES ASSUME Init, NEW p \in Producers, Steady(dep)
               PROVE  crashes = 0 /\ Standing(p) /\ FleetMemory(p) /\ OthersFollow(p)
                      /\ OnItsChain(p)
    BY Zenon DEF SteadyInv, Init, Steady
  <2>1. p \in Nodes
    BY Zenon, DeploymentTyped DEF Init
  <2>2. /\ crashes = 0 /\ reqs = {} /\ pushes = {}
        /\ \A n \in Nodes : chain[n] = <<>> /\ prod[n].at = "idle"
        /\ \A n \in Nodes : \A h \in 1..MaxHeight :
              /\ engine[n][h].stage = {} /\ engine[n][h].flagged = {}
              /\ \A v \in Nodes : engine[n][h].voted[v] = 0
    BY Zenon, IdleTyped DEF Init, NewEngine, NewSlot
  <2>3. \A n \in Nodes : Leads(chain[p], chain[n])
    BY SMTT(30), <2>1, <2>2 DEF Leads
  <2> QED BY Zenon, <2>1, <2>2, <2>3 DEF Standing, FleetMemory, OthersFollow, OnItsChain
<1>2. Typed /\ VoteMemory /\ SteadyInv /\ [Next]_vars => SteadyInv'
  BY Zenon, SteadyNext
<1>3. RosterTyped => Typed /\ VoteMemory
  BY Zenon DEF RosterTyped
<1> QED BY <1>1, <1>2, <1>3, RosterTypeCorrect, PTL DEF Spec

\* Nobody that votes for every candidate it is asked about is flagged by
\* RecordEquivocation, at any number of validators and retries.
THEOREM NobodyFlagged == Spec => []NoFalseEquivocation
<1>1. RosterTyped /\ SteadyInv => NoFalseEquivocation
  <2> SUFFICES ASSUME RosterTyped, SteadyInv, Len(Fleet) < 2 \/ Steady(dep),
                      NEW n \in Nodes, NEW h \in 1..MaxHeight
               PROVE  engine[n][h].flagged = {}
    BY Zenon DEF NoFalseEquivocation
  <2>1. CASE Len(Fleet) < 2
    BY Zenon, <2>1 DEF RosterTyped, VoteMemory
  <2>2. CASE Len(Fleet) >= 2 /\ Steady(dep)
    <3>1. PICK p \in Nodes : Producers = {p}
      BY Zenon, <2>2, OneProducer DEF RosterTyped
    <3> QED BY Zenon, <2>2, <3>1 DEF SteadyInv, FleetMemory, OthersFollow
  <2>3. Len(Fleet) \in Nat
    BY SMTT(30), DeploymentTyped DEF RosterTyped, Typed
  <2> QED BY SMTT(30), <2>1, <2>2, <2>3
<1> QED BY <1>1, RosterTypeCorrect, SteadyInvariant, PTL

\* In a steady deployment a quorum that collectConsensusVotes reports always
\* finalizes its block: TryFinalize never drops it.
THEOREM QuorumsFinalize ==
    ASSUME \A d \in Deployments : Steady(d)
    PROVE  Spec => NoWastedQuorum
<1>1. RosterTyped /\ SteadyInv /\ [Next]_vars =>
         [\A n \in Nodes :
             prod[n].at \in {"certified", "sealed"} /\ crashes' = crashes =>
                 prod'[n].at # "idle"]_vars
  <2> SUFFICES ASSUME RosterTyped, SteadyInv, [Next]_vars, NEW n \in Nodes,
                      prod[n].at \in {"certified", "sealed"}
               PROVE  prod'[n].at # "idle"
    BY Zenon
  <2>0. Typed /\ VoteMemory /\ Steady(dep)
    BY Zenon DEF RosterTyped, Typed
  <2>1. PICK p \in Nodes : Producers = {p}
    BY Zenon, <2>0, OneProducer
  <2>2. n = p
    BY Zenon, <2>0, <2>1 DEF SteadyInv, OthersFollow
  <2>3. ~ Propose(p) /\ ~ FleetSign(p)
    BY Zenon, <2>2 DEF Propose, FleetSign, Tick
  <2>4. CASE Followed(p)
    BY Zenon, <2>4 DEF Followed
  <2> QED BY Zenon, <2>0, <2>1, <2>2, <2>3, <2>4, SteadySteps, SteadyRounds
<1> QED BY <1>1, RosterTypeCorrect, SteadyInvariant, PTL DEF Spec, NoWastedQuorum

-----------------------------------------------------------------------------
\* A chain another leads is a prefix of it.
LEMMA LeadsIsBegins ==
    ASSUME NEW c \in Seq(Entry), NEW d \in Seq(Entry), Leads(c, d)
    PROVE  Log!Begins(d, c)
<1>1. Len(d) \in Nat /\ Len(c) \in Nat /\ Len(d) <= Len(c)
  BY SMTT(30) DEF Leads
<1>2. SubSeq(c, 1, Len(d)) \in Seq(Entry) /\ Len(SubSeq(c, 1, Len(d))) = Len(d)
  BY SMTT(30), <1>1
<1>3. \A i \in 1..Len(d) : SubSeq(c, 1, Len(d))[i] = d[i]
  BY SMTT(30), <1>1 DEF Leads
<1>4. SubSeq(c, 1, Len(d)) = d
  <2> DEFINE s == SubSeq(c, 1, Len(d))
  <2>1. s = [i \in 1..Len(d) |-> s[i]] /\ d = [i \in 1..Len(d) |-> d[i]]
    BY SMTT(30), <1>1, <1>2
  <2> HIDE DEF s
  <2>2. [i \in 1..Len(d) |-> s[i]] = [i \in 1..Len(d) |-> d[i]]
    BY Zenon, <1>3 DEF s
  <2> QED BY Zenon, <2>1, <2>2 DEF s
<1> QED BY Zenon, <1>1, <1>4 DEF Log!Begins

\* The quorum of the roster is two thirds of it.
LEMMA QuorumSize ==
    ASSUME NEW S \in SUBSET Nodes, Authorized(S)
    PROVE  Log!IsQuorum(S)
<1>1. Cardinality(S) \in Nat /\ Cardinality(Nodes) = N
  BY SMTT(30), NodesFinite
<1>2. 3 * requiredForFinality >= 2 * N /\ requiredForFinality \in Nat
  BY SMTT(30), NAssumption DEF requiredForFinality
<1>3. 3 * Cardinality(S) >= 2 * N
  BY SMTT(30), <1>1, <1>2, NAssumption DEF Authorized
<1>4. \A T : Log!Cardinality(T) = Cardinality(T)
  BY Zenon DEF Log!Cardinality, Cardinality
<1> QED BY Zenon, <1>1, <1>3, <1>4 DEF Log!IsQuorum

\* A roster with one producer that does not crash implements a replicated
\* log, whatever is lost, delayed, retried or pushed twice.
THEOREM RosterImplementsLog ==
    ASSUME \A d \in Deployments : Steady(d)
    PROVE  Spec => ImplementsLog
<1> DEFINE P == CHOOSE n \in Nodes : n \in Producers
           log == chain[P]
<1>1. Init => Log!LogInit
  <2> SUFFICES ASSUME Init PROVE Log!LogInit
    BY Zenon
  <2>1. Typed /\ Steady(dep)
    BY Zenon, TypedInit DEF Typed
  <2>2. PICK p \in Nodes : Producers = {p}
    BY Zenon, <2>1, OneProducer
  <2>3. P = p
    BY Zenon, <2>2
  <2> QED BY Zenon, <2>3 DEF Init, Log!LogInit
<1>2. RosterTyped /\ SteadyInv /\ SteadyInv' /\ [Next]_vars => [Log!LogNext]_(Log!logVars)
  <2> SUFFICES ASSUME RosterTyped, SteadyInv, SteadyInv', [Next]_vars
               PROVE  Log!LogNext \/ (chain' = chain /\ log' = log)
    BY Zenon DEF Log!logVars
  <2>0. /\ Typed /\ Typed' /\ VoteMemory /\ Steady(dep)
        /\ chain \in [Nodes -> Seq(Entry)] /\ chain' \in [Nodes -> Seq(Entry)]
    BY Zenon, TypedNext DEF RosterTyped, Typed, ChainsTyped
  <2>1. PICK p \in Nodes : Producers = {p}
    BY Zenon, <2>0, OneProducer
  <2>2. dep' = dep
    BY ZenonT(40), <2>0, StepCases, QuietSteps
       DEF Propose, FleetSign, CloseRound, Crash, CastVote, UnchangedFaults
  <2>3. P = p /\ P' = p
    BY Zenon, <2>1, <2>2 DEF Producers
  <2>4. log = chain[p] /\ log' = chain'[p]
    BY Zenon, <2>3
  <2> HIDE DEF P
  <2>5. /\ \A n \in Nodes : Leads(chain[p], chain[n])
        /\ \A n \in Nodes : Leads(chain'[p], chain'[n])
    <3>1. Steady(dep') /\ p \in Producers'
      BY Zenon, <2>0, <2>1, <2>2 DEF Producers
    <3> QED BY Zenon, <2>0, <2>1, <3>1 DEF SteadyInv, OnItsChain
  <2>6. CASE chain' = chain
    BY Zenon, <2>4, <2>6
  <2>7. CASE FinalizeBlock(p)
    <3> DEFINE b == prod[p].blk
               c == [blk |-> b, sigs |-> prod[p].sigs]
    <3>1. CASE chain' = chain
      BY Zenon, <2>6, <3>1
    <3>2. CASE chain' # chain
      <4>1. ValidBlock(p, c) /\ chain' = [chain EXCEPT ![p] = Append(chain[p], c)]
        BY Zenon, <2>7, <3>2 DEF FinalizeBlock
      <4>2. c \in Entry /\ c.blk = b /\ c.sigs \in SUBSET Nodes
        BY Zenon, <2>0 DEF Typed, RoundsTyped, Round, Entry
      <4>3. /\ b.height = Len(chain[p]) + 1 /\ b.parent = TipId(chain[p])
            /\ Authorized(c.sigs)
        BY Zenon, <4>1, <4>2 DEF ValidBlock, Extends, Height
      <4> HIDE DEF c, b
      <4>4. /\ chain'[p] = Append(chain[p], c) /\ Len(chain[p]) \in Nat
            /\ Len(chain'[p]) = Len(chain[p]) + 1 /\ chain'[p][Len(chain'[p])] = c
            /\ \A i \in 1..Len(chain[p]) : chain'[p][i] = chain[p][i]
        <5>1. chain'[p] = Append(chain[p], c) /\ chain[p] \in Seq(Entry)
          BY Zenon, <2>0, <4>1
        <5> QED BY SMTT(30), <4>2, <5>1
      <4>5. Log!Begins(chain[p], chain'[p])
        <5>1. Leads(chain'[p], chain[p])
          BY SMTT(30), <4>4 DEF Leads
        <5> QED BY Zenon, <2>0, <5>1, LeadsIsBegins
      <4>6. Log!IsQuorum(c.sigs)
        BY Zenon, <4>2, <4>3, QuorumSize
      <4>7. chain[p] # <<>> => c.blk.parent = chain[p][Len(chain[p])].blk.id
        BY Zenon, <4>2, <4>3 DEF TipId
      <4>8. chain' = [chain EXCEPT ![p] = chain'[p]]
        BY Zenon, <2>0, <4>1, <4>4
      <4>9. Log!Finalize(p)
        BY Zenon, <2>4, <4>2, <4>3, <4>4, <4>5, <4>6, <4>7, <4>8 DEF Log!Finalize, P
      <4> QED BY Zenon, <4>9 DEF Log!LogNext
    <3> QED BY Zenon, <3>1, <3>2
  <2>8. ASSUME NEW n \in Nodes \ {p}, NEW c \in Seq(Entry),
               chain' = [chain EXCEPT ![n] = c], Len(c) > Len(chain[n])
        PROVE  Log!LogNext
    <3>1. chain'[p] = chain[p] /\ chain'[n] = c /\ Leads(chain[p], c)
      BY Zenon, <2>0, <2>5, <2>8
    <3>2. Leads(c, chain[n])
      <4>1. Leads(chain[p], chain[n])
        BY Zenon, <2>5
      <4>2. Len(c) \in Nat /\ Len(chain[n]) \in Nat
        BY SMTT(30), <2>0
      <4> QED BY SMTT(30), <2>8, <3>1, <4>1, <4>2 DEF Leads
    <3>3. Log!Begins(chain[n], c) /\ Log!Begins(c, chain[p])
      BY Zenon, <2>0, <3>1, <3>2, LeadsIsBegins
    <3>4. c # chain[n]
      BY SMTT(30), <2>0, <2>8
    <3>5. chain' = [chain EXCEPT ![n] = chain'[n]]
      BY Zenon, <2>8, <3>1
    <3>6. Log!Learn(n)
      BY Zenon, <2>4, <3>1, <3>3, <3>4, <3>5 DEF Log!Learn, P
    <3> QED BY Zenon, <3>6 DEF Log!LogNext
  <2>9. CASE \/ Propose(p) \/ FleetSign(p) \/ PollVotes(p) \/ CloseRound(p) \/ Seal(p)
             \/ SaveFinalized(p) \/ Push(p)
    BY Zenon, <2>6, <2>9 DEF Propose, FleetSign, PollVotes, CloseRound, Seal, SaveFinalized, Push,
       KeepChain
  <2>10. CASE Followed(p)
    BY Zenon, <2>6, <2>8, <2>10 DEF Followed
  <2> QED BY Zenon, <2>0, <2>1, <2>7, <2>9, <2>10, SteadySteps
<1> QED BY <1>1, <1>2, RosterTypeCorrect, SteadyInvariant, PTL
        DEF Spec, ImplementsLog, Log!LogSpec

=============================================================================
