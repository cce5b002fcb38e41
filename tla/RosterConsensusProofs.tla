----------------------- MODULE RosterConsensusProofs -----------------------
(***************************************************************************)
(* What the roster guarantees for every number of validators, height,      *)
(* number of retries, crashes and lost messages: a hash names one block,   *)
(* a block is stored at its own height, the vote lock does what it is for, *)
(* and the chains of a roster with one producer fork at their tips only.   *)
(* The types of the variables come first, with what the operators the      *)
(* actions are built from return, and what the engines remember of the     *)
(* votes of a round.                                                       *)
(***************************************************************************)
EXTENDS RosterConsensus, TLAPS

Balances == [Nodes -> Nat]
Block == [id : Nat, height : Nat, parent : Nat, proposer : Nat, root : Balances]
Entry == [blk : Block, sigs : SUBSET Nodes]
Slot == [cand : Block, votes : SUBSET Nodes, stage : SUBSET Nodes,
         stale : SUBSET Nodes, voted : Balances, flagged : SUBSET Nodes]
Slots == [1..MaxHeight -> Slot]
Round == [at : {"idle", "collect", "certified", "sealed", "finalized", "saved"},
          blk : Block, got : SUBSET Nodes, sigs : SUBSET Nodes]
Request == [to : Nodes, blk : Block, at : {"mail", "sent", "checked", "valid"}]
Vote == [to : Nodes, from : Nodes, blk : Block]
Pushed == [to : Nodes, blk : Block, sigs : SUBSET Nodes]

\* A block some validator proposed within the bounds.
Proposed(b) == b.id > 0 /\ b.height \in 1..MaxHeight /\ b.proposer \in Nodes

\* The types of the variables.
ChainsTyped ==
    /\ chain \in [Nodes -> Seq(Entry)] /\ bal \in [Nodes -> Balances]
    /\ saved \in [Nodes -> [chain : Seq(Entry), bal : Balances]]
EnginesTyped == engine \in [Nodes -> Slots]
LocksTyped == lock \in [Nodes -> [height : Nat, proposer : Nat]]
RoundsTyped ==
    /\ prod \in [Nodes -> Round]
    /\ \A n \in Nodes : prod[n].at # "idle" => Proposed(prod[n].blk)
RequestsTyped == \A r \in reqs : r \in Request /\ Proposed(r.blk)
MailTyped == \A v \in mail : v \in Vote
PushesTyped == \A q \in pushes : q \in Pushed /\ Proposed(q.blk)
CountersTyped == crashes \in Nat /\ expiries \in Nat /\ lost \in Nat /\ timeouts \in Nat

Typed ==
    /\ dep \in Deployments /\ ChainsTyped /\ EnginesTyped /\ LocksTyped
    /\ RoundsTyped /\ RequestsTyped /\ MailTyped /\ PushesTyped /\ CountersTyped

\* A block is found at its own height, in memory and on disk.
AtItsHeight(c) == \A h \in 1..Len(c) : c[h].blk.height = h
Heights == \A n \in Nodes : AtItsHeight(chain[n]) /\ AtItsHeight(saved[n].chain)

\* A block names the block below it, in memory and on disk.
Linked(c) ==
    \A h \in 1..Len(c) : c[h].blk.parent = IF h = 1 THEN 0 ELSE c[h - 1].blk.id
Links == \A n \in Nodes : Linked(chain[n]) /\ Linked(saved[n].chain)

\* Something still mentions the block.
InChains(b) == \E n \in Nodes : \E i \in 1..Len(chain[n]) : b = chain[n][i].blk
InStores(b) ==
    \E n \in Nodes : \E i \in 1..Len(saved[n].chain) : b = saved[n].chain[i].blk
InEngines(b) == \E n \in Nodes : \E h \in 1..MaxHeight : b = engine[n][h].cand
InRounds(b) == \E n \in Nodes : b = prod[n].blk
InMessages(b) ==
    \/ \E r \in reqs : b = r.blk
    \/ \E q \in pushes : b = q.blk
    \/ \E v \in mail : b = v.blk
Mentioned(b) ==
    InChains(b) \/ InStores(b) \/ InEngines(b) \/ InRounds(b) \/ InMessages(b)

\* Two blocks never have the same hash, and no block has that of no block.
OneBlockPerHash ==
    \A b \in Block : Mentioned(b) =>
        /\ b.id = 0 => b = NoBlock
        /\ \A c \in Block : Mentioned(c) /\ b.id = c.id => b = c

-----------------------------------------------------------------------------
\* RecordOwnProposal and RecordReceivedProposal keep the engine's type and
\* touch one height.
LEMMA RecordProposalTyped ==
    ASSUME NEW e \in Slots, NEW b \in Block, b.height \in 1..MaxHeight
    PROVE  /\ RecordProposal(e, b) \in Slots
           /\ \A h \in 1..MaxHeight : h # b.height => RecordProposal(e, b)[h] = e[h]
           /\ RecordProposal(e, b)[b.height].cand = b
           /\ RecordProposal(e, b)[b.height].votes = {}
           /\ RecordProposal(e, b)[b.height].flagged = e[b.height].flagged
           /\ \A v \in Nodes : RecordProposal(e, b)[b.height].voted[v] = 0
           /\ b.id # e[b.height].cand.id =>
                 RecordProposal(e, b)[b.height].stage = {}
<1> DEFINE s == [cand |-> b, votes |-> {},
                 stage |-> IF b.id = e[b.height].cand.id THEN e[b.height].stage ELSE {},
                 stale |-> IF b.id = e[b.height].cand.id THEN e[b.height].stale
                           ELSE e[b.height].stale \cup e[b.height].stage,
                 voted |-> [v \in Nodes |-> 0], flagged |-> e[b.height].flagged]
<1>1. RecordProposal(e, b) = [e EXCEPT ![b.height] = s]
  BY Zenon DEF RecordProposal
<1>2. s \in Slot
  BY Zenon DEF Slots, Slot, Balances
<1> QED BY SMTT(30), <1>1, <1>2 DEF Slots

\* OnVote keeps the engine's type and touches one height.
LEMMA OnVotesTyped ==
    ASSUME NEW e \in Slots, NEW b \in Block, b.height \in 1..MaxHeight,
           NEW V, V \subseteq Nodes
    PROVE  /\ OnVotes(e, V, b) \in Slots
           /\ \A h \in 1..MaxHeight : h # b.height => OnVotes(e, V, b)[h] = e[h]
           /\ OnVotes(e, V, b)[b.height].cand = e[b.height].cand
           /\ e[b.height].cand.id = b.id =>
                 /\ OnVotes(e, V, b)[b.height].votes = e[b.height].votes \cup V
                 /\ OnVotes(e, V, b)[b.height].stage \subseteq e[b.height].stage \cup V
           /\ e[b.height].cand.id # b.id =>
                 /\ OnVotes(e, V, b)[b.height].votes = e[b.height].votes
                 /\ OnVotes(e, V, b)[b.height].stage = e[b.height].stage
           /\ \A v \in Nodes : OnVotes(e, V, b)[b.height].voted[v] =
                 IF v \in V /\ e[b.height].voted[v] = 0 THEN b.id
                 ELSE e[b.height].voted[v]
<1> DEFINE o == e[b.height]
           known == o.cand.id = b.id
           s == [cand |-> o.cand,
                 votes |-> IF known THEN o.votes \cup V ELSE o.votes,
                 stage |-> IF known THEN o.stage \cup (V \ o.stale) ELSE o.stage,
                 stale |-> o.stale,
                 voted |-> [v \in Nodes |-> IF v \in V /\ o.voted[v] = 0
                                            THEN b.id ELSE o.voted[v]],
                 flagged |-> o.flagged \cup Equivocators(e, V, b)]
<1>2. o \in Slot
  BY Zenon DEF Slots
<1>3. OnVotes(e, V, b) = [e EXCEPT ![b.height] = s]
  BY Zenon DEF OnVotes
<1>4. Equivocators(e, V, b) \subseteq Nodes
  BY Zenon DEF Equivocators
<1> HIDE DEF o
<1>5. s \in Slot
  BY Zenon, <1>2, <1>4 DEF Slot, Balances, Block
<1> HIDE DEF s
<1>6. OnVotes(e, V, b)[b.height] = s
  BY Zenon, <1>3 DEF Slots
<1>7. /\ OnVotes(e, V, b) \in Slots
      /\ \A h \in 1..MaxHeight : h # b.height => OnVotes(e, V, b)[h] = e[h]
  BY Zenon, <1>3, <1>5 DEF Slots
<1>8. /\ s.cand = o.cand
      /\ o.cand.id = b.id => s.votes = o.votes \cup V /\ s.stage \subseteq o.stage \cup V
      /\ o.cand.id # b.id => s.votes = o.votes /\ s.stage = o.stage
      /\ \A v \in Nodes : s.voted[v] = IF v \in V /\ o.voted[v] = 0 THEN b.id
                                        ELSE o.voted[v]
  BY Zenon DEF s
<1> QED BY Zenon, <1>6, <1>7, <1>8 DEF o

\* Votes that contradict no other flag nobody.
LEMMA NoneFlagged ==
    ASSUME NEW e \in Slots, NEW b \in Block, b.height \in 1..MaxHeight,
           NEW V, V \subseteq Nodes, Equivocators(e, V, b) = {}
    PROVE  \A h \in 1..MaxHeight : OnVotes(e, V, b)[h].flagged = e[h].flagged
<1> DEFINE o == OnVotes(e, V, b)
<1>1. \A h \in 1..MaxHeight : h # b.height => o[h] = e[h]
  BY SMTT(30), OnVotesTyped
<1>2. o[b.height].flagged = e[b.height].flagged \cup Equivocators(e, V, b)
  BY Zenon DEF OnVotes, Slots
<1> QED BY Zenon, <1>1, <1>2

-----------------------------------------------------------------------------
\* A deployment's fields.
LEMMA DeploymentTyped ==
    ASSUME dep \in Deployments
    PROVE  /\ Producers \in SUBSET Nodes /\ Rotation \in BOOLEAN
           /\ Fleet \in Seq(Nodes) /\ MaxHeight \in Nat /\ MaxId \in Nat
           /\ MaxCrashes \in Nat
<1> dep \in [producers : SUBSET Nodes, rotation : BOOLEAN, relay : SUBSET Nodes,
           silent : SUBSET Nodes, fleet : Seq(Nodes), height : Nat, crashes : Nat, expiries : Nat,
           lost : Nat, timeouts : Nat, ids : Nat]
  BY Zenon, RosterAssumption
<1> QED BY Zenon DEF Producers, Rotation, Fleet, MaxHeight, MaxId, MaxCrashes

\* Penalties keep balances natural numbers, and no penalty changes none.
LEMMA SlashTyped ==
    ASSUME NEW b \in Balances, NEW V, NEW v \in Nodes, NEW penalty \in Nat
    PROVE  /\ Slash(b, v, penalty) \in Balances
           /\ SlashAll(b, V, penalty) \in Balances
           /\ V = {} => SlashAll(b, V, penalty) = b
<1>1. \A w \in Nodes : Slash(b, w, penalty) \in Balances
  BY SMTT(30) DEF Slash, Balances
<1>2. SlashAll(b, V, penalty) \in Balances
  BY Zenon, <1>1 DEF SlashAll, Balances
<1>3. V = {} => SlashAll(b, V, penalty) = b
  BY Zenon DEF SlashAll, Balances
<1> QED BY Zenon, <1>1, <1>2, <1>3

\* The genesis balances and the block of an empty chain are typed.
LEMMA BaseTyped == BaseBal \in Balances /\ NoBlock \in Block
<1>1. Balance \in Nat
  BY Zenon, RosterAssumption
<1>2. BaseBal \in Balances
  BY Zenon, <1>1 DEF BaseBal, Balances
<1> QED BY Zenon, <1>2 DEF NoBlock, Block

\* The tip of a chain is its last block's hash.
LEMMA TipTyped ==
    ASSUME NEW c \in Seq(Entry)
    PROVE  /\ TipId(c) \in Nat
           /\ Len(c) \in Nat
           /\ c # <<>> => Len(c) > 0 /\ c[Len(c)] \in Entry
                          /\ TipId(c) = c[Len(c)].blk.id
<1>1. c # <<>> => Len(c) > 0 /\ c[Len(c)] \in Entry
  BY SMTT(30)
<1> QED BY SMTT(30), <1>1 DEF TipId, Entry, Block

\* A new candidate has a hash that nothing mentions.
LEMMA FreshIsNew ==
    ASSUME dep \in Deployments, FreshIds # {}
    PROVE  Fresh \in Nat /\ Fresh > 0 /\ Fresh \notin Used
<1>1. MaxId \in Nat
  BY Zenon, DeploymentTyped
<1>2. FreshIds \subseteq Nat /\ \A i \in FreshIds : i > 0 /\ i \notin Used
  BY SMTT(30), <1>1 DEF FreshIds
<1>3. Fresh \in FreshIds
  BY Zenon DEF Fresh
<1> QED BY Zenon, <1>2, <1>3

\* Nothing mentions its hash, so it is no block's.
LEMMA MentionedIsUsed ==
    ASSUME Typed, NEW b, Mentioned(b)
    PROVE  b.id \in Used
<1>1. b \in Blocks
  <2> DEFINE W(n) == {x.blk : x \in Range(chain[n]) \cup Range(saved[n].chain)}
  <2>0. ASSUME NEW n \in Nodes, b \in W(n) PROVE b \in Blocks
    <3>1. b \in UNION {W(m) : m \in Nodes}
      BY Zenon, <2>0
    <3> QED BY SMTT(30), <3>1 DEF Blocks
  <2>1. CASE \E n \in Nodes : \E i \in 1..Len(chain[n]) : b = chain[n][i].blk
    <3>0. PICK n \in Nodes : \E i \in 1..Len(chain[n]) : b = chain[n][i].blk
      BY Zenon, <2>1
    <3>1. PICK i \in 1..Len(chain[n]) : b = chain[n][i].blk
      BY Zenon, <3>0
    <3>2. chain[n][i] \in Range(chain[n])
      BY SMTT(30), <3>1 DEF Typed, ChainsTyped, Range
    <3>3. b \in W(n)
      BY Zenon, <3>1, <3>2
    <3> QED BY Zenon, <3>3, <2>0
  <2>2. CASE \E n \in Nodes : \E i \in 1..Len(saved[n].chain) : b = saved[n].chain[i].blk
    <3>0. PICK n \in Nodes : \E i \in 1..Len(saved[n].chain) : b = saved[n].chain[i].blk
      BY Zenon, <2>2
    <3>1. PICK i \in 1..Len(saved[n].chain) : b = saved[n].chain[i].blk
      BY Zenon, <3>0
    <3>2. saved[n].chain \in Seq(Entry)
      BY Zenon DEF Typed, ChainsTyped
    <3>3. saved[n].chain[i] \in Range(saved[n].chain)
      BY SMTT(30), <3>1, <3>2 DEF Range
    <3>4. b \in W(n)
      BY Zenon, <3>1, <3>3
    <3> QED BY Zenon, <3>4, <2>0
  <2>3. CASE \/ \E n \in Nodes : \E h \in 1..MaxHeight : b = engine[n][h].cand
             \/ \E n \in Nodes : b = prod[n].blk
    BY SMTT(30), <2>3 DEF Blocks
  <2>4. CASE \/ \E r \in reqs : b = r.blk
             \/ \E q \in pushes : b = q.blk
             \/ \E v \in mail : b = v.blk
    BY SMTT(30), <2>4 DEF Blocks
  <2> QED
    BY Zenon, <2>1, <2>2, <2>3, <2>4
       DEF Mentioned, InChains, InStores, InEngines, InRounds, InMessages
<1> QED BY SMTT(30), <1>1 DEF Used

\* BuildBlock makes a block that extends the tip, under a new hash.
LEMMA Built ==
    ASSUME Typed, NEW n \in Nodes, FreshIds # {}
    PROVE  /\ BuildBlock(n) \in Block
           /\ Extends(n, BuildBlock(n)) /\ BuildBlock(n).proposer = n
           /\ BuildBlock(n).root = bal[n] /\ BuildBlock(n).id = Fresh
           /\ Fresh # TipId(chain[n])
           /\ \A b : Mentioned(b) => b.id # Fresh
<1>1. Fresh \in Nat /\ Fresh > 0 /\ Fresh \notin Used
  BY Zenon, FreshIsNew DEF Typed
<1>2. chain[n] \in Seq(Entry) /\ bal[n] \in Balances /\ n \in Nat
  BY SMTT(30), NAssumption DEF Typed, ChainsTyped, Nodes
<1>3. TipId(chain[n]) \in Nat /\ Height(n) \in Nat
  BY Zenon, <1>2, TipTyped DEF Height
<1>4. BuildBlock(n) \in Block
  BY SMTT(30), <1>1, <1>2, <1>3 DEF BuildBlock, Block
<1>5. /\ Extends(n, BuildBlock(n)) /\ BuildBlock(n).proposer = n
      /\ BuildBlock(n).root = bal[n] /\ BuildBlock(n).id = Fresh
  BY Zenon DEF BuildBlock, Extends
<1>6. \A b : Mentioned(b) => b.id # Fresh
  BY Zenon, <1>1, MentionedIsUsed
<1>7. CASE chain[n] = <<>>
  BY SMTT(30), <1>1, <1>4, <1>5, <1>6, <1>7 DEF TipId
<1>8. CASE chain[n] # <<>>
  <2>1. Height(n) \in 1..Len(chain[n]) /\ TipId(chain[n]) = chain[n][Height(n)].blk.id
    BY SMTT(30), <1>2, <1>8, TipTyped DEF Height
  <2>2. Mentioned(chain[n][Height(n)].blk)
    BY Zenon, <2>1 DEF Mentioned, InChains
  <2> QED BY Zenon, <1>4, <1>5, <1>6, <2>1, <2>2
<1> QED BY Zenon, <1>7, <1>8

\* The blocks of s below height f followed by those of t from there on.
LEMMA Spliced ==
    ASSUME NEW s \in Seq(Entry), NEW t \in Seq(Entry),
           NEW f \in 1..Len(s), f <= Len(t) + 1
    PROVE  /\ SubSeq(s, 1, f - 1) \o SubSeq(t, f, Len(t)) \in Seq(Entry)
           /\ Len(SubSeq(s, 1, f - 1) \o SubSeq(t, f, Len(t))) = Len(t)
           /\ \A i \in 1..Len(t) : (SubSeq(s, 1, f - 1) \o SubSeq(t, f, Len(t)))[i]
                                     = IF i < f THEN s[i] ELSE t[i]
<1> DEFINE p == SubSeq(s, 1, f - 1)
           q == SubSeq(t, f, Len(t))
<1>1. Len(s) \in Nat /\ Len(t) \in Nat /\ f \in Nat /\ f >= 1
  BY SMTT(30)
<1>2. p \in Seq(Entry) /\ Len(p) = f - 1 /\ \A i \in 1..f - 1 : p[i] = s[i]
  BY SMTT(30), <1>1
<1>3. /\ q \in Seq(Entry) /\ Len(q) = Len(t) - f + 1
      /\ \A i \in 1..Len(t) - f + 1 : q[i] = t[f + i - 1]
  BY SMTT(30), <1>1
<1> HIDE DEF p, q
<1>4. p \o q \in Seq(Entry) /\ Len(p \o q) = Len(t)
  BY SMTT(30), <1>1, <1>2, <1>3
<1>5. ASSUME NEW i \in 1..Len(t) PROVE (p \o q)[i] = IF i < f THEN s[i] ELSE t[i]
  <2>1. CASE i < f
    BY SMTT(30), <1>1, <1>2, <1>3, <2>1
  <2>2. CASE ~(i < f)
    <3>1. i - (f - 1) \in 1..Len(t) - f + 1 /\ f + (i - (f - 1)) - 1 = i
      BY SMTT(30), <1>1, <2>2
    <3>2. (p \o q)[i] = q[i - (f - 1)]
      BY SMTT(30), <1>1, <1>2, <1>3, <2>2
    <3> QED BY Zenon, <1>3, <2>2, <3>1, <3>2
  <2> QED BY Zenon, <2>1, <2>2
<1> QED BY Zenon, <1>4, <1>5 DEF p, q

\* A branch that TryReorg replays is linked.
LEMMA ReplayLinks ==
    ASSUME NEW c \in Seq(Entry), Replays(c)
    PROVE  Linked(c)
<1> SUFFICES ASSUME NEW h \in 1..Len(c)
             PROVE  c[h].blk.parent = IF h = 1 THEN 0 ELSE c[h - 1].blk.id
  BY Zenon DEF Linked
<1> DEFINE d == SubSeq(c, 1, h - 1)
<1>1. c[h].blk.parent = TipId(d)
  BY Zenon DEF Replays
<1>2. /\ d \in Seq(Entry) /\ Len(d) = h - 1 /\ h \in Nat /\ h >= 1
      /\ \A i \in 1..h - 1 : d[i] = c[i]
  BY SMTT(30)
<1> HIDE DEF d
<1>3. CASE h = 1
  <2>1. d = <<>>
    BY SMTT(30), <1>2, <1>3
  <2> QED BY Zenon, <1>1, <1>3, <2>1 DEF TipId
<1>4. CASE h # 1
  <2>1. d # <<>> /\ h - 1 \in 1..h - 1
    BY SMTT(30), <1>2, <1>4
  <2>2. TipId(d) = d[h - 1].blk.id
    BY Zenon, <1>2, <2>1 DEF TipId
  <2> QED BY Zenon, <1>1, <1>2, <1>4, <2>1, <2>2
<1> QED BY Zenon, <1>3, <1>4

\* A linked chain stays linked if every block added extends the one below.
LEMMA LongerLinks ==
    ASSUME NEW s \in Seq(Entry), NEW c \in Seq(Entry), Linked(s), Len(c) >= Len(s),
           \A i \in 1..Len(s) : c[i] = s[i],
           \A h \in 1..Len(c) : h > Len(s) =>
              c[h].blk.parent = IF h = Len(s) + 1 THEN TipId(s) ELSE c[h - 1].blk.id
    PROVE  Linked(c)
<1> SUFFICES ASSUME NEW h \in 1..Len(c)
             PROVE  c[h].blk.parent = IF h = 1 THEN 0 ELSE c[h - 1].blk.id
  BY Zenon DEF Linked
<1>1. Len(s) \in Nat /\ Len(c) \in Nat
  BY SMTT(30)
<1>2. CASE h <= Len(s)
  <2>1. h \in 1..Len(s) /\ (h # 1 => h - 1 \in 1..Len(s))
    BY SMTT(30), <1>1, <1>2
  <2> QED BY Zenon, <2>1 DEF Linked
<1>3. CASE h = Len(s) + 1 /\ s = <<>>
  <2>1. h = 1 /\ TipId(s) = 0 /\ h > Len(s)
    BY SMTT(30), <1>3 DEF TipId
  <2> QED BY Zenon, <1>3, <2>1
<1>4. CASE h = Len(s) + 1 /\ s # <<>>
  <2>1. h # 1 /\ h - 1 = Len(s) /\ h - 1 \in 1..Len(s) /\ h > Len(s)
    BY SMTT(30), <1>1, <1>4
  <2> QED BY ZenonT(40), <1>4, <2>1 DEF TipId
<1>5. CASE h > Len(s) + 1
  BY SMTT(30), <1>1, <1>5
<1> QED BY SMTT(30), <1>1, <1>2, <1>3, <1>4, <1>5

\* The k heights above a lie between a and b.
LEMMA HeightsBetween ==
    ASSUME NEW a \in Nat, NEW b \in Nat, NEW k \in 1..b - a
    PROVE  a + 1 \in 1..b /\ a + k \in a + 1..b /\ k = (a + k) - (a + 1) + 1
BY SMTT(30)

\* CatchUpOnce makes a longer chain out of the node's and the peer's: either
\* it only adds, or the two chains differ somewhere.
CaughtUp(n, m, c) ==
    /\ c \in Seq(Entry)
    /\ Len(c) > Height(n) /\ Len(c) <= Height(m)
    /\ \A i \in 1..Len(c) : \/ i <= Height(n) /\ c[i] = chain[n][i]
                            \/ i <= Height(m) /\ c[i] = chain[m][i]
    /\ AtItsHeight(chain[n]) => AtItsHeight(c)
    /\ Linked(chain[n]) => Linked(c)
    /\ \/ \A i \in 1..Height(n) : c[i] = chain[n][i]
       \/ \E i \in 1..Height(n) : chain[n][i].blk.id # chain[m][i].blk.id

\* A catch-up leaves the chain alone or adopts one that is caught up.
LEMMA CatchingUp ==
    ASSUME Typed, NEW n \in Nodes, NEW m \in Nodes, CatchUpOnce(n, m)
    PROVE  \E c, b : CaughtUp(n, m, c) /\ b \in {bal[n], BaseBal} /\ Adopt(n, c, b)
<1> DEFINE d == chain[m]
<1>1. /\ d \in Seq(Entry) /\ chain[n] \in Seq(Entry)
      /\ Height(n) \in Nat /\ Height(n) = Len(chain[n])
      /\ Height(m) = Len(d) /\ Len(d) \in Nat
  BY SMTT(30) DEF Typed, ChainsTyped, Height
<1>2. Len(d) > Height(n)
  BY Zenon DEF CatchUpOnce
<1>4. ASSUME NEW k \in Appends(n, d), k > 0,
             Adopt(n, chain[n] \o SubSeq(d, Height(n) + 1, Height(n) + k), bal[n])
      PROVE  \E c, b : CaughtUp(n, m, c) /\ b \in {bal[n], BaseBal} /\ Adopt(n, c, b)
  <2> DEFINE c == chain[n] \o SubSeq(d, Height(n) + 1, Height(n) + k)
  <2>1. /\ k \in 1..Len(d) - Height(n)
        /\ \A h \in Height(n) + 1..Height(n) + k : d[h].blk.height = h
    BY SMTT(30), <1>1, <1>2, <1>4 DEF Appends
  <2>2. c \in Seq(Entry) /\ Len(c) = Height(n) + k
    <3> DEFINE s == SubSeq(d, Height(n) + 1, Height(n) + k)
    <3>0. /\ Height(n) + 1 \in 1..Len(d) /\ Height(n) + k \in Height(n) + 1..Len(d)
          /\ k = (Height(n) + k) - (Height(n) + 1) + 1
      BY Zenon, <1>1, <2>1, HeightsBetween
    <3>1. s \in Seq(Entry) /\ Len(s) = k
      <4> DEFINE a == Height(n) + 1
                 z == Height(n) + k
      <4>1. a \in 1..Len(d) /\ z \in a..Len(d) /\ k = z - a + 1
        BY Zenon, <3>0
      <4>2. d \in Seq(Entry) /\ Len(d) \in Nat
        BY Zenon, <1>1
      <4> HIDE DEF a, z, d
      <4>3. SubSeq(d, a, z) \in Seq(Entry) /\ Len(SubSeq(d, a, z)) = z - a + 1
        BY SMTT(30), <4>1, <4>2
      <4> QED BY Zenon, <4>1, <4>3 DEF a, z
    <3> HIDE DEF s
    <3>2. chain[n] \o s \in Seq(Entry) /\ Len(chain[n] \o s) = Len(chain[n]) + Len(s)
      BY SMTT(30), <1>1, <3>1
    <3> QED BY Zenon, <1>1, <3>1, <3>2 DEF s
  <2>3. \A i \in 1..Height(n) : c[i] = chain[n][i]
    BY SMTT(30), <1>1, <1>2, <2>1
  <2>4. \A i \in Height(n) + 1..Height(n) + k : c[i] = d[i]
    BY SMTT(30), <1>1, <1>2, <2>1
  <2>5. \A i \in 1..Len(c) : i \in 1..Height(n) \/ i \in Height(n) + 1..Height(n) + k
    BY SMTT(30), <1>1, <2>1, <2>2
  <2> HIDE DEF c
  <2>6. AtItsHeight(chain[n]) => AtItsHeight(c)
    BY Zenon, <1>1, <2>1, <2>2, <2>3, <2>4, <2>5 DEF AtItsHeight
  <2>8. Linked(chain[n]) => Linked(c)
    <3>1. \A h \in Height(n) + 1..Height(n) + k :
             d[h].blk.parent = IF h = Height(n) + 1 THEN TipId(chain[n]) ELSE d[h - 1].blk.id
      BY Zenon, <1>4 DEF Appends
    <3>2. ASSUME NEW h \in 1..Len(c), h > Len(chain[n])
          PROVE  c[h].blk.parent = IF h = Len(chain[n]) + 1 THEN TipId(chain[n])
                                   ELSE c[h - 1].blk.id
      <4>1. /\ h \in Height(n) + 1..Height(n) + k
            /\ h # Height(n) + 1 => h - 1 \in Height(n) + 1..Height(n) + k
        BY SMTT(30), <1>1, <2>1, <2>2, <3>2
      <4> HIDE DEF d
      <4> QED BY Zenon, <1>1, <2>4, <3>1, <4>1
    <3>3. Len(c) >= Len(chain[n]) /\ \A i \in 1..Len(chain[n]) : c[i] = chain[n][i]
      BY SMTT(30), <1>1, <2>1, <2>2, <2>3
    <3> QED BY Zenon, <1>1, <2>2, <3>2, <3>3, LongerLinks
  <2>7. CaughtUp(n, m, c)
    BY SMTT(30), <1>1, <2>1, <2>2, <2>3, <2>4, <2>5, <2>6, <2>8 DEF CaughtUp
  <2> QED BY Zenon, <1>4, <2>7 DEF c
<1>5. ASSUME NEW f \in Forks(n, d),
             Adopt(n, SubSeq(chain[n], 1, f - 1) \o SubSeq(d, f, Len(d)), BaseBal)
      PROVE  \E c, b : CaughtUp(n, m, c) /\ b \in {bal[n], BaseBal} /\ Adopt(n, c, b)
  <2> DEFINE c == SubSeq(chain[n], 1, f - 1) \o SubSeq(d, f, Len(d))
  <2>2. /\ f \in 1..Height(n) /\ chain[n][f].blk.id # d[f].blk.id
        /\ TryReorg(n, f, SubSeq(d, f, Len(d)))
    BY Zenon DEF Forks
  <2>3. AtItsHeight(c)
    BY Zenon, <2>2 DEF TryReorg, Replays, AtItsHeight
  <2>4. /\ c \in Seq(Entry) /\ Len(c) = Len(d)
        /\ \A i \in 1..Len(d) : c[i] = IF i < f THEN chain[n][i] ELSE d[i]
    <3>1. f \in 1..Len(chain[n]) /\ f <= Len(d) + 1
      BY SMTT(30), <1>1, <1>2, <2>2
    <3>2. chain[n] \in Seq(Entry) /\ d \in Seq(Entry)
      BY Zenon, <1>1
    <3> QED BY ZenonT(40), <3>1, <3>2, Spliced DEF c
  <2>5. Linked(c)
    BY Zenon, <2>2, <2>4, ReplayLinks DEF TryReorg
  <2> HIDE DEF c
  <2>6. CaughtUp(n, m, c)
    BY SMTT(30), <1>1, <1>2, <2>2, <2>3, <2>4, <2>5 DEF CaughtUp
  <2> QED BY Zenon, <1>5, <2>6 DEF c
<1> QED BY Zenon, <1>4, <1>5 DEF CatchUpOnce

-----------------------------------------------------------------------------
\* The producer of a height among a fleet's signers exists.
LEMMA TurnTyped ==
    ASSUME NEW h \in Nat, NEW L \in Nat, L > 0
    PROVE  1 + (h % L) \in 1..L
BY SMTT(30)

\* One round's votes, counted.
LEMMA HandlingTyped ==
    ASSUME ChainsTyped, EnginesTyped, NEW n \in Nodes, NEW e \in Slots,
           NEW V \in SUBSET Nodes, NEW b \in Block, b.height \in 1..MaxHeight,
           HandleVotes(n, e, V, b)
    PROVE  engine' \in [Nodes -> Slots] /\ bal' \in [Nodes -> Balances]
<1>1. OnVotes(e, V, b) \in Slots
  BY Zenon, OnVotesTyped
<1>2. EquivocationPenalty \in Nat /\ bal[n] \in Balances
  BY Zenon, RosterAssumption DEF ChainsTyped
<1>3. SlashAll(bal[n], Equivocators(e, V, b), EquivocationPenalty) \in Balances
  BY Zenon, <1>2, SlashTyped
<1> QED BY Zenon, <1>1, <1>3 DEF HandleVotes, ChainsTyped, EnginesTyped

\* What a producer may put in the place of its round.
LEMMA RoundChanged ==
    ASSUME RoundsTyped, dep' = dep, NEW n \in Nodes, NEW x \in Round,
           x.at # "idle" => Proposed(x.blk), prod' = [prod EXCEPT ![n] = x]
    PROVE  RoundsTyped'
BY Zenon DEF RoundsTyped, Proposed, MaxHeight

\* No round in progress.
LEMMA IdleTyped ==
    /\ Idle \in Round /\ Idle.at = "idle" /\ NewEngine \in Slots
    /\ Idle.blk = NoBlock /\ Idle.got = {} /\ Idle.sigs = {}
<1>1. NewSlot(NoBlock) \in Slot
  BY Zenon, BaseTyped DEF NewSlot, Slot, Balances
<1>2. NewEngine \in Slots
  BY Zenon, <1>1 DEF NewEngine, Slots
<1> QED BY Zenon, <1>2, BaseTyped DEF Idle, Round

\* The parts of Typed that a step leaves alone.
LEMMA Untouched ==
    ASSUME dep' = dep
    PROVE  /\ Slots' = Slots /\ MaxHeight' = MaxHeight
           /\ ChainsTyped /\ KeepChain => ChainsTyped'
           /\ EnginesTyped /\ engine' = engine => EnginesTyped'
           /\ LocksTyped /\ lock' = lock => LocksTyped'
           /\ RoundsTyped /\ prod' = prod => RoundsTyped'
           /\ RequestsTyped /\ reqs' \subseteq reqs => RequestsTyped'
           /\ MailTyped /\ mail' \subseteq mail => MailTyped'
           /\ PushesTyped /\ pushes' \subseteq pushes => PushesTyped'
           /\ CountersTyped /\ UnchangedFaults => CountersTyped'
<1>1. Slots' = Slots /\ MaxHeight' = MaxHeight
  BY Zenon DEF Slots, MaxHeight
<1>2. ChainsTyped /\ KeepChain => ChainsTyped'
  BY Zenon DEF ChainsTyped, KeepChain
<1>3. EnginesTyped /\ engine' = engine => EnginesTyped'
  BY Zenon, <1>1 DEF EnginesTyped
<1>4. LocksTyped /\ lock' = lock => LocksTyped'
  BY Zenon DEF LocksTyped
<1>5. RoundsTyped /\ prod' = prod => RoundsTyped'
  BY Zenon, <1>1 DEF RoundsTyped, Proposed
<1>6. RequestsTyped /\ reqs' \subseteq reqs => RequestsTyped'
  BY Zenon, <1>1 DEF RequestsTyped, Proposed
<1>7. MailTyped /\ mail' \subseteq mail => MailTyped'
  BY Zenon DEF MailTyped
<1>8. PushesTyped /\ pushes' \subseteq pushes => PushesTyped'
  BY SMTT(30), <1>1 DEF PushesTyped, Proposed
<1>9. CountersTyped /\ UnchangedFaults => CountersTyped'
  BY Zenon DEF CountersTyped, UnchangedFaults
<1> QED BY Zenon, <1>1, <1>2, <1>3, <1>4, <1>5, <1>6, <1>7, <1>8, <1>9

\* Adopting a typed chain keeps the types.
LEMMA AdoptTyped ==
    ASSUME ChainsTyped, NEW n \in Nodes, NEW c \in Seq(Entry), NEW b \in Balances,
           Adopt(n, c, b)
    PROVE  ChainsTyped'
BY Zenon DEF ChainsTyped, Adopt

\* The types hold initially ...
LEMMA TypedInit == Init => Typed
<1> SUFFICES ASSUME Init PROVE Typed
  BY Zenon
<1>1. ChainsTyped
  BY SMTT(30), BaseTyped DEF Init, ChainsTyped
<1>2. EnginesTyped /\ LocksTyped
  BY Zenon, IdleTyped DEF Init, EnginesTyped, LocksTyped
<1>3. RoundsTyped
  BY Zenon, IdleTyped DEF Init, RoundsTyped
<1> QED BY Zenon, <1>1, <1>2, <1>3
        DEF Init, Typed, RequestsTyped, MailTyped, PushesTyped, CountersTyped

\* ... the steps of a round keep them ...
LEMMA TypedRounds ==
    ASSUME Typed, NEW n \in Nodes,
           \/ Propose(n) \/ FleetSign(n) \/ PollVotes(n) \/ CloseRound(n)
           \/ Seal(n) \/ FinalizeBlock(n) \/ SaveFinalized(n) \/ Push(n)
    PROVE  Typed'
<1> USE DEF Typed
<1>0. /\ chain[n] \in Seq(Entry) /\ Height(n) \in Nat /\ bal[n] \in Balances
      /\ engine[n] \in Slots /\ prod[n] \in Round
      /\ prod[n].at # "idle" => Proposed(prod[n].blk)
  BY SMTT(30) DEF ChainsTyped, EnginesTyped, RoundsTyped, Height
<1>r. /\ prod[n].blk \in Block /\ prod[n].got \in SUBSET Nodes /\ prod[n].sigs \in SUBSET Nodes
  BY Zenon, <1>0 DEF Round
<1>d. Fleet \in Seq(Nodes) /\ MaxHeight \in Nat
  BY Zenon, DeploymentTyped
<1>1. CASE Propose(n)
  <2> DEFINE b == BuildBlock(n)
             x == [Idle EXCEPT !.at = "collect", !.blk = b]
  <2>1. FreshIds # {} /\ Height(n) < MaxHeight /\ dep' = dep
    BY Zenon, <1>1 DEF Propose, Tick, UnchangedFaults
  <2>2. b \in Block /\ b.height = Height(n) + 1 /\ b.proposer = n /\ b.id > 0
    BY Zenon, <2>1, Built, FreshIsNew DEF Extends
  <2>3. b.height \in 1..MaxHeight
    BY SMTT(30), <1>0, <1>d, <2>1, <2>2
  <2>4. Proposed(b)
    BY Zenon, <2>2, <2>3 DEF Proposed
  <2> HIDE DEF b
  <2>5. RecordProposal(engine[n], b) \in Slots
    BY Zenon, <1>0, <2>2, <2>3, RecordProposalTyped
  <2>6. /\ HandleVotes(n, RecordProposal(engine[n], b), {n}, b)
        /\ prod' = [prod EXCEPT ![n] = x]
        /\ reqs' = reqs \cup
                 {[to |-> m, blk |-> b,
                   at |-> IF m \in Relay THEN "mail" ELSE "sent"] :
                      m \in Nodes \ {n}}
        /\ UNCHANGED <<chain, saved, lock, mail, pushes>> /\ UnchangedFaults
    BY Zenon, <1>1 DEF Propose, b
  <2>7. engine' \in [Nodes -> Slots] /\ bal' \in [Nodes -> Balances]
    BY Zenon, <2>2, <2>3, <2>5, <2>6, HandlingTyped
  <2>8. x \in Round /\ x.blk = b
    BY Zenon, <2>2, IdleTyped DEF Round
  <2> HIDE DEF x
  <2>9. RoundsTyped'
    BY Zenon, <2>1, <2>4, <2>6, <2>8, RoundChanged
  <2>10. RequestsTyped'
    <3> SUFFICES ASSUME NEW r \in reqs' PROVE r \in Request /\ Proposed(r.blk)'
      BY Zenon DEF RequestsTyped
    <3>1. CASE r \in reqs
      BY Zenon, <2>1, <3>1 DEF RequestsTyped, Proposed, MaxHeight
    <3>2. CASE r \notin reqs
      <4>1. PICK m \in Nodes : r = [to |-> m, blk |-> b, at |-> IF m \in Relay THEN "mail" ELSE "sent"]
        BY Zenon, <2>6, <3>2
      <4> QED BY Zenon, <2>1, <2>2, <2>4, <4>1 DEF Request, Proposed, MaxHeight
    <3> QED BY Zenon, <3>1, <3>2
  <2>11. ChainsTyped' /\ EnginesTyped'
    BY Zenon, <2>1, <2>6, <2>7, Untouched DEF ChainsTyped, EnginesTyped
  <2> QED BY Zenon, <2>1, <2>6, <2>9, <2>10, <2>11, Untouched
<1>2. CASE FleetSign(n)
  <2> DEFINE p == Fleet[1 + (Height(n) % Len(Fleet))]
             b == [BuildBlock(n) EXCEPT !.proposer = p]
             x == [at |-> "sealed", blk |-> b, got |-> {}, sigs |-> Range(Fleet)]
  <2>1. FreshIds # {} /\ Height(n) < MaxHeight /\ dep' = dep /\ Len(Fleet) >= 2
    BY Zenon, <1>2 DEF FleetSign, Tick, UnchangedFaults
  <2>2. Len(Fleet) \in Nat /\ 1 + (Height(n) % Len(Fleet)) \in 1..Len(Fleet)
    BY SMTT(30), <1>0, <1>d, <2>1, TurnTyped
  <2>3. p \in Nodes
    BY SMTT(30), <1>d, <2>2
  <2>4. BuildBlock(n) \in Block /\ BuildBlock(n).height = Height(n) + 1 /\ BuildBlock(n).id > 0
    BY Zenon, <2>1, Built, FreshIsNew DEF Extends
  <2>5. Range(Fleet) \in SUBSET Nodes
    BY SMTT(30), <1>d DEF Range
  <2>6. /\ HandleVotes(n, engine[n], Range(Fleet), b)
        /\ prod' = [prod EXCEPT ![n] = x]
        /\ UNCHANGED <<chain, saved, lock, reqs, mail, pushes>> /\ UnchangedFaults
    BY Zenon, <1>2 DEF FleetSign
  <2> HIDE DEF p
  <2>7. p \in Nat
    BY SMTT(30), <2>3, NAssumption DEF Nodes
  <2>8. b \in Block /\ b.height = Height(n) + 1 /\ b.id > 0 /\ b.proposer = p
    BY Zenon, <2>4, <2>7 DEF Block
  <2> HIDE DEF b
  <2>9. b.height \in 1..MaxHeight
    BY SMTT(30), <1>0, <1>d, <2>1, <2>8
  <2>10. Proposed(b)
    BY Zenon, <2>3, <2>8, <2>9 DEF Proposed
  <2>11. engine' \in [Nodes -> Slots] /\ bal' \in [Nodes -> Balances]
    BY Zenon, <1>0, <2>5, <2>6, <2>8, <2>9, HandlingTyped
  <2>12. x \in Round /\ x.blk = b
    BY Zenon, <2>5, <2>8 DEF Round
  <2> HIDE DEF x
  <2>13. RoundsTyped'
    BY Zenon, <2>1, <2>6, <2>10, <2>12, RoundChanged
  <2>14. ChainsTyped' /\ EnginesTyped'
    BY Zenon, <2>1, <2>6, <2>11, Untouched DEF ChainsTyped, EnginesTyped
  <2> QED BY Zenon, <2>1, <2>6, <2>13, <2>14, Untouched
<1>3. CASE PollVotes(n)
  <2> DEFINE G == {v.from : v \in {w \in {v \in mail : v.to = n} : verifyPeerVote(w, prod[n].blk)}}
             x == [prod[n] EXCEPT !.got = @ \cup G]
  <2>1. G \subseteq Nodes
    BY Zenon DEF MailTyped, Vote
  <2>2. /\ prod' = [prod EXCEPT ![n] = x] /\ mail' \subseteq mail /\ reqs' \subseteq reqs
        /\ prod[n].at = "collect" /\ dep' = dep
        /\ UNCHANGED <<engine, lock, pushes>> /\ KeepChain /\ UnchangedFaults
    BY Zenon, <1>3 DEF PollVotes, Pulled, UnchangedFaults
  <2> HIDE DEF G
  <2>3. x \in Round /\ x.blk = prod[n].blk
    BY Zenon, <1>0, <1>r, <2>1 DEF Round
  <2> HIDE DEF x
  <2>4. RoundsTyped'
    BY Zenon, <1>0, <2>2, <2>3, RoundChanged
  <2> QED BY Zenon, <2>2, <2>4, Untouched
<1>4. CASE CloseRound(n)
  <2>1. prod[n].blk.height \in 1..MaxHeight /\ Proposed(prod[n].blk)
    BY Zenon, <1>0, <1>4 DEF CloseRound, Proposed
  <2>2. /\ HandleVotes(n, engine[n], prod[n].got, prod[n].blk)
        /\ \/ prod' = [prod EXCEPT ![n] = [prod[n] EXCEPT !.at = "certified"]]
           \/ prod' = [prod EXCEPT ![n] = Idle]
        /\ timeouts' \in {timeouts, timeouts + 1}
        /\ UNCHANGED <<dep, chain, saved, lock, reqs, mail, pushes, crashes, expiries, lost>>
    BY Zenon, <1>4 DEF CloseRound
  <2>3. engine' \in [Nodes -> Slots] /\ bal' \in [Nodes -> Balances]
    BY Zenon, <1>0, <1>r, <2>1, <2>2, HandlingTyped
  <2>4. [prod[n] EXCEPT !.at = "certified"] \in Round
        /\ [prod[n] EXCEPT !.at = "certified"].blk = prod[n].blk
    BY Zenon, <1>0 DEF Round
  <2>5. RoundsTyped'
    BY Zenon, <2>1, <2>2, <2>4, IdleTyped, RoundChanged
  <2>6. ChainsTyped' /\ EnginesTyped'
    BY Zenon, <2>2, <2>3, Untouched DEF ChainsTyped, EnginesTyped
  <2>7. CountersTyped'
    BY SMTT(30), <2>2 DEF CountersTyped
  <2> QED BY Zenon, <2>2, <2>5, <2>6, <2>7, Untouched
<1>5. CASE Seal(n)
  <2>1. Proposed(prod[n].blk)
    BY Zenon, <1>0, <1>5 DEF Seal
  <2>2. engine[n][prod[n].blk.height].votes \in SUBSET Nodes
    <3>1. engine[n][prod[n].blk.height] \in Slot
      BY Zenon, <1>0, <2>1 DEF Slots, Proposed
    <3> QED BY Zenon, <3>1 DEF Slot
  <2>3. TipId(chain[n]) = prod[n].blk.id => chain[n][Height(n)].sigs \in SUBSET Nodes
    <3>1. prod[n].blk.id > 0
      BY Zenon, <2>1 DEF Proposed
    <3>2. ASSUME TipId(chain[n]) = prod[n].blk.id PROVE chain[n] # <<>>
      BY SMTT(30), <3>1, <3>2 DEF TipId
    <3>3. chain[n] # <<>> => chain[n][Height(n)] \in Entry
      BY Zenon, <1>0, TipTyped DEF Height
    <3> QED BY Zenon, <3>2, <3>3 DEF Entry
  <2>4. /\ \/ prod' = [prod EXCEPT ![n] = Idle]
           \/ \E at \in {"finalized", "sealed"}, S \in SUBSET Nodes :
                 prod' = [prod EXCEPT ![n] = [prod[n] EXCEPT !.at = at, !.sigs = S]]
        /\ UNCHANGED <<engine, lock, reqs, mail, pushes>> /\ KeepChain
        /\ UnchangedFaults /\ dep' = dep
    BY Zenon, <1>5, <2>2, <2>3 DEF Seal, UnchangedFaults
  <2>5. \A at \in {"finalized", "sealed"}, S \in SUBSET Nodes :
           /\ [prod[n] EXCEPT !.at = at, !.sigs = S] \in Round
           /\ [prod[n] EXCEPT !.at = at, !.sigs = S].blk = prod[n].blk
    BY Zenon, <1>0 DEF Round
  <2>6. RoundsTyped'
    BY Zenon, <2>1, <2>4, <2>5, IdleTyped, RoundChanged
  <2> QED BY Zenon, <2>4, <2>6, Untouched
<1>6. CASE FinalizeBlock(n)
  <2> DEFINE c == [blk |-> prod[n].blk, sigs |-> prod[n].sigs]
  <2>1. c \in Entry /\ Proposed(prod[n].blk)
    BY Zenon, <1>0, <1>r, <1>6 DEF FinalizeBlock, Entry
  <2>2. /\ \/ /\ prod' = [prod EXCEPT ![n] = Idle] /\ chain' = chain
           \/ /\ prod' = [prod EXCEPT ![n] = [prod[n] EXCEPT !.at = "finalized"]]
              /\ chain' = [chain EXCEPT ![n] = Append(chain[n], c)]
        /\ UNCHANGED <<bal, saved, engine, lock, reqs, mail, pushes>>
        /\ UnchangedFaults /\ dep' = dep
    BY Zenon, <1>6 DEF FinalizeBlock, UnchangedFaults
  <2> HIDE DEF c
  <2>3. Append(chain[n], c) \in Seq(Entry)
    BY SMTT(30), <1>0, <2>1
  <2>4. ChainsTyped'
    BY Zenon, <2>2, <2>3 DEF ChainsTyped
  <2>5. /\ [prod[n] EXCEPT !.at = "finalized"] \in Round
        /\ [prod[n] EXCEPT !.at = "finalized"].blk = prod[n].blk
    BY Zenon, <1>0 DEF Round
  <2>6. RoundsTyped'
    BY Zenon, <2>1, <2>2, <2>5, IdleTyped, RoundChanged
  <2> QED BY Zenon, <2>2, <2>4, <2>6, Untouched
<1>7. CASE SaveFinalized(n)
  <2>1. /\ saved' = [saved EXCEPT ![n] = [chain |-> chain[n], bal |-> bal[n]]]
        /\ prod' = [prod EXCEPT ![n] = [prod[n] EXCEPT !.at = "saved"]]
        /\ UNCHANGED <<chain, bal, engine, lock, reqs, mail, pushes>>
        /\ UnchangedFaults /\ dep' = dep /\ prod[n].at # "idle"
    BY Zenon, <1>7 DEF SaveFinalized, UnchangedFaults
  <2>2. ChainsTyped'
    BY Zenon, <1>0, <2>1 DEF ChainsTyped
  <2>3. /\ [prod[n] EXCEPT !.at = "saved"] \in Round
        /\ [prod[n] EXCEPT !.at = "saved"].blk = prod[n].blk
    BY Zenon, <1>0 DEF Round
  <2>4. RoundsTyped'
    BY Zenon, <1>0, <2>1, <2>3, RoundChanged
  <2> QED BY Zenon, <2>1, <2>2, <2>4, Untouched
<1>8. CASE Push(n)
  <2>1. Proposed(prod[n].blk) /\ PeerURLs[n] \subseteq Nodes
    BY Zenon, <1>0, <1>8, RosterAssumption DEF Push
  <2>2. /\ \A q \in pushes' : q \in pushes \/ \E m \in Nodes :
              q = [to |-> m, blk |-> prod[n].blk, sigs |-> prod[n].sigs]
        /\ prod' = [prod EXCEPT ![n] = Idle]
        /\ UNCHANGED <<engine, lock, reqs, mail>> /\ KeepChain /\ UnchangedFaults
        /\ dep' = dep
    BY Zenon, <1>8, <2>1 DEF Push, UnchangedFaults
  <2>3. PushesTyped'
    <3> SUFFICES ASSUME NEW q \in pushes' PROVE q \in Pushed /\ Proposed(q.blk)'
      BY Zenon DEF PushesTyped
    <3>1. CASE q \in pushes
      BY Zenon, <2>2, <3>1 DEF PushesTyped, Proposed, MaxHeight
    <3>2. CASE q \notin pushes
      <4>1. PICK m \in Nodes : q = [to |-> m, blk |-> prod[n].blk, sigs |-> prod[n].sigs]
        BY Zenon, <2>2, <3>2
      <4> QED BY Zenon, <1>r, <2>1, <2>2, <4>1 DEF Pushed, Proposed, MaxHeight
    <3> QED BY Zenon, <3>1, <3>2
  <2>4. RoundsTyped'
    BY Zenon, <2>2, IdleTyped, RoundChanged
  <2> QED BY Zenon, <2>2, <2>3, <2>4, Untouched
<1> QED BY Zenon, <1>1, <1>2, <1>3, <1>4, <1>5, <1>6, <1>7, <1>8

\* ... and so do the steps of voters, of peers and of the environment.
LEMMA TypedOthers ==
    ASSUME Typed,
           \/ \E n \in Nodes : \/ Fetch(n) \/ Crash(n)
                               \/ \E m \in Nodes : CatchUpOnce(n, m)
           \/ \E r \in reqs : \/ CheckHeight(r) \/ ValidateProposal(r) \/ RefuseVote(r)
                              \/ CastVote(r) \/ SilentVote(r) \/ LoseRequest(r)
           \/ \E v \in mail : LoseVote(v)
           \/ \E q \in pushes : DeliverPush(q) \/ LosePush(q)
    PROVE  Typed'
<1> USE DEF Typed
<1>1. ASSUME NEW n \in Nodes, Fetch(n) PROVE Typed'
  <2>1. /\ \A r \in reqs' : \E q \in reqs :
              r = [q EXCEPT !.at = IF q.to = n /\ @ = "mail" THEN "sent" ELSE @]
        /\ mail' \subseteq mail
        /\ UNCHANGED <<engine, lock, prod, pushes>> /\ KeepChain /\ UnchangedFaults
        /\ dep' = dep
    BY Zenon, <1>1 DEF Fetch, Pulled, UnchangedFaults
  <2>2. RequestsTyped'
    <3> SUFFICES ASSUME NEW r \in reqs' PROVE r \in Request /\ Proposed(r.blk)'
      BY Zenon DEF RequestsTyped
    <3>1. PICK q \in reqs : r = [q EXCEPT !.at = IF q.to = n /\ @ = "mail" THEN "sent" ELSE @]
      BY Zenon, <2>1
    <3>2. q \in Request /\ Proposed(q.blk)
      BY Zenon DEF RequestsTyped
    <3>3. r \in Request /\ r.blk = q.blk
      BY Zenon, <3>1, <3>2 DEF Request
    <3> QED BY Zenon, <2>1, <3>2, <3>3 DEF Proposed, MaxHeight
  <2> QED BY Zenon, <2>1, <2>2, Untouched
<1>2. ASSUME NEW n \in Nodes, Crash(n) PROVE Typed'
  <2>1. /\ chain' = [chain EXCEPT ![n] = saved[n].chain]
        /\ bal' = [bal EXCEPT ![n] = saved[n].bal]
        /\ engine' = [engine EXCEPT ![n] = NewEngine]
        /\ lock' = [lock EXCEPT ![n] = [height |-> 0, proposer |-> 0]]
        /\ prod' = [prod EXCEPT ![n] = Idle] /\ reqs' \subseteq reqs
        /\ crashes' = crashes + 1
        /\ UNCHANGED <<dep, saved, mail, pushes, expiries, lost, timeouts>>
    BY Zenon, <1>2 DEF Crash
  <2>2. ChainsTyped'
    BY Zenon, <2>1 DEF ChainsTyped
  <2>3. EnginesTyped'
    BY Zenon, <2>1, IdleTyped, Untouched DEF EnginesTyped
  <2>4. LocksTyped' /\ CountersTyped'
    BY SMTT(30), <2>1 DEF LocksTyped, CountersTyped
  <2>5. RoundsTyped'
    BY Zenon, <2>1, IdleTyped, RoundChanged
  <2> QED BY Zenon, <2>1, <2>2, <2>3, <2>4, <2>5, Untouched
<1>3. ASSUME NEW n \in Nodes, NEW m \in Nodes, CatchUpOnce(n, m) PROVE Typed'
  <2>1. PICK c, b : CaughtUp(n, m, c) /\ b \in {bal[n], BaseBal} /\ Adopt(n, c, b)
    BY Zenon, <1>3, CatchingUp
  <2>2. c \in Seq(Entry) /\ b \in Balances
    BY Zenon, <2>1, BaseTyped DEF CaughtUp, ChainsTyped
  <2>3. ChainsTyped'
    BY Zenon, <2>1, <2>2, AdoptTyped
  <2>4. UNCHANGED <<engine, lock, prod, reqs, mail, pushes>> /\ UnchangedFaults /\ dep' = dep
    BY Zenon, <1>3 DEF CatchUpOnce, UnchangedFaults
  <2> QED BY Zenon, <2>3, <2>4, Untouched
<1>4. ASSUME NEW r \in reqs, CheckHeight(r) \/ RefuseVote(r) \/ LoseRequest(r) PROVE Typed'
  <2>1. /\ reqs' \subseteq reqs \/ reqs' = Moved(r, "checked")
        /\ UNCHANGED <<engine, lock, prod, mail, pushes>> /\ KeepChain
        /\ UNCHANGED <<dep, crashes, expiries, timeouts>>
        /\ lost' \in {lost, lost + 1}
    BY Zenon, <1>4 DEF CheckHeight, RefuseVote, LoseRequest, UnchangedFaults
  <2>2. r \in Request /\ Proposed(r.blk)
    BY Zenon DEF RequestsTyped
  <2>3. [r EXCEPT !.at = "checked"] \in Request /\ [r EXCEPT !.at = "checked"].blk = r.blk
    BY Zenon, <2>2 DEF Request
  <2>4. RequestsTyped'
    BY Zenon, <2>1, <2>2, <2>3 DEF RequestsTyped, Moved, Proposed, MaxHeight
  <2>5. CountersTyped'
    BY SMTT(30), <2>1 DEF CountersTyped
  <2> QED BY Zenon, <2>1, <2>4, <2>5, Untouched
<1>5. ASSUME NEW r \in reqs, ValidateProposal(r) PROVE Typed'
  <2>1. /\ reqs' \subseteq reqs \/ reqs' = Moved(r, "valid")
        /\ bal' = bal \/ bal' = [bal EXCEPT ![r.to] = Slash(bal[r.to], r.blk.proposer, 1)]
        /\ UNCHANGED <<chain, saved, engine, lock, prod, mail, pushes>>
        /\ UnchangedFaults /\ dep' = dep
    BY Zenon, <1>5 DEF ValidateProposal, UnchangedFaults
  <2>2. r \in Request /\ Proposed(r.blk) /\ r.blk.proposer \in Nodes /\ r.to \in Nodes
    BY Zenon DEF RequestsTyped, Request, Proposed
  <2>3. [r EXCEPT !.at = "valid"] \in Request /\ [r EXCEPT !.at = "valid"].blk = r.blk
    BY Zenon, <2>2 DEF Request
  <2>4. RequestsTyped'
    BY Zenon, <2>1, <2>2, <2>3 DEF RequestsTyped, Moved, Proposed, MaxHeight
  <2>5. Slash(bal[r.to], r.blk.proposer, 1) \in Balances
    BY Zenon, <2>2, SlashTyped DEF ChainsTyped
  <2>6. ChainsTyped'
    BY Zenon, <2>1, <2>2, <2>5 DEF ChainsTyped
  <2> QED BY Zenon, <2>1, <2>4, <2>6, Untouched
<1>6. ASSUME NEW r \in reqs, CastVote(r) \/ SilentVote(r) PROVE Typed'
  <2>1. /\ r \in Request /\ Proposed(r.blk) /\ r.blk \in Block
        /\ r.blk.proposer \in Nodes /\ r.to \in Nodes /\ r.blk.height \in 1..MaxHeight
        /\ r.blk.height \in Nat /\ r.blk.proposer \in Nat
    BY Zenon DEF RequestsTyped, Request, Proposed, Block
  <2> DEFINE p == r.blk.proposer
             x == [prod[p] EXCEPT !.got = @ \cup {r.to}]
             l == [height |-> r.blk.height, proposer |-> p]
             e == RecordProposal(engine[r.to], r.blk)
             v == [to |-> p, from |-> r.to, blk |-> r.blk]
  <2>2. /\ engine' \in {engine, [engine EXCEPT ![r.to] = e]}
        /\ lock' \in {lock, [lock EXCEPT ![r.to] = l]}
        /\ mail' \in {mail, mail \cup {v}} /\ reqs' \subseteq reqs
        /\ prod' = prod \/ (prod[p].at = "collect" /\ prod' = [prod EXCEPT ![p] = x])
        /\ UNCHANGED <<dep, pushes, crashes, lost, timeouts>> /\ KeepChain
        /\ expiries' \in {expiries, expiries + 1, expiries + 0}
    BY Zenon, <1>6 DEF CastVote, SilentVote, PostVote, AnswerVote, postVoteBack, UnchangedFaults
  <2>3. EnginesTyped'
    <3>1. e \in Slots
      BY Zenon, <2>1, RecordProposalTyped DEF EnginesTyped
    <3> HIDE DEF e
    <3> QED BY Zenon, <2>2, <3>1, Untouched DEF EnginesTyped
  <2>4. LocksTyped'
    BY SMTT(30), <2>1, <2>2 DEF LocksTyped
  <2>5. v \in Vote
    BY Zenon, <2>1 DEF Vote
  <2>6. MailTyped'
    BY Zenon, <2>2, <2>5 DEF MailTyped
  <2>7. x \in Round /\ x.blk = prod[p].blk
    BY SMTT(30), <2>1 DEF RoundsTyped, Round
  <2>8. RoundsTyped'
    <3>1. CASE prod' = prod
      BY Zenon, <2>2, <3>1, Untouched
    <3>2. CASE prod[p].at = "collect" /\ prod' = [prod EXCEPT ![p] = x]
      <4>1. Proposed(prod[p].blk)
        BY Zenon, <2>1, <3>2 DEF RoundsTyped
      <4> HIDE DEF x, p
      <4>2. p \in Nodes
        BY Zenon, <2>1 DEF p
      <4> QED BY Zenon, <2>2, <2>7, <3>2, <4>1, <4>2, RoundChanged
    <3> QED BY Zenon, <2>2, <3>1, <3>2
  <2>9. CountersTyped'
    BY SMTT(30), <2>2 DEF CountersTyped
  <2> QED BY Zenon, <2>2, <2>3, <2>4, <2>6, <2>8, <2>9, Untouched
<1>7. ASSUME NEW q \in pushes, DeliverPush(q) \/ LosePush(q) PROVE Typed'
  <2> DEFINE n == q.to
             c == [blk |-> q.blk, sigs |-> q.sigs]
             h == q.blk.height
  <2>1. n \in Nodes /\ c \in Entry /\ h \in Nat /\ h >= 1
    <3>1. q \in Pushed /\ h \in 1..MaxHeight
      BY Zenon DEF PushesTyped, Proposed
    <3>2. MaxHeight \in Nat
      BY Zenon, DeploymentTyped
    <3> QED BY SMTT(30), <3>1, <3>2 DEF Pushed, Entry
  <2>2. /\ \/ KeepChain
           \/ Adopt(n, Append(chain[n], c), bal[n])
           \/ /\ Adopt(n, Append(SubSeq(chain[n], 1, h - 1), c), BaseBal)
              /\ ~(h > Len(chain[n]))
        /\ pushes' \subseteq pushes /\ lost' \in {lost, lost + 1}
        /\ UNCHANGED <<engine, lock, prod, reqs, mail>>
        /\ UNCHANGED <<dep, crashes, expiries, timeouts>>
    BY Zenon, <1>7 DEF DeliverPush, LosePush, UnchangedFaults, Height
  <2> HIDE DEF n, c, h
  <2>3. chain[n] \in Seq(Entry) /\ bal[n] \in Balances
    BY Zenon, <2>1 DEF ChainsTyped
  <2>4. Append(chain[n], c) \in Seq(Entry)
    BY SMTT(30), <2>1, <2>3
  <2>5. ~(h > Len(chain[n])) => Append(SubSeq(chain[n], 1, h - 1), c) \in Seq(Entry)
    BY SMTT(30), <2>1, <2>3
  <2>6. ChainsTyped'
    <3>1. CASE KeepChain
      BY Zenon, <2>2, <3>1, Untouched
    <3>2. CASE Adopt(n, Append(chain[n], c), bal[n])
      BY Zenon, <2>1, <2>3, <2>4, <3>2, AdoptTyped
    <3>3. CASE Adopt(n, Append(SubSeq(chain[n], 1, h - 1), c), BaseBal) /\ ~(h > Len(chain[n]))
      BY Zenon, <2>1, <2>5, <3>3, BaseTyped, AdoptTyped
    <3> QED BY Zenon, <2>2, <3>1, <3>2, <3>3
  <2>7. CountersTyped'
    BY SMTT(30), <2>2 DEF CountersTyped
  <2> QED BY Zenon, <2>2, <2>6, <2>7, Untouched
<1>8. ASSUME NEW v \in mail, LoseVote(v) PROVE Typed'
  <2>1. /\ mail' \subseteq mail /\ lost' = lost + 1 /\ KeepChain
        /\ UNCHANGED <<dep, engine, lock, prod, reqs, pushes, crashes, expiries, timeouts>>
    BY Zenon, <1>8 DEF LoseVote
  <2>2. CountersTyped'
    BY SMTT(30), <2>1 DEF CountersTyped
  <2> QED BY Zenon, <2>1, <2>2, Untouched
<1> QED BY Zenon, <1>1, <1>2, <1>3, <1>4, <1>5, <1>6, <1>7, <1>8

\* The types are invariant.
LEMMA TypedNext == Typed /\ [Next]_vars => Typed'
<1> SUFFICES ASSUME Typed, [Next]_vars PROVE Typed'
  BY Zenon
<1>1. CASE UNCHANGED vars
  <2>1. UNCHANGED <<engine, lock, prod, reqs, mail, pushes>> /\ KeepChain /\ UnchangedFaults /\ dep' = dep
    BY Zenon, <1>1 DEF vars, KeepChain, UnchangedFaults
  <2> QED BY Zenon, <2>1, Untouched DEF Typed
<1>2. CASE Next
  BY Zenon, <1>1, <1>2, TypedRounds, TypedOthers DEF Next, PollProposals, fetchMailboxMessages, Bounded
<1> QED BY Zenon, <1>1, <1>2

-----------------------------------------------------------------------------
\* The votes a round in progress has made the engine remember are for its
\* candidate, and nobody has been flagged.
VoteMemory ==
    Len(Fleet) < 2 =>
        \A n \in Nodes :
            /\ \A h \in 1..MaxHeight : engine[n][h].flagged = {}
            /\ prod[n].at = "collect" => \A v \in Nodes :
                  engine[n][prod[n].blk.height].voted[v] \in {0, prod[n].blk.id}

\* Steps that record no proposal and count no vote.
Quiet ==
    \/ \E n \in Nodes : \/ PollVotes(n) \/ Seal(n) \/ FinalizeBlock(n)
                        \/ SaveFinalized(n) \/ Push(n) \/ Fetch(n)
                        \/ \E m \in Nodes : CatchUpOnce(n, m)
    \/ \E r \in reqs : \/ CheckHeight(r) \/ ValidateProposal(r) \/ RefuseVote(r)
                       \/ SilentVote(r) \/ LoseRequest(r)
    \/ \E v \in mail : LoseVote(v)
    \/ \E q \in pushes : DeliverPush(q) \/ LosePush(q)
    \/ UNCHANGED vars

\* Such steps leave the engines and locks alone and open no round.
LEMMA QuietSteps ==
    ASSUME Typed, Quiet
    PROVE  /\ dep' = dep /\ engine' = engine /\ lock' = lock
           /\ \A n \in Nodes : prod'[n].at = "collect" =>
                 prod[n].at = "collect" /\ prod'[n].blk = prod[n].blk
           /\ crashes' = crashes /\ expiries' = expiries
<1> USE DEF UnchangedFaults
<1>1. dep' = dep /\ engine' = engine /\ lock' = lock /\ crashes' = crashes /\ expiries' = expiries
  BY ZenonT(40) DEF Quiet, PollVotes, Seal, FinalizeBlock, SaveFinalized, Push, Fetch,
     CatchUpOnce, CheckHeight, ValidateProposal, RefuseVote, SilentVote, LoseRequest,
     LoseVote, DeliverPush, LosePush, vars
<1>2. \/ prod' = prod
      \/ \E n \in Nodes : \E G : prod[n].at = "collect" /\ prod' = [prod EXCEPT ![n] = [prod[n] EXCEPT !.got = G]]
      \/ \E n \in Nodes : \E x : x.at # "collect" /\ prod' = [prod EXCEPT ![n] = x]
  <2>1. ASSUME NEW n \in Nodes, PollVotes(n)
        PROVE  \E G : prod[n].at = "collect" /\ prod' = [prod EXCEPT ![n] = [prod[n] EXCEPT !.got = G]]
    BY Zenon, <2>1 DEF PollVotes
  <2>2. ASSUME NEW n \in Nodes, Seal(n) \/ FinalizeBlock(n) \/ SaveFinalized(n) \/ Push(n)
        PROVE  \E x : x.at # "collect" /\ prod' = [prod EXCEPT ![n] = x]
    <3>1. \E at \in {"finalized", "sealed", "saved"} : \E S :
             \/ prod' = [prod EXCEPT ![n] = Idle]
             \/ prod' = [prod EXCEPT ![n] = [prod[n] EXCEPT !.at = at]]
             \/ prod' = [prod EXCEPT ![n] = [prod[n] EXCEPT !.at = at, !.sigs = S]]
      BY Zenon, <2>2 DEF Seal, FinalizeBlock, SaveFinalized, Push
    <3>2. prod[n] \in Round
      BY Zenon DEF Typed, RoundsTyped
    <3>3. \A at, S : /\ [prod[n] EXCEPT !.at = at].at = at
                     /\ [prod[n] EXCEPT !.at = at, !.sigs = S].at = at
      BY Zenon, <3>2 DEF Round
    <3> QED BY Zenon, <3>1, <3>3, IdleTyped
  <2>3. ASSUME \/ \E n \in Nodes : Fetch(n) \/ \E m \in Nodes : CatchUpOnce(n, m)
               \/ \E r \in reqs : \/ CheckHeight(r) \/ ValidateProposal(r) \/ RefuseVote(r)
                                  \/ SilentVote(r) \/ LoseRequest(r)
               \/ \E v \in mail : LoseVote(v)
               \/ \E q \in pushes : DeliverPush(q) \/ LosePush(q)
               \/ UNCHANGED vars
        PROVE  prod' = prod
    BY Zenon, <2>3 DEF Fetch, CatchUpOnce, CheckHeight, ValidateProposal, RefuseVote, SilentVote,
       LoseRequest, LoseVote, DeliverPush, LosePush, vars
  <2> QED BY Zenon, <2>1, <2>2, <2>3 DEF Quiet
<1>3. \A n \in Nodes : \A G : [prod[n] EXCEPT !.got = G].blk = prod[n].blk
  BY SMTT(30) DEF Typed, RoundsTyped, Round
<1>4. \A n \in Nodes : prod'[n].at = "collect" =>
         prod[n].at = "collect" /\ prod'[n].blk = prod[n].blk
  <2>1. prod \in [Nodes -> Round]
    BY Zenon DEF Typed, RoundsTyped
  <2>2. CASE \E n \in Nodes : \E G :
           prod[n].at = "collect" /\ prod' = [prod EXCEPT ![n] = [prod[n] EXCEPT !.got = G]]
    BY SMTT(30), <1>3, <2>1, <2>2
  <2>3. CASE \E n \in Nodes : \E x : x.at # "collect" /\ prod' = [prod EXCEPT ![n] = x]
    BY Zenon, <2>1, <2>3
  <2> QED BY Zenon, <1>2, <2>2, <2>3
<1> QED BY Zenon, <1>1, <1>4

\* Everything else.
LEMMA StepCases ==
    ASSUME [Next]_vars
    PROVE  \/ Quiet
           \/ \E n \in Nodes : Propose(n) \/ FleetSign(n) \/ CloseRound(n) \/ Crash(n)
           \/ \E r \in reqs : CastVote(r)
BY Zenon DEF Next, Quiet, PollProposals, fetchMailboxMessages, Bounded

\* No step makes a round count votes for two candidates of one height
\* without forgetting the first.
LEMMA VoteMemoryNext == Typed /\ VoteMemory /\ [Next]_vars => VoteMemory'
<1> SUFFICES ASSUME Typed, VoteMemory, [Next]_vars, Len(Fleet') < 2
             PROVE  \A n \in Nodes :
                /\ \A h \in 1..MaxHeight' : engine'[n][h].flagged = {}
                /\ prod'[n].at = "collect" => \A v \in Nodes :
                      engine'[n][prod'[n].blk.height].voted[v] \in {0, prod'[n].blk.id}
  BY Zenon DEF VoteMemory
<1> DEFINE Clean(e, at, b) ==
       /\ \A h \in 1..MaxHeight : e[h].flagged = {}
       /\ at = "collect" => \A v \in Nodes : e[b.height].voted[v] \in {0, b.id}
<1>0. dep' = dep /\ Fleet' = Fleet /\ MaxHeight' = MaxHeight
  <2>1. dep' = dep
    BY ZenonT(40), StepCases, QuietSteps DEF Propose, FleetSign, CloseRound, Crash, CastVote, UnchangedFaults
  <2> QED BY Zenon, <2>1 DEF Fleet, MaxHeight
<1>1. \A n \in Nodes : Clean(engine[n], prod[n].at, prod[n].blk)
  BY Zenon, <1>0 DEF VoteMemory
<1>2. SUFFICES \A n \in Nodes : Clean(engine'[n], prod'[n].at, prod'[n].blk)
  BY Zenon, <1>0
<1>3. CASE Quiet
  BY Zenon, <1>1, <1>3, QuietSteps
<1>4. ASSUME NEW n \in Nodes, Propose(n)
      PROVE  \A m \in Nodes : Clean(engine'[m], prod'[m].at, prod'[m].blk)
  <2> DEFINE b == BuildBlock(n)
             V == {n}
             e == RecordProposal(engine[n], b)
             x == [Idle EXCEPT !.at = "collect", !.blk = b]
  <2>1. /\ engine' = [engine EXCEPT ![n] = OnVotes(e, V, b)]
        /\ prod' = [prod EXCEPT ![n] = x]
        /\ FreshIds # {} /\ Height(n) < MaxHeight
    BY Zenon, <1>4 DEF Propose, Tick, HandleVotes
  <2>2. b \in Block /\ b.height \in 1..MaxHeight
    <3>1. b \in Block /\ b.height = Height(n) + 1 /\ Height(n) \in Nat
      BY SMTT(30), <2>1, Built DEF Extends, Typed, ChainsTyped, Height
    <3>2. MaxHeight \in Nat
      BY Zenon, DeploymentTyped DEF Typed
    <3> QED BY SMTT(30), <2>1, <3>1, <3>2
  <2>3. x.at = "collect" /\ x.blk = b
    BY Zenon, IdleTyped DEF Round
  <2>t. engine \in [Nodes -> Slots] /\ prod \in [Nodes -> Round]
    BY Zenon DEF Typed, EnginesTyped, RoundsTyped
  <2> HIDE DEF b, x, V
  <2>4. /\ e \in Slots
        /\ \A v \in Nodes : e[b.height].voted[v] = 0
        /\ \A h \in 1..MaxHeight : e[h].flagged = engine[n][h].flagged
    BY SMTT(30), <2>2, <2>t, RecordProposalTyped
  <2> HIDE DEF e
  <2>5. Equivocators(e, V, b) = {}
    BY Zenon, <2>4 DEF Equivocators, V
  <2>6. /\ \A h \in 1..MaxHeight : OnVotes(e, V, b)[h].flagged = e[h].flagged
        /\ \A v \in Nodes : OnVotes(e, V, b)[b.height].voted[v] \in {0, b.id}
    <3>1. V \subseteq Nodes
      BY Zenon DEF V
    <3>2. \A h \in 1..MaxHeight : OnVotes(e, V, b)[h].flagged = e[h].flagged
      BY SMTT(30), <2>2, <2>4, <2>5, <3>1, NoneFlagged
    <3>3. \A v \in Nodes : OnVotes(e, V, b)[b.height].voted[v] =
             IF v \in V /\ e[b.height].voted[v] = 0 THEN b.id
             ELSE e[b.height].voted[v]
      BY Zenon, <2>2, <2>4, <3>1, OnVotesTyped
    <3> QED BY Zenon, <2>4, <3>2, <3>3
  <2>7. Clean(OnVotes(e, V, b), x.at, x.blk)
    BY ZenonT(40), <1>1, <2>3, <2>4, <2>6
  <2> HIDE DEF Clean
  <2> QED BY Zenon, <1>1, <2>1, <2>7, <2>t
<1>5. ASSUME NEW n \in Nodes, FleetSign(n) PROVE FALSE
  <2>1. Fleet \in Seq(Nodes)
    BY Zenon, DeploymentTyped DEF Typed
  <2> QED BY SMTT(30), <1>0, <1>5, <2>1 DEF FleetSign
<1>6. ASSUME NEW n \in Nodes, CloseRound(n)
      PROVE  \A m \in Nodes : Clean(engine'[m], prod'[m].at, prod'[m].blk)
  <2> DEFINE b == prod[n].blk
             G == prod[n].got
  <2>t. /\ engine \in [Nodes -> Slots] /\ prod \in [Nodes -> Round]
        /\ b \in Block /\ G \in SUBSET Nodes /\ b.height \in 1..MaxHeight
    BY Zenon, <1>6 DEF CloseRound, Typed, EnginesTyped, RoundsTyped, Round, Proposed
  <2>1. /\ engine' = [engine EXCEPT ![n] = OnVotes(engine[n], G, b)]
        /\ prod[n].at = "collect"
        /\ \/ prod' = [prod EXCEPT ![n] = [prod[n] EXCEPT !.at = "certified"]]
           \/ prod' = [prod EXCEPT ![n] = Idle]
    BY Zenon, <1>6 DEF CloseRound, HandleVotes
  <2>2. prod'[n].at # "collect" /\ \A m \in Nodes \ {n} : prod'[m] = prod[m]
    BY SMTT(30), <2>1, <2>t, IdleTyped DEF Round
  <2> HIDE DEF b, G
  <2>3. Equivocators(engine[n], G, b) = {}
    BY Zenon, <1>1, <2>1, <2>t DEF Equivocators, b
  <2>4. \A h \in 1..MaxHeight : OnVotes(engine[n], G, b)[h].flagged = engine[n][h].flagged
    BY SMTT(30), <2>3, <2>t, NoneFlagged
  <2>5. Clean(engine'[n], prod'[n].at, prod'[n].blk)
    BY Zenon, <1>1, <2>1, <2>2, <2>4, <2>t
  <2>6. \A m \in Nodes \ {n} : engine'[m] = engine[m]
    BY SMTT(30), <2>1
  <2> HIDE DEF Clean
  <2> QED BY Zenon, <1>1, <2>2, <2>5, <2>6
<1>7. ASSUME NEW n \in Nodes, Crash(n)
      PROVE  \A m \in Nodes : Clean(engine'[m], prod'[m].at, prod'[m].blk)
  <2>1. /\ engine' = [engine EXCEPT ![n] = NewEngine] /\ prod' = [prod EXCEPT ![n] = Idle]
        /\ engine \in [Nodes -> Slots] /\ prod \in [Nodes -> Round]
    BY Zenon, <1>7 DEF Crash, Typed, EnginesTyped, RoundsTyped
  <2>2. Clean(NewEngine, "idle", NoBlock)
    BY Zenon DEF NewEngine, NewSlot
  <2> HIDE DEF Clean
  <2> QED BY Zenon, <1>1, <2>1, <2>2, IdleTyped
<1>8. ASSUME NEW r \in reqs, CastVote(r)
      PROVE  \A m \in Nodes : Clean(engine'[m], prod'[m].at, prod'[m].blk)
  <2> DEFINE v == r.to
             b == r.blk
             e == RecordProposal(engine[v], b)
  <2>t. /\ engine \in [Nodes -> Slots] /\ prod \in [Nodes -> Round]
        /\ b \in Block /\ v \in Nodes /\ b.height \in 1..MaxHeight /\ b.proposer \in Nodes
        /\ \A m \in Nodes : prod[m].at = "collect" =>
              prod[m].blk \in Block /\ prod[m].blk.height \in 1..MaxHeight
    BY Zenon DEF Typed, EnginesTyped, RoundsTyped, Round, RequestsTyped, Request, Proposed
  <2>1. /\ engine' = [engine EXCEPT ![v] = e]
        /\ \/ prod' = prod
           \/ prod' = [prod EXCEPT ![b.proposer] = [prod[b.proposer] EXCEPT !.got = @ \cup {v}]]
    BY Zenon, <1>8 DEF CastVote, PostVote, AnswerVote
  <2>2. \A m \in Nodes : prod'[m].at = prod[m].at /\ prod'[m].blk = prod[m].blk
    BY SMTT(30), <2>1, <2>t DEF Round
  <2> HIDE DEF v, b
  <2>3. /\ \A h \in 1..MaxHeight : e[h].flagged = engine[v][h].flagged
        /\ \A h \in 1..MaxHeight : \A w \in Nodes :
              e[h].voted[w] \in {0, engine[v][h].voted[w]}
    <3>1. engine[v] \in Slots
      BY Zenon, <2>t
    <3>2. /\ \A h \in 1..MaxHeight : h # b.height => e[h] = engine[v][h]
          /\ e[b.height].flagged = engine[v][b.height].flagged
          /\ \A w \in Nodes : e[b.height].voted[w] = 0
      BY SMTT(30), <2>t, <3>1, RecordProposalTyped
    <3> HIDE DEF e
    <3> QED BY Zenon, <3>2
  <2> HIDE DEF e
  <2>4. Clean(e, prod[v].at, prod[v].blk)
    BY SMTT(30), <1>1, <2>3, <2>t
  <2>5. \A m \in Nodes : Clean(engine'[m], prod[m].at, prod[m].blk)
    <3> HIDE DEF Clean
    <3> QED BY Zenon, <1>1, <2>1, <2>4, <2>t
  <2> HIDE DEF Clean
  <2> QED BY Zenon, <2>2, <2>5
<1> HIDE DEF Clean
<1> QED BY Zenon, <1>3, <1>4, <1>5, <1>6, <1>7, <1>8, StepCases

-----------------------------------------------------------------------------
\* What applyPeerBlock makes of the chain when it takes the pushed block q.
Delivered(q, c) ==
    /\ c \in Seq(Entry)
    /\ \A i \in 1..Len(c) : \/ i <= Height(q.to) /\ c[i] = chain[q.to][i]
                            \/ c[i] = [blk |-> q.blk, sigs |-> q.sigs]
    /\ AtItsHeight(chain[q.to]) => AtItsHeight(c)
    /\ Linked(chain[q.to]) => Linked(c)
    /\ \/ /\ Extends(q.to, q.blk)
          /\ c = Append(chain[q.to], [blk |-> q.blk, sigs |-> q.sigs])
       \/ \E i \in 1..Height(q.to) :
             i = q.blk.height /\ i = Len(c) /\ chain[q.to][i].blk.id # q.blk.id

\* A pushed block is dropped, appended, or put in the place of a tail.
LEMMA Delivering ==
    ASSUME Typed, NEW q \in pushes, DeliverPush(q)
    PROVE  \/ KeepChain
           \/ \E c, b : /\ Delivered(q, c) /\ b \in {bal[q.to], BaseBal}
                        /\ Adopt(q.to, c, b)
<1> DEFINE n == q.to
           h == q.blk.height
           x == [blk |-> q.blk, sigs |-> q.sigs]
<1>1. /\ n \in Nodes /\ h \in Nat /\ h >= 1 /\ x \in Entry /\ x.blk.height = h
      /\ chain[n] \in Seq(Entry) /\ Height(n) \in Nat /\ Height(n) = Len(chain[n])
  <2>1. q \in Pushed /\ Proposed(q.blk)
    BY Zenon DEF Typed, PushesTyped
  <2>2. MaxHeight \in Nat
    BY Zenon, DeploymentTyped DEF Typed
  <2>3. n \in Nodes /\ q.blk \in Block /\ q.sigs \in SUBSET Nodes
    BY Zenon, <2>1 DEF Pushed
  <2>4. x \in Entry /\ x.blk.height = h
    BY Zenon, <2>3 DEF Entry
  <2>5. h \in Nat /\ h >= 1
    BY SMTT(30), <2>1, <2>2 DEF Proposed
  <2>6. chain[n] \in Seq(Entry)
    BY Zenon, <2>3 DEF Typed, ChainsTyped
  <2> QED BY Zenon, <2>3, <2>4, <2>5, <2>6, TipTyped DEF Height
<1>2. \/ KeepChain
      \/ ValidBlock(n, x) /\ Adopt(n, Append(chain[n], x), bal[n])
      \/ /\ h <= Height(n) /\ chain[n][h].blk.id # q.blk.id
         /\ TryReorg(n, h, <<x>>)
         /\ Adopt(n, Append(SubSeq(chain[n], 1, h - 1), x), BaseBal)
  BY SMTT(30), <1>1 DEF DeliverPush
<1> HIDE DEF n, h, x
<1>3. ASSUME ValidBlock(n, x), Adopt(n, Append(chain[n], x), bal[n])
      PROVE  Delivered(q, Append(chain[n], x))
  <2> DEFINE c == Append(chain[n], x)
  <2>1. /\ c \in Seq(Entry) /\ Len(c) = Height(n) + 1 /\ c[Len(c)] = x
        /\ \A i \in 1..Height(n) : c[i] = chain[n][i]
    BY SMTT(30), <1>1
  <2>2. Extends(n, x.blk) /\ h = Height(n) + 1
    BY Zenon, <1>1, <1>3 DEF ValidBlock, Extends
  <2>3. x.blk = q.blk
    BY Zenon DEF x
  <2>4. \A i \in 1..Len(c) : i <= Height(n) \/ i = Len(c)
    BY SMTT(30), <1>1, <2>1
  <2> HIDE DEF c
  <2>5. AtItsHeight(chain[n]) => AtItsHeight(c)
    BY SMTT(30), <1>1, <2>1, <2>2, <2>4 DEF AtItsHeight
  <2>6. \A i \in 1..Len(c) : (i <= Height(n) /\ c[i] = chain[n][i]) \/ c[i] = x
    BY SMTT(30), <1>1, <2>1, <2>4
  <2>7. Linked(chain[n]) => Linked(c)
    <3>1. x.blk.parent = TipId(chain[n])
      BY Zenon, <2>2 DEF Extends
    <3>2. /\ Len(c) >= Len(chain[n]) /\ Len(c) = Len(chain[n]) + 1
          /\ \A i \in 1..Len(c) : i > Len(chain[n]) => i = Len(c)
      BY SMTT(30), <1>1, <2>1, <2>4
    <3> QED BY Zenon, <1>1, <2>1, <3>1, <3>2, LongerLinks
  <2> QED BY Zenon, <2>1, <2>2, <2>3, <2>5, <2>6, <2>7 DEF Delivered, n, x, c
<1>4. ASSUME h <= Height(n), chain[n][h].blk.id # q.blk.id, TryReorg(n, h, <<x>>)
      PROVE  Delivered(q, Append(SubSeq(chain[n], 1, h - 1), x))
  <2> DEFINE d == SubSeq(chain[n], 1, h - 1)
             c == Append(d, x)
  <2>1. d \in Seq(Entry) /\ Len(d) = h - 1 /\ \A i \in 1..h - 1 : d[i] = chain[n][i]
    BY SMTT(30), <1>1, <1>4
  <2>8. Replays(d \o <<x>>)
    BY Zenon, <1>4 DEF TryReorg
  <2> HIDE DEF d
  <2>9. d \o <<x>> = c
    BY SMTT(30), <1>1, <2>1
  <2>2. /\ c \in Seq(Entry) /\ Len(c) = h /\ c[h] = x
        /\ \A i \in 1..h - 1 : c[i] = chain[n][i]
    BY SMTT(30), <1>1, <2>1
  <2>4. \A i \in 1..h : i \in 1..h - 1 \/ i = h
    BY SMTT(30), <1>1
  <2> HIDE DEF c
  <2>10. Linked(c)
    BY Zenon, <2>2, <2>8, <2>9, ReplayLinks
  <2>5. AtItsHeight(chain[n]) => AtItsHeight(c)
    BY SMTT(30), <1>1, <1>4, <2>2, <2>4 DEF AtItsHeight
  <2>6. \A i \in 1..Len(c) : (i <= Height(n) /\ c[i] = chain[n][i]) \/ c[i] = x
    BY SMTT(30), <1>1, <1>4, <2>2, <2>4
  <2>7. h \in 1..Height(n)
    BY SMTT(30), <1>1, <1>4
  <2> QED BY Zenon, <1>4, <2>2, <2>5, <2>6, <2>7, <2>10 DEF Delivered, n, x, c, d, h
<1> QED BY Zenon, <1>2, <1>3, <1>4 DEF n

-----------------------------------------------------------------------------
RosterTyped == Typed /\ VoteMemory

\* Every reachable state of the roster is typed, and no round counts votes
\* for two candidates.
THEOREM RosterTypeCorrect == Spec => []RosterTyped
<1>1. Init => RosterTyped
  <2> SUFFICES ASSUME Init PROVE RosterTyped
    BY Zenon
  <2>1. Typed
    BY Zenon, TypedInit
  <2>2. VoteMemory
    BY Zenon, IdleTyped DEF Init, VoteMemory, NewEngine, NewSlot
  <2> QED BY Zenon, <2>1, <2>2 DEF RosterTyped
<1>2. RosterTyped /\ [Next]_vars => RosterTyped'
  BY Zenon, TypedNext, VoteMemoryNext DEF RosterTyped
<1> QED BY <1>1, <1>2, PTL DEF Spec

-----------------------------------------------------------------------------

\* Somewhere there is an approval of b signed by v, or a place that counts one.
SignedInChains(v, b) ==
    \E n \in Nodes : \E i \in 1..Len(chain[n]) :
        b = chain[n][i].blk /\ v \in chain[n][i].sigs
SignedInRounds(v, b) ==
    \E n \in Nodes : b = prod[n].blk /\ v \in prod[n].got \cup prod[n].sigs
CountedInEngines(v, b) ==
    \E n \in Nodes : \E h \in 1..MaxHeight :
        b = engine[n][h].cand /\ v \in engine[n][h].votes
SignedInMessages(v, b) ==
    \/ \E q \in pushes : b = q.blk /\ v \in q.sigs
    \/ \E w \in mail : b = w.blk /\ v = w.from
Approved(v, b) ==
    \/ SignedInChains(v, b) \/ SignedInRounds(v, b)
    \/ CountedInEngines(v, b) \/ SignedInMessages(v, b)

\* The lock of v is on b's proposer at b's height, or at a later height.
Remembers(v, b) ==
    \/ lock[v].height > b.height
    \/ lock[v].height = b.height /\ lock[v].proposer = b.proposer

\* A voter remembers its latest approval, and gave no two proposers one at
\* the same height.
LockInv ==
    LockOn /\ Silent = {} /\ Len(Fleet) < 2 /\ expiries = 0 /\ crashes = 0 =>
        \A v \in Nodes, b \in Block : Approved(v, b) /\ v # b.proposer =>
            /\ b.proposer # 0 /\ Remembers(v, b)
            /\ \A c \in Block : Approved(v, c) /\ v # c.proposer
                                /\ c.height = b.height => c.proposer = b.proposer

-----------------------------------------------------------------------------
\* What a step leaves alone mentions no other block than before.
LEMMA MentionsLeft ==
    ASSUME dep' = dep, NEW b
    PROVE  /\ chain' = chain /\ InChains(b)' => InChains(b)
           /\ saved' = saved /\ InStores(b)' => InStores(b)
           /\ engine' = engine /\ InEngines(b)' => InEngines(b)
           /\ prod' = prod /\ InRounds(b)' => InRounds(b)
           /\ /\ \A r \in reqs' : \E s \in reqs : s.blk = r.blk
              /\ pushes' \subseteq pushes /\ mail' \subseteq mail
              /\ InMessages(b)'
              => InMessages(b)
BY Zenon DEF InChains, InStores, InEngines, InRounds, InMessages, MaxHeight

\* A chain a node adopts, made of entries b is mentioned with.
LEMMA MentionsAdopted ==
    ASSUME Typed, dep' = dep, NEW b, NEW n \in Nodes, NEW c, NEW x, Adopt(n, c, x),
           \A i \in 1..Len(c) : b = c[i].blk => Mentioned(b),
           InChains(b)' \/ InStores(b)'
    PROVE  Mentioned(b)
<1>1. chain' = [chain EXCEPT ![n] = c] /\ saved' = [saved EXCEPT ![n] = [chain |-> c, bal |-> x]]
  BY Zenon DEF Adopt
<1>2. InChains(b) \/ InStores(b) \/ \E i \in 1..Len(c) : b = c[i].blk
  BY Zenon, <1>1 DEF InChains, InStores, Typed, ChainsTyped
<1> QED BY Zenon, <1>2 DEF Mentioned

\* Votes for b change the slot of its height only.
LEMMA OnVotesElsewhere ==
    ASSUME NEW e \in Slots, NEW b \in Block, b.height \in 1..MaxHeight,
           NEW V, V \subseteq Nodes, NEW h \in 1..MaxHeight, h # b.height
    PROVE  OnVotes(e, V, b)[h] = e[h]
  BY SMTT(30), OnVotesTyped

\* Votes for the candidate are counted.
LEMMA OnVotesCounted ==
    ASSUME NEW e \in Slots, NEW b \in Block, b.height \in 1..MaxHeight,
           NEW V, V \subseteq Nodes
    PROVE  e[b.height].cand.id = b.id =>
              OnVotes(e, V, b)[b.height].votes = e[b.height].votes \cup V
  BY Zenon, OnVotesTyped

\* Votes for another block are not.
LEMMA OnVotesRefused ==
    ASSUME NEW e \in Slots, NEW b \in Block, b.height \in 1..MaxHeight,
           NEW V, V \subseteq Nodes
    PROVE  e[b.height].cand.id # b.id =>
              OnVotes(e, V, b)[b.height].votes = e[b.height].votes
  BY SMTT(30), OnVotesTyped

\* Counting votes changes no candidate.
LEMMA SameCandidates ==
    ASSUME NEW e \in Slots, NEW b \in Block, b.height \in 1..MaxHeight,
           NEW V, V \subseteq Nodes
    PROVE  \A h \in 1..MaxHeight : OnVotes(e, V, b)[h].cand = e[h].cand
<1>1. /\ \A h \in 1..MaxHeight : h # b.height => OnVotes(e, V, b)[h] = e[h]
      /\ OnVotes(e, V, b)[b.height].cand = e[b.height].cand
  BY SMTT(30), OnVotesTyped
<1> QED BY Zenon, <1>1

\* A step of a producer's round other than the first makes up no block.
LEMMA MentionsOfRounds ==
    ASSUME Typed, NEW n \in Nodes, NEW b, Mentioned(b)',
           PollVotes(n) \/ CloseRound(n) \/ Seal(n) \/ FinalizeBlock(n)
           \/ SaveFinalized(n) \/ Push(n)
    PROVE  Mentioned(b) \/ b = NoBlock
<1>0. /\ prod \in [Nodes -> Round] /\ engine \in [Nodes -> Slots] /\ dep' = dep
      /\ prod[n] \in Round /\ chain[n] \in Seq(Entry)
      /\ chain \in [Nodes -> Seq(Entry)]
  BY Zenon DEF Typed, RoundsTyped, EnginesTyped, ChainsTyped, PollVotes, CloseRound, Seal,
     FinalizeBlock, SaveFinalized, Push, UnchangedFaults
<1>1. ASSUME InRounds(b)' PROVE InRounds(b) \/ b = NoBlock
  <2>1. prod'[n].blk \in {prod[n].blk, NoBlock} /\ \A m \in Nodes \ {n} : prod'[m] = prod[m]
    <3>1. CASE PollVotes(n) \/ CloseRound(n)
      <4>1. CASE PollVotes(n)
        <5>1. PICK g : prod' = [prod EXCEPT ![n] = [prod[n] EXCEPT !.got = g]]
          BY Zenon, <1>0, <4>1 DEF PollVotes
        <5>2. [prod[n] EXCEPT !.got = g].blk = prod[n].blk
          BY Zenon, <1>0 DEF Round
        <5> QED BY Zenon, <1>0, <5>1, <5>2
      <4>2. CASE CloseRound(n)
        <5>1. PICK y \in {Idle, [prod[n] EXCEPT !.at = "certified"]} :
                 prod' = [prod EXCEPT ![n] = y]
          BY Zenon, <4>2 DEF CloseRound
        <5>2. y.blk \in {prod[n].blk, NoBlock}
          BY Zenon, <1>0, <5>1, IdleTyped DEF Round
        <5> QED BY Zenon, <1>0, <5>1, <5>2
      <4> QED BY Zenon, <3>1, <4>1, <4>2
    <3>2. CASE Seal(n)
      <4>1. PICK y \in {Idle, [prod[n] EXCEPT !.at = "finalized",
                                           !.sigs = chain[n][Height(n)].sigs],
                       [prod[n] EXCEPT !.at = "sealed",
                                       !.sigs = engine[n][prod[n].blk.height].votes]} :
               prod' = [prod EXCEPT ![n] = y]
        BY Zenon, <3>2 DEF Seal
      <4>2. y.blk \in {prod[n].blk, NoBlock}
        BY Zenon, <1>0, <4>1, IdleTyped DEF Round
      <4> QED BY Zenon, <1>0, <4>1, <4>2
    <3>3. CASE FinalizeBlock(n)
      BY SMTT(30), <1>0, <3>3, IdleTyped DEF FinalizeBlock, Round
    <3>4. CASE SaveFinalized(n) \/ Push(n)
      BY SMTT(30), <1>0, <3>4, IdleTyped DEF SaveFinalized, Push, Round
    <3> QED BY ZenonT(40), <3>1, <3>2, <3>3, <3>4
  <2> QED BY Zenon, <1>1, <2>1 DEF InRounds
<1>2. ASSUME InEngines(b)' PROVE InEngines(b)
  <2>1. CASE engine' = engine
    BY Zenon, <1>0, <1>2, <2>1, MentionsLeft
  <2>2. CASE CloseRound(n)
    <3> DEFINE c == prod[n].blk
               G == prod[n].got
    <3>1. c \in Block /\ c.height \in 1..MaxHeight /\ G \subseteq Nodes
      BY Zenon, <2>2 DEF CloseRound, Typed, RoundsTyped, Round, Proposed
    <3>2. engine' = [engine EXCEPT ![n] = OnVotes(engine[n], G, c)]
      BY Zenon, <2>2 DEF CloseRound, HandleVotes
    <3>4. engine[n] \in Slots
      BY Zenon, <1>0
    <3> HIDE DEF c, G
    <3>3. \A h \in 1..MaxHeight : OnVotes(engine[n], G, c)[h].cand = engine[n][h].cand
      BY SMTT(30), <3>1, <3>4, SameCandidates
    <3>5. InEngines(b) \/ \E h \in 1..MaxHeight : b = OnVotes(engine[n], G, c)[h].cand
      BY Zenon, <1>0, <1>2, <3>2 DEF InEngines, MaxHeight
    <3> QED BY Zenon, <3>3, <3>5 DEF InEngines
  <2> QED BY Zenon, <2>1, <2>2 DEF PollVotes, Seal, FinalizeBlock, SaveFinalized, Push
<1>3. ASSUME InChains(b)' PROVE Mentioned(b)
  <2>1. CASE chain' = chain
    BY Zenon, <1>0, <1>3, <2>1, MentionsLeft DEF Mentioned
  <2>2. ASSUME NEW x, x = [blk |-> prod[n].blk, sigs |-> prod[n].sigs],
               chain' = [chain EXCEPT ![n] = Append(chain[n], x)]
        PROVE  Mentioned(b)
    <3> DEFINE c == Append(chain[n], x)
    <3>1. InChains(b) \/ \E i \in 1..Len(c) : b = c[i].blk
      BY Zenon, <1>0, <1>3, <2>2 DEF InChains
    <3>2. x \in Entry
      BY Zenon, <1>0, <2>2 DEF Entry, Round
    <3>3. \A i \in 1..Len(c) : c[i] = x \/ (i \in 1..Len(chain[n]) /\ c[i] = chain[n][i])
      BY SMTT(30), <1>0, <3>2
    <3> HIDE DEF c
    <3> QED BY SMTT(30), <2>2, <3>1, <3>3 DEF Mentioned, InChains, InRounds
  <2> QED BY Zenon, <2>1, <2>2 DEF PollVotes, CloseRound, Seal, FinalizeBlock, SaveFinalized, Push, KeepChain
<1>4. ASSUME InStores(b)' PROVE Mentioned(b)
  <2>1. CASE saved' = saved
    BY Zenon, <1>0, <1>4, <2>1, MentionsLeft DEF Mentioned
  <2>2. CASE saved' = [saved EXCEPT ![n] = [chain |-> chain[n], bal |-> bal[n]]]
    <3>1. InStores(b) \/ \E i \in 1..Len(chain[n]) : b = chain[n][i].blk
      BY Zenon, <1>0, <1>4, <2>2 DEF InStores, Typed, ChainsTyped
    <3> QED BY Zenon, <3>1 DEF Mentioned, InChains
  <2> QED BY Zenon, <2>1, <2>2 DEF PollVotes, CloseRound, Seal, FinalizeBlock, SaveFinalized, Push, KeepChain
<1>5. ASSUME InMessages(b)' PROVE InMessages(b) \/ InRounds(b)
  <2>1. /\ reqs' \subseteq reqs /\ mail' \subseteq mail
        /\ \A q \in pushes' : q \in pushes \/ q.blk = prod[n].blk
    <3>1. CASE PollVotes(n)
      BY Zenon, <3>1 DEF PollVotes, Pulled
    <3>2. CASE Push(n)
      BY SMTT(30), <3>2 DEF Push
    <3>3. CASE CloseRound(n) \/ Seal(n) \/ FinalizeBlock(n) \/ SaveFinalized(n)
      <4>1. reqs' = reqs /\ mail' = mail /\ pushes' = pushes
        BY Zenon, <3>3 DEF CloseRound, Seal, FinalizeBlock, SaveFinalized
      <4> QED BY Zenon, <4>1
    <3> QED BY Zenon, <3>1, <3>2, <3>3
  <2> QED BY Zenon, <1>5, <2>1 DEF InMessages, InRounds
<1> QED BY Zenon, <1>1, <1>2, <1>3, <1>4, <1>5 DEF Mentioned

\* RecordProposal leaves the slots of other heights alone.
LEMMA RecordedOthers ==
    ASSUME NEW e \in Slots, NEW b \in Block, b.height \in 1..MaxHeight
    PROVE  \A h \in 1..MaxHeight : h # b.height => RecordProposal(e, b)[h] = e[h]
  BY SMTT(30), RecordProposalTyped

\* RecordProposal makes b the candidate of its height, without a vote.
LEMMA RecordedThere ==
    ASSUME NEW e \in Slots, NEW b \in Block, b.height \in 1..MaxHeight
    PROVE  /\ RecordProposal(e, b) \in Slots
           /\ RecordProposal(e, b)[b.height].cand = b
           /\ RecordProposal(e, b)[b.height].votes = {}
  BY Zenon, RecordProposalTyped

\* RecordProposal makes b a candidate and keeps the others.
LEMMA RecordedCandidates ==
    ASSUME NEW e \in Slots, NEW b \in Block, b.height \in 1..MaxHeight
    PROVE  \A h \in 1..MaxHeight : RecordProposal(e, b)[h].cand \in {e[h].cand, b}
<1> DEFINE r == RecordProposal(e, b)
<1>1. r[b.height].cand = b
  BY ZenonT(40), RecordProposalTyped
<1>2. \A h \in 1..MaxHeight : h # b.height => r[h] = e[h]
  BY Zenon, RecordedOthers
<1> HIDE DEF r
<1>3. \A h \in 1..MaxHeight : r[h].cand \in {e[h].cand, b}
  BY Zenon, <1>1, <1>2
<1> QED BY Zenon, <1>3 DEF r

\* A producer's new candidate is the only block a step makes up.
LEMMA MentionsOfProposals ==
    ASSUME Typed, NEW n \in Nodes, Propose(n) \/ FleetSign(n)
    PROVE  \E x \in Block : /\ x.id = Fresh
                            /\ \A b : Mentioned(b)' => Mentioned(b) \/ b = x
<1>0. /\ prod \in [Nodes -> Round] /\ engine \in [Nodes -> Slots] /\ dep' = dep
      /\ engine[n] \in Slots /\ FreshIds # {} /\ Height(n) < MaxHeight
      /\ chain' = chain /\ saved' = saved /\ pushes' = pushes /\ mail' = mail
  BY Zenon DEF Typed, RoundsTyped, EnginesTyped, Propose, FleetSign, Tick, UnchangedFaults
<1>1. /\ BuildBlock(n) \in Block /\ BuildBlock(n).height \in 1..MaxHeight
      /\ BuildBlock(n).id = Fresh
  <2>1. Height(n) \in Nat /\ MaxHeight \in Nat
    BY Zenon, TipTyped, DeploymentTyped DEF Height, Typed, ChainsTyped
  <2> QED BY SMTT(30), <1>0, <2>1, Built DEF Extends
<1>2. CASE Propose(n)
  <2> DEFINE x == BuildBlock(n)
             V == {n}
             e == OnVotes(RecordProposal(engine[n], x), V, x)
  <2>1. /\ engine' = [engine EXCEPT ![n] = e]
        /\ prod' = [prod EXCEPT ![n] = [Idle EXCEPT !.at = "collect", !.blk = x]]
        /\ reqs' = reqs \cup {[to |-> m, blk |-> x,
                               at |-> IF m \in Relay THEN "mail" ELSE "sent"] :
                                  m \in Nodes \ {n}}
    BY Zenon, <1>2 DEF Propose, HandleVotes
  <2>2. [Idle EXCEPT !.at = "collect", !.blk = x].blk = x
    BY Zenon, IdleTyped DEF Round
  <2>3. /\ RecordProposal(engine[n], x) \in Slots
        /\ RecordProposal(engine[n], x)[x.height].cand = x
        /\ \A h \in 1..MaxHeight : h # x.height =>
              RecordProposal(engine[n], x)[h] = engine[n][h]
    <3>1. RecordProposal(engine[n], x) \in Slots /\ RecordProposal(engine[n], x)[x.height].cand = x
      BY ZenonT(40), <1>0, <1>1, RecordProposalTyped
    <3>2. \A h \in 1..MaxHeight : h # x.height =>
             RecordProposal(engine[n], x)[h] = engine[n][h]
      BY Zenon, <1>0, <1>1, RecordedOthers
    <3> QED BY Zenon, <3>1, <3>2
  <2>4. V \subseteq Nodes
    BY Zenon
  <2> HIDE DEF x, V
  <2>5. \A h \in 1..MaxHeight : e[h].cand = RecordProposal(engine[n], x)[h].cand
    BY ZenonT(40), <1>1, <2>3, <2>4, SameCandidates DEF x
  <2>6. \A h \in 1..MaxHeight : e[h].cand \in {engine[n][h].cand, x}
    BY Zenon, <2>3, <2>5
  <2> HIDE DEF e
  <2>7. ASSUME NEW b, Mentioned(b)' PROVE Mentioned(b) \/ b = x
    <3>1. InEngines(b)' => InEngines(b) \/ b = x
      BY Zenon, <1>0, <2>1, <2>6 DEF InEngines, MaxHeight
    <3>2. InRounds(b)' => InRounds(b) \/ b = x
      BY Zenon, <1>0, <2>1, <2>2 DEF InRounds
    <3>3. InMessages(b)' => InMessages(b) \/ b = x
      BY SMTT(30), <1>0, <2>1 DEF InMessages
    <3>4. (InChains(b)' => InChains(b)) /\ (InStores(b)' => InStores(b))
      BY Zenon, <1>0, MentionsLeft
    <3> QED BY Zenon, <2>7, <3>1, <3>2, <3>3, <3>4 DEF Mentioned
  <2> QED BY Zenon, <1>1, <2>7 DEF x
<1>3. CASE FleetSign(n)
  <2> DEFINE x == [BuildBlock(n) EXCEPT !.proposer = Fleet[1 + (Height(n) % Len(Fleet))]]
             V == Range(Fleet)
             e == OnVotes(engine[n], V, x)
             y == [at |-> "sealed", blk |-> x, got |-> {}, sigs |-> V]
  <2>1. /\ engine' = [engine EXCEPT ![n] = e]
        /\ prod' = [prod EXCEPT ![n] = y]
        /\ reqs' = reqs /\ Len(Fleet) >= 2
    BY Zenon, <1>3 DEF FleetSign, HandleVotes
  <2>0. Fleet \in Seq(Nodes)
    BY Zenon, DeploymentTyped DEF Typed
  <2>2. x \in Block /\ x.id = Fresh /\ x.height \in 1..MaxHeight
    <3>1. 1 + (Height(n) % Len(Fleet)) \in 1..Len(Fleet)
      <4>1. Height(n) \in Nat
        BY Zenon, TipTyped DEF Height, Typed, ChainsTyped
      <4>2. Len(Fleet) \in Nat /\ Len(Fleet) > 0
        BY SMTT(30), <2>0, <2>1
      <4> QED BY Zenon, <4>1, <4>2, TurnTyped
    <3>2. Fleet[1 + (Height(n) % Len(Fleet))] \in Nat
      BY SMTT(30), <2>0, <3>1, NAssumption DEF Nodes
    <3> QED BY Zenon, <1>1, <3>2 DEF Block
  <2>3. V \subseteq Nodes
    BY SMTT(30), <2>0 DEF Range
  <2>4. y.blk = x
    BY Zenon
  <2> HIDE DEF x, V, y
  <2>5. \A h \in 1..MaxHeight : e[h].cand = engine[n][h].cand
    BY SMTT(30), <1>0, <2>2, <2>3, SameCandidates
  <2> HIDE DEF e
  <2>7. ASSUME NEW b, Mentioned(b)' PROVE Mentioned(b) \/ b = x
    <3>1. InEngines(b)' => InEngines(b)
      BY Zenon, <1>0, <2>1, <2>5 DEF InEngines, MaxHeight
    <3>2. InRounds(b)' => InRounds(b) \/ b = x
      BY Zenon, <1>0, <2>1, <2>4 DEF InRounds
    <3>4. /\ InChains(b)' => InChains(b)
          /\ InStores(b)' => InStores(b)
          /\ InMessages(b)' => InMessages(b)
      BY Zenon, <1>0, <2>1, MentionsLeft
    <3> QED BY Zenon, <2>7, <3>1, <3>2, <3>4 DEF Mentioned
  <2> QED BY Zenon, <2>2, <2>7
<1> QED BY Zenon, <1>2, <1>3

\* The steps of voters and followers, crashes and losses make up no block.
LEMMA MentionsOfOthers ==
    ASSUME Typed, NEW b, Mentioned(b)',
           \/ \E n \in Nodes : Crash(n) \/ Fetch(n) \/ \E m \in Nodes : CatchUpOnce(n, m)
           \/ \E r \in reqs : \/ CheckHeight(r) \/ ValidateProposal(r) \/ RefuseVote(r)
                              \/ CastVote(r) \/ SilentVote(r) \/ LoseRequest(r)
           \/ \E v \in mail : LoseVote(v)
           \/ \E q \in pushes : DeliverPush(q) \/ LosePush(q)
           \/ UNCHANGED vars
    PROVE  Mentioned(b) \/ b = NoBlock
<1>0. dep' = dep
  BY ZenonT(40) DEF Crash, Fetch, CatchUpOnce, CheckHeight, ValidateProposal, RefuseVote, CastVote,
     SilentVote, LoseRequest, LoseVote, DeliverPush, LosePush, UnchangedFaults, vars
<1>1. ASSUME chain' = chain, saved' = saved, engine' = engine, prod' = prod,
             \A r \in reqs' : \E s \in reqs : s.blk = r.blk,
             pushes' \subseteq pushes, mail' \subseteq mail
      PROVE  Mentioned(b)
  BY Zenon, <1>0, <1>1, MentionsLeft DEF Mentioned
<1>2. ASSUME NEW n \in Nodes, Fetch(n) PROVE Mentioned(b)
  <2>1. \A r \in reqs : [r EXCEPT !.at = IF r.to = n /\ @ = "mail" THEN "sent" ELSE @].blk = r.blk
    BY Zenon DEF Typed, RequestsTyped, Request
  <2>2. \A r \in reqs' : \E s \in reqs : s.blk = r.blk
    BY ZenonT(40), <1>2, <2>1 DEF Fetch
  <2> QED BY Zenon, <1>1, <1>2, <2>2 DEF Fetch, KeepChain, Pulled
<1>3. ASSUME NEW r \in reqs, CheckHeight(r) \/ ValidateProposal(r) PROVE Mentioned(b)
  <2>1. \A at : [r EXCEPT !.at = at].blk = r.blk
    BY Zenon DEF Typed, RequestsTyped, Request
  <2>2. \A s \in reqs' : s \in reqs \/ s.blk = r.blk
    BY ZenonT(40), <1>3, <2>1 DEF CheckHeight, ValidateProposal, Moved
  <2> QED BY Zenon, <1>1, <1>3, <2>2 DEF CheckHeight, ValidateProposal, KeepChain
<1>4. ASSUME \/ \E r \in reqs : RefuseVote(r) \/ LoseRequest(r)
             \/ \E v \in mail : LoseVote(v)
             \/ \E q \in pushes : LosePush(q)
             \/ UNCHANGED vars
      PROVE  Mentioned(b)
  BY Zenon, <1>1, <1>4 DEF RefuseVote, LoseRequest, LoseVote, LosePush, KeepChain, vars
<1>5. ASSUME NEW n \in Nodes, Crash(n) PROVE Mentioned(b) \/ b = NoBlock
  <2>1. InEngines(b)' => InEngines(b) \/ b = NoBlock
    BY Zenon, <1>0, <1>5 DEF Crash, InEngines, Typed, EnginesTyped, NewEngine, NewSlot, MaxHeight
  <2>2. InRounds(b)' => InRounds(b) \/ b = NoBlock
    BY Zenon, <1>5, IdleTyped DEF Crash, InRounds, Typed, RoundsTyped
  <2>3. InChains(b)' => InChains(b) \/ InStores(b)
    BY Zenon, <1>5 DEF Crash, InChains, InStores, Typed, ChainsTyped
  <2>4. (InStores(b)' => InStores(b)) /\ (InMessages(b)' => InMessages(b))
    BY Zenon, <1>0, <1>5, MentionsLeft DEF Crash
  <2> QED BY Zenon, <2>1, <2>2, <2>3, <2>4 DEF Mentioned
<1>6. ASSUME NEW n \in Nodes, NEW m \in Nodes, CatchUpOnce(n, m) PROVE Mentioned(b)
  <2>1. PICK c, x : CaughtUp(n, m, c) /\ Adopt(n, c, x)
    BY Zenon, <1>6, CatchingUp
  <2>2. \A i \in 1..Len(c) : b = c[i].blk => InChains(b)
    <3>1. Len(c) \in Nat /\ Height(n) \in Nat /\ Height(m) \in Nat
      BY Zenon, <2>1, TipTyped DEF CaughtUp, Height, Typed, ChainsTyped
    <3>2. \A i \in 1..Len(c) : \/ i \in 1..Len(chain[n]) /\ c[i] = chain[n][i]
                               \/ i \in 1..Len(chain[m]) /\ c[i] = chain[m][i]
      BY SMTT(30), <2>1, <3>1 DEF CaughtUp, Height
    <3> QED BY Zenon, <3>2 DEF InChains
  <2>3. InChains(b)' \/ InStores(b)' => Mentioned(b)
    BY Zenon, <1>0, <2>1, <2>2, MentionsAdopted DEF Mentioned
  <2>4. InEngines(b)' \/ InRounds(b)' \/ InMessages(b)' => Mentioned(b)
    BY Zenon, <1>0, <1>6, MentionsLeft DEF CatchUpOnce, Mentioned
  <2> QED BY Zenon, <2>3, <2>4 DEF Mentioned
<1>7. ASSUME NEW q \in pushes, DeliverPush(q) PROVE Mentioned(b)
  <2>1. CASE KeepChain
    BY Zenon, <1>1, <1>7, <2>1 DEF DeliverPush, KeepChain
  <2>2. CASE \E c, x : Delivered(q, c) /\ Adopt(q.to, c, x)
    <3>1. PICK c, x : Delivered(q, c) /\ Adopt(q.to, c, x)
      BY Zenon, <2>2
    <3>2. q.to \in Nodes
      BY Zenon DEF Typed, PushesTyped, Pushed
    <3>3. \A i \in 1..Len(c) : b = c[i].blk => InChains(b) \/ InMessages(b)
      <4>1. Len(c) \in Nat /\ Height(q.to) \in Nat
        BY Zenon, <3>1, <3>2, TipTyped DEF Delivered, Height, Typed, ChainsTyped
      <4>2. \A i \in 1..Len(c) : \/ i \in 1..Len(chain[q.to]) /\ c[i] = chain[q.to][i]
                                 \/ c[i].blk = q.blk
        BY SMTT(30), <3>1, <4>1 DEF Delivered, Height
      <4> QED BY Zenon, <3>2, <4>2 DEF InChains, InMessages
    <3>4. InChains(b)' \/ InStores(b)' => Mentioned(b)
      BY Zenon, <1>0, <3>1, <3>2, <3>3, MentionsAdopted DEF Mentioned
    <3>5. InEngines(b)' \/ InRounds(b)' \/ InMessages(b)' => Mentioned(b)
      BY Zenon, <1>0, <1>7, MentionsLeft DEF DeliverPush, Mentioned
    <3> QED BY Zenon, <3>4, <3>5 DEF Mentioned
  <2> QED BY Zenon, <1>7, <2>1, <2>2, Delivering
<1>8. ASSUME NEW r \in reqs, CastVote(r) \/ SilentVote(r) PROVE Mentioned(b)
  <2> DEFINE v == r.to
             p == r.blk.proposer
  <2>1. /\ r.blk \in Block /\ r.blk.height \in 1..MaxHeight /\ v \in Nodes /\ p \in Nodes
        /\ engine \in [Nodes -> Slots] /\ engine[v] \in Slots /\ prod \in [Nodes -> Round]
    BY Zenon DEF Typed, RequestsTyped, Request, Proposed, EnginesTyped, RoundsTyped
  <2>2. InEngines(b)' => InEngines(b) \/ b = r.blk
    <3>1. CASE engine' = engine
      BY Zenon, <1>0, <3>1, MentionsLeft
    <3>2. CASE engine' = [engine EXCEPT ![v] = RecordProposal(engine[v], r.blk)]
      <4>1. \A h \in 1..MaxHeight :
               RecordProposal(engine[v], r.blk)[h].cand \in {engine[v][h].cand, r.blk}
        BY Zenon, <2>1, RecordedCandidates
      <4> HIDE DEF v
      <4> QED BY Zenon, <1>0, <2>1, <3>2, <4>1 DEF InEngines, MaxHeight
    <3> QED BY Zenon, <1>8, <3>1, <3>2 DEF CastVote, SilentVote
  <2>3. InRounds(b)' => InRounds(b)
    <3>1. prod' = prod \/ prod' = [prod EXCEPT ![p] = [prod[p] EXCEPT !.got = @ \cup {v}]]
      BY Zenon, <1>8 DEF CastVote, SilentVote, AnswerVote, PostVote
    <3>2. \A m \in Nodes : prod'[m].blk = prod[m].blk
      <4>1. prod[p] \in Round
        BY Zenon, <2>1
      <4>2. [prod[p] EXCEPT !.got = prod[p].got \cup {v}].blk = prod[p].blk
        BY Zenon, <4>1 DEF Round
      <4> HIDE DEF v, p
      <4> QED BY Zenon, <2>1, <3>1, <4>2
    <3> QED BY Zenon, <3>2 DEF InRounds
  <2>4. InMessages(b)' => InMessages(b)
    <3>1. /\ reqs' \subseteq reqs /\ pushes' = pushes
          /\ \A w \in mail' : w \in mail \/ w.blk = r.blk
      BY SMTT(30), <1>8 DEF CastVote, SilentVote, AnswerVote, PostVote, postVoteBack
    <3> QED BY Zenon, <3>1 DEF InMessages
  <2>5. (InChains(b)' => InChains(b)) /\ (InStores(b)' => InStores(b))
    BY Zenon, <1>0, <1>8, MentionsLeft DEF CastVote, SilentVote, KeepChain
  <2> QED BY Zenon, <2>2, <2>3, <2>4, <2>5 DEF Mentioned, InMessages
<1> QED BY Zenon, <1>2, <1>3, <1>4, <1>5, <1>6, <1>7, <1>8

\* Hashes identify blocks.
LEMMA HashesNext == Typed /\ OneBlockPerHash /\ [Next]_vars => OneBlockPerHash'
<1> SUFFICES ASSUME Typed, OneBlockPerHash, [Next]_vars PROVE OneBlockPerHash'
  BY Zenon
<1>0. Block' = Block /\ NoBlock' = NoBlock /\ NoBlock.id = 0
  BY Zenon DEF Block, Balances, NoBlock, BaseBal
<1>1. ASSUME NEW n \in Nodes, Propose(n) \/ FleetSign(n) PROVE OneBlockPerHash'
  <2>1. PICK x \in Block : /\ x.id = Fresh
                           /\ \A b : Mentioned(b)' => Mentioned(b) \/ b = x
    BY Zenon, <1>1, MentionsOfProposals
  <2>2. x.id > 0 /\ \A b : Mentioned(b) => b.id # x.id
    BY Zenon, <1>1, <2>1, Built, FreshIsNew DEF Propose, FleetSign, Tick, Typed
  <2> QED BY SMTT(30), <1>0, <2>1, <2>2 DEF OneBlockPerHash
<1>2. ASSUME \A b : Mentioned(b)' => Mentioned(b) \/ b = NoBlock PROVE OneBlockPerHash'
  BY Zenon, <1>0, <1>2 DEF OneBlockPerHash
<1>3. CASE Quiet
  BY Zenon, <1>2, <1>3, MentionsOfRounds, MentionsOfOthers DEF Quiet
<1>4. CASE \E n \in Nodes : CloseRound(n) \/ Crash(n)
  BY Zenon, <1>2, <1>4, MentionsOfRounds, MentionsOfOthers
<1>5. CASE \E r \in reqs : CastVote(r)
  BY Zenon, <1>2, <1>5, MentionsOfOthers
<1> QED BY Zenon, <1>1, <1>3, <1>4, <1>5, StepCases

-----------------------------------------------------------------------------
\* Blocks stay at their heights and on top of the blocks they name.
LEMMA HeightsNext == Typed /\ Heights /\ Links /\ [Next]_vars => Heights' /\ Links'
<1> SUFFICES ASSUME Typed, Heights, Links, [Next]_vars PROVE Heights' /\ Links'
  BY Zenon
<1> DEFINE Sound(c) == AtItsHeight(c) /\ Linked(c)
<1>0. /\ chain \in [Nodes -> Seq(Entry)] /\ saved \in [Nodes -> [chain : Seq(Entry), bal : Balances]]
      /\ \A n \in Nodes : Sound(chain[n]) /\ Sound(saved[n].chain)
  BY Zenon DEF Typed, ChainsTyped, Heights, Links
<1>1. CASE chain' = chain /\ saved' = saved
  BY Zenon, <1>0, <1>1 DEF Heights, Links
<1>2. ASSUME NEW n \in Nodes, NEW c, Sound(c), NEW x,
             \/ Adopt(n, c, x)
             \/ chain' = [chain EXCEPT ![n] = c] /\ saved' = saved
             \/ chain' = chain /\ saved' = [saved EXCEPT ![n] = [chain |-> c, bal |-> x]]
      PROVE  Heights' /\ Links'
  <2> HIDE DEF Sound
  <2>1. \A m \in Nodes : Sound(chain'[m]) /\ Sound(saved'[m].chain)
    BY SMTT(30), <1>0, <1>2 DEF Adopt
  <2> QED BY Zenon, <2>1 DEF Sound, Heights, Links
<1> HIDE DEF Sound
<1>3. ASSUME NEW n \in Nodes, FinalizeBlock(n) PROVE Heights' /\ Links'
  <2>1. CASE chain' = chain
    BY Zenon, <1>1, <1>3, <2>1 DEF FinalizeBlock
  <2> DEFINE x == [blk |-> prod[n].blk, sigs |-> prod[n].sigs]
             c == Append(chain[n], x)
  <2>2. CASE ValidBlock(n, x) /\ chain' = [chain EXCEPT ![n] = c]
    <3>1. x \in Entry /\ x.blk = prod[n].blk
      BY Zenon DEF Entry, Typed, RoundsTyped, Round
    <3>2. Len(chain[n]) \in Nat /\ x.blk.height = Len(chain[n]) + 1
      BY Zenon, <1>0, <2>2, TipTyped DEF ValidBlock, Extends, Height
    <3> HIDE DEF x
    <3>3. /\ Len(c) = Len(chain[n]) + 1 /\ c[Len(c)] = x
          /\ \A i \in 1..Len(chain[n]) : c[i] = chain[n][i]
      BY SMTT(30), <1>0, <3>1
    <3> HIDE DEF c
    <3>5. \A i \in 1..Len(c) : i \in 1..Len(chain[n]) \/ i = Len(c)
      BY SMTT(30), <3>2, <3>3
    <3>6. \A i \in 1..Len(chain[n]) : chain[n][i].blk.height = i
      BY Zenon, <1>0 DEF Sound, AtItsHeight
    <3>4. AtItsHeight(c)
      BY Zenon, <3>2, <3>3, <3>5, <3>6 DEF AtItsHeight
    <3>7. Linked(c)
      <4>1. /\ c \in Seq(Entry) /\ Len(c) >= Len(chain[n]) /\ Len(c) # Len(chain[n])
            /\ Len(c) > Len(chain[n])
        BY SMTT(30), <1>0, <3>1, <3>2, <3>3 DEF c
      <4>2. chain[n] \in Seq(Entry) /\ Linked(chain[n]) /\ x.blk.parent = TipId(chain[n])
        BY Zenon, <1>0, <2>2 DEF Sound, ValidBlock, Extends
      <4>3. \A h \in 1..Len(c) : h > Len(chain[n]) =>
               c[h].blk.parent = IF h = Len(chain[n]) + 1 THEN TipId(chain[n])
                                 ELSE c[h - 1].blk.id
        BY SMTT(30), <3>2, <3>3, <4>2
      <4> QED BY Zenon, <3>3, <4>1, <4>2, <4>3, LongerLinks
    <3> QED BY Zenon, <1>2, <1>3, <2>2, <3>4, <3>7 DEF FinalizeBlock, Sound
  <2> QED BY Zenon, <1>3, <2>1, <2>2 DEF FinalizeBlock
<1>4. ASSUME NEW n \in Nodes, SaveFinalized(n) PROVE Heights' /\ Links'
  BY Zenon, <1>0, <1>2, <1>4 DEF SaveFinalized
<1>5. ASSUME NEW n \in Nodes, Crash(n) PROVE Heights' /\ Links'
  BY Zenon, <1>0, <1>2, <1>5 DEF Crash
<1>6. ASSUME NEW n \in Nodes, NEW m \in Nodes, CatchUpOnce(n, m) PROVE Heights' /\ Links'
  BY Zenon, <1>0, <1>2, <1>6, CatchingUp DEF CaughtUp, Sound
<1>7. ASSUME NEW q \in pushes, DeliverPush(q) PROVE Heights' /\ Links'
  <2>1. q.to \in Nodes
    BY Zenon DEF Typed, PushesTyped, Pushed
  <2> QED BY Zenon, <1>0, <1>1, <1>2, <1>7, <2>1, Delivering DEF Delivered, KeepChain, Sound
<1>8. ASSUME \/ \E n \in Nodes : \/ Propose(n) \/ PollVotes(n) \/ CloseRound(n) \/ Seal(n)
                                 \/ FleetSign(n) \/ Push(n) \/ Fetch(n)
             \/ \E r \in reqs : \/ CheckHeight(r) \/ ValidateProposal(r) \/ RefuseVote(r)
                                \/ CastVote(r) \/ SilentVote(r) \/ LoseRequest(r)
             \/ \E v \in mail : LoseVote(v)
             \/ \E q \in pushes : LosePush(q)
             \/ UNCHANGED vars
      PROVE  Heights' /\ Links'
  BY ZenonT(40), <1>1, <1>8 DEF Propose, PollVotes, CloseRound, Seal, FleetSign, Push, Fetch,
     CheckHeight, ValidateProposal, RefuseVote, CastVote, SilentVote, LoseRequest,
     LoseVote, LosePush, KeepChain, vars
<1> QED BY Zenon, <1>3, <1>4, <1>5, <1>6, <1>7, <1>8, StepCases DEF Quiet

-----------------------------------------------------------------------------
\* What a step leaves alone holds no new approval.
LEMMA ApprovalsLeft ==
    ASSUME dep' = dep, NEW v, NEW b
    PROVE  /\ chain' = chain /\ SignedInChains(v, b)' => SignedInChains(v, b)
           /\ engine' = engine /\ CountedInEngines(v, b)' => CountedInEngines(v, b)
           /\ prod' = prod /\ SignedInRounds(v, b)' => SignedInRounds(v, b)
           /\ pushes' \subseteq pushes /\ mail' \subseteq mail /\ SignedInMessages(v, b)'
              => SignedInMessages(v, b)
BY Zenon DEF SignedInChains, CountedInEngines, SignedInRounds, SignedInMessages, MaxHeight

\* A producer's round collects approvals of its candidate and passes them on.
LEMMA ApprovalsOfRounds ==
    ASSUME Typed, OneBlockPerHash, NEW n \in Nodes, NEW v, NEW b, Approved(v, b)',
           PollVotes(n) \/ CloseRound(n) \/ Seal(n) \/ FinalizeBlock(n)
           \/ SaveFinalized(n) \/ Push(n)
    PROVE  Approved(v, b)
<1>0. /\ prod \in [Nodes -> Round] /\ engine \in [Nodes -> Slots] /\ dep' = dep
      /\ prod[n] \in Round /\ engine[n] \in Slots /\ chain[n] \in Seq(Entry)
      /\ chain \in [Nodes -> Seq(Entry)]
  BY Zenon DEF Typed, RoundsTyped, EnginesTyped, ChainsTyped, PollVotes, CloseRound, Seal,
     FinalizeBlock, SaveFinalized, Push, UnchangedFaults
<1>1. ASSUME NEW at, prod' = [prod EXCEPT ![n] = [prod[n] EXCEPT !.at = at]],
             SignedInRounds(v, b)'
      PROVE  SignedInRounds(v, b)
  <2>1. \A m \in Nodes : /\ prod'[m].blk = prod[m].blk /\ prod'[m].got = prod[m].got
                         /\ prod'[m].sigs = prod[m].sigs
    BY Zenon, <1>0, <1>1 DEF Round
  <2> QED BY Zenon, <1>1, <2>1 DEF SignedInRounds
<1>2. ASSUME prod' = [prod EXCEPT ![n] = Idle], SignedInRounds(v, b)'
      PROVE  SignedInRounds(v, b)
  <2>1. prod'[n].got \cup prod'[n].sigs = {} /\ \A m \in Nodes \ {n} : prod'[m] = prod[m]
    BY Zenon, <1>0, <1>2, IdleTyped
  <2> QED BY Zenon, <1>2, <2>1 DEF SignedInRounds
<1>3. CASE PollVotes(n)
  <2> DEFINE good == {w \in mail : w.to = n /\ verifyPeerVote(w, prod[n].blk)}
             y == [prod[n] EXCEPT !.got = @ \cup {w.from : w \in good}]
  <2>1. /\ prod' = [prod EXCEPT ![n] = y]
        /\ chain' = chain /\ engine' = engine /\ pushes' = pushes /\ mail' \subseteq mail
    BY Zenon, <1>3 DEF PollVotes, KeepChain, Pulled
  <2>2. /\ y.blk = prod[n].blk
        /\ y.got \cup y.sigs = prod[n].got \cup prod[n].sigs \cup {w.from : w \in good}
    BY Zenon, <1>0 DEF Round
  <2>3. \A w \in good : w.blk = prod[n].blk
    <3>1. ASSUME NEW w \in good PROVE w.blk = prod[n].blk
      <4>1. Mentioned(w.blk) /\ Mentioned(prod[n].blk)
        BY Zenon DEF Mentioned, InMessages, InRounds
      <4>2. w.blk \in Block /\ prod[n].blk \in Block /\ w.blk.id = prod[n].blk.id
        BY Zenon, <1>0 DEF Typed, MailTyped, Vote, Round, verifyPeerVote
      <4> QED BY Zenon, <4>1, <4>2 DEF OneBlockPerHash
    <3> QED BY Zenon, <3>1
  <2> HIDE DEF y
  <2>4. SignedInRounds(v, b)' => SignedInRounds(v, b) \/ SignedInMessages(v, b)
    <3>1. ASSUME v \in y.got \cup y.sigs, b = y.blk
          PROVE  SignedInRounds(v, b) \/ SignedInMessages(v, b)
      BY SMTT(30), <2>2, <2>3, <3>1 DEF SignedInRounds, SignedInMessages
    <3> QED BY Zenon, <1>0, <2>1, <3>1 DEF SignedInRounds
  <2> QED BY Zenon, <1>0, <2>1, <2>4, ApprovalsLeft DEF Approved
<1>4. CASE CloseRound(n)
  <2> DEFINE c == prod[n].blk
             G == prod[n].got
             e == OnVotes(engine[n], G, c)
  <2>1. /\ c \in Block /\ c.height \in 1..MaxHeight /\ G \subseteq Nodes
    BY Zenon, <1>4 DEF CloseRound, Typed, RoundsTyped, Round, Proposed
  <2>2. /\ engine' = [engine EXCEPT ![n] = e] /\ pushes' = pushes /\ mail' = mail
        /\ chain' = chain
        /\ \/ prod' = [prod EXCEPT ![n] = Idle]
           \/ prod' = [prod EXCEPT ![n] = [prod[n] EXCEPT !.at = "certified"]]
    BY Zenon, <1>4 DEF CloseRound, HandleVotes
  <2>3. SignedInRounds(v, b)' => SignedInRounds(v, b)
    BY Zenon, <1>1, <1>2, <2>2
  <2>4. c = engine[n][c.height].cand \/ c.id # engine[n][c.height].cand.id
    <3>1. Mentioned(c) /\ Mentioned(engine[n][c.height].cand)
      BY Zenon, <2>1 DEF Mentioned, InRounds, InEngines
    <3>2. engine[n][c.height].cand \in Block
      BY Zenon, <1>0, <2>1 DEF Slots, Slot
    <3> QED BY Zenon, <2>1, <3>1, <3>2 DEF OneBlockPerHash
  <2> HIDE DEF c, G
  <2>5. /\ \A h \in 1..MaxHeight : e[h].cand = engine[n][h].cand
        /\ \A h \in 1..MaxHeight : h # c.height => e[h] = engine[n][h]
        /\ engine[n][c.height].cand.id = c.id => e[c.height].votes = engine[n][c.height].votes \cup G
        /\ engine[n][c.height].cand.id # c.id => e[c.height].votes = engine[n][c.height].votes
    <3>1. \A h \in 1..MaxHeight : e[h].cand = engine[n][h].cand
      BY ZenonT(40), <1>0, <2>1, SameCandidates
    <3>2. \A h \in 1..MaxHeight : h # c.height => e[h] = engine[n][h]
      <4> SUFFICES ASSUME NEW h \in 1..MaxHeight, h # c.height
                   PROVE  e[h] = engine[n][h]
        BY Zenon
      <4> QED BY ZenonT(40), <1>0, <2>1, OnVotesElsewhere
    <3>3. engine[n][c.height].cand.id = c.id => e[c.height].votes = engine[n][c.height].votes \cup G
      BY ZenonT(40), <1>0, <2>1, OnVotesCounted
    <3>4. engine[n][c.height].cand.id # c.id => e[c.height].votes = engine[n][c.height].votes
      BY Zenon, <1>0, <2>1, OnVotesRefused
    <3> QED BY ZenonT(40), <3>1, <3>2, <3>3, <3>4
  <2> HIDE DEF e
  <2>6. ASSUME NEW h \in 1..MaxHeight, b = e[h].cand, v \in e[h].votes
        PROVE  CountedInEngines(v, b) \/ SignedInRounds(v, b)
    <3>1. CASE v \in engine[n][h].votes
      BY Zenon, <2>5, <2>6, <3>1 DEF CountedInEngines
    <3>2. CASE h = c.height /\ c = engine[n][h].cand /\ v \in G
      BY Zenon, <2>5, <2>6, <3>2 DEF SignedInRounds, c, G
    <3> QED BY Zenon, <2>4, <2>5, <2>6, <3>1, <3>2
  <2>7. CountedInEngines(v, b)' => CountedInEngines(v, b) \/ SignedInRounds(v, b)
    BY Zenon, <1>0, <2>2, <2>6 DEF CountedInEngines, MaxHeight
  <2> QED BY Zenon, <1>0, <2>2, <2>3, <2>7, ApprovalsLeft DEF Approved
<1>5. CASE Seal(n)
  <2> DEFINE c == prod[n].blk
             s == engine[n][c.height]
             x == chain[n][Height(n)]
  <2>1. c \in Block /\ c.id > 0 /\ c.height \in 1..MaxHeight /\ Mentioned(c)
    BY Zenon, <1>0, <1>5 DEF Seal, Typed, RoundsTyped, Round, Proposed, Mentioned, InRounds
  <2>2. /\ chain' = chain /\ engine' = engine /\ pushes' = pushes /\ mail' = mail
        /\ \/ prod' = [prod EXCEPT ![n] = Idle]
           \/ /\ FinalityStatus(engine[n], c)
              /\ prod' = [prod EXCEPT ![n] = [prod[n] EXCEPT !.at = "sealed", !.sigs = s.votes]]
           \/ /\ TipId(chain[n]) = c.id
              /\ prod' = [prod EXCEPT ![n] = [prod[n] EXCEPT !.at = "finalized", !.sigs = x.sigs]]
    BY Zenon, <1>5 DEF Seal, KeepChain
  <2>3. \A at, S : LET y == [prod[n] EXCEPT !.at = at, !.sigs = S]
                   IN  y.blk = c /\ y.got = prod[n].got /\ y.sigs = S
    BY Zenon, <1>0 DEF Round
  <2>4. FinalityStatus(engine[n], c) => s.cand = c
    <3>1. Mentioned(s.cand) /\ s.cand \in Block
      BY Zenon, <1>0, <2>1 DEF Mentioned, InEngines, Slots, Slot
    <3> QED BY Zenon, <2>1, <3>1 DEF OneBlockPerHash, FinalityStatus
  <2>5. TipId(chain[n]) = c.id => Height(n) \in 1..Len(chain[n]) /\ x.blk = c
    <3>1. ASSUME TipId(chain[n]) = c.id PROVE Height(n) \in 1..Len(chain[n]) /\ x.blk = c
      <4>1. chain[n] # <<>>
        BY SMTT(30), <2>1, <3>1 DEF TipId
      <4>2. Height(n) \in 1..Len(chain[n]) /\ x.blk.id = c.id /\ x \in Entry
        BY SMTT(30), <1>0, <3>1, <4>1, TipTyped DEF Height
      <4>3. Mentioned(x.blk) /\ x.blk \in Block
        BY Zenon, <4>2 DEF Mentioned, InChains, Entry
      <4> QED BY Zenon, <2>1, <4>2, <4>3 DEF OneBlockPerHash
    <3> QED BY Zenon, <3>1
  <2> HIDE DEF c, s, x
  <2>6. ASSUME NEW S, NEW at, prod' = [prod EXCEPT ![n] = [prod[n] EXCEPT !.at = at, !.sigs = S]],
               SignedInRounds(v, b)'
        PROVE  SignedInRounds(v, b) \/ (b = c /\ v \in S)
    <3> DEFINE y == [prod[n] EXCEPT !.at = at, !.sigs = S]
    <3>1. y.blk = c /\ y.got = prod[n].got /\ y.sigs = S
      BY Zenon, <2>3
    <3>2. prod'[n] = y /\ \A m \in Nodes \ {n} : prod'[m] = prod[m]
      BY Zenon, <1>0, <2>6
    <3> HIDE DEF y
    <3> QED BY ZenonT(40), <2>6, <3>1, <3>2 DEF SignedInRounds, c
  <2>7. SignedInRounds(v, b)' => Approved(v, b)
    <3>1. CASE prod' = [prod EXCEPT ![n] = Idle]
      BY Zenon, <1>2, <3>1 DEF Approved
    <3>2. CASE /\ FinalityStatus(engine[n], c)
               /\ prod' = [prod EXCEPT ![n] = [prod[n] EXCEPT !.at = "sealed", !.sigs = s.votes]]
      <4>1. SignedInRounds(v, b)' => SignedInRounds(v, b) \/ (b = c /\ v \in s.votes)
        BY Zenon, <2>6, <3>2
      <4>2. b = c /\ v \in s.votes => CountedInEngines(v, b)
        BY Zenon, <2>1, <2>4, <3>2 DEF CountedInEngines, s
      <4> QED BY Zenon, <4>1, <4>2 DEF Approved
    <3>3. CASE /\ TipId(chain[n]) = c.id
               /\ prod' = [prod EXCEPT ![n] = [prod[n] EXCEPT !.at = "finalized", !.sigs = x.sigs]]
      <4>1. SignedInRounds(v, b)' => SignedInRounds(v, b) \/ (b = c /\ v \in x.sigs)
        BY Zenon, <2>6, <3>3
      <4>2. b = c /\ v \in x.sigs => SignedInChains(v, b)
        BY Zenon, <2>5, <3>3 DEF SignedInChains, x
      <4> QED BY Zenon, <4>1, <4>2 DEF Approved
    <3> QED BY Zenon, <2>2, <3>1, <3>2, <3>3
  <2> QED BY Zenon, <1>0, <2>2, <2>7, ApprovalsLeft DEF Approved
<1>6. CASE FinalizeBlock(n)
  <2> DEFINE x == [blk |-> prod[n].blk, sigs |-> prod[n].sigs]
             c == Append(chain[n], x)
  <2>1. /\ engine' = engine /\ pushes' = pushes /\ mail' = mail
        /\ chain' = chain \/ chain' = [chain EXCEPT ![n] = c]
        /\ \/ prod' = [prod EXCEPT ![n] = Idle]
           \/ prod' = [prod EXCEPT ![n] = [prod[n] EXCEPT !.at = "finalized"]]
    BY Zenon, <1>6 DEF FinalizeBlock
  <2>2. SignedInRounds(v, b)' => SignedInRounds(v, b)
    BY Zenon, <1>1, <1>2, <2>1
  <2>3. x \in Entry /\ x.blk = prod[n].blk /\ x.sigs = prod[n].sigs
    BY Zenon, <1>0 DEF Entry, Round
  <2> HIDE DEF x
  <2>4. \A i \in 1..Len(c) : c[i] = x \/ (i \in 1..Len(chain[n]) /\ c[i] = chain[n][i])
    BY SMTT(30), <1>0, <2>3
  <2> HIDE DEF c
  <2>5. \A i \in 1..Len(c) : b = c[i].blk /\ v \in c[i].sigs
                             => SignedInChains(v, b) \/ SignedInRounds(v, b)
    BY ZenonT(40), <2>3, <2>4 DEF SignedInChains, SignedInRounds
  <2>6. SignedInChains(v, b)' => SignedInChains(v, b) \/ SignedInRounds(v, b)
    BY Zenon, <1>0, <2>1, <2>5 DEF SignedInChains
  <2> QED BY Zenon, <1>0, <2>1, <2>2, <2>6, ApprovalsLeft DEF Approved
<1>7. CASE SaveFinalized(n)
  <2>1. /\ engine' = engine /\ pushes' = pushes /\ mail' = mail /\ chain' = chain
        /\ prod' = [prod EXCEPT ![n] = [prod[n] EXCEPT !.at = "saved"]]
    BY Zenon, <1>7 DEF SaveFinalized
  <2>2. SignedInRounds(v, b)' => SignedInRounds(v, b)
    BY Zenon, <1>1, <2>1
  <2> QED BY Zenon, <1>0, <2>1, <2>2, ApprovalsLeft DEF Approved
<1>8. CASE Push(n)
  <2>1. /\ engine' = engine /\ mail' = mail /\ chain' = chain
        /\ prod' = [prod EXCEPT ![n] = Idle]
        /\ \A q \in pushes' : q \in pushes \/ (q.blk = prod[n].blk /\ q.sigs = prod[n].sigs)
    BY SMTT(30), <1>8 DEF Push, KeepChain
  <2>2. SignedInMessages(v, b)' => SignedInMessages(v, b) \/ SignedInRounds(v, b)
    BY Zenon, <2>1 DEF SignedInMessages, SignedInRounds
  <2> QED BY Zenon, <1>0, <1>2, <2>1, <2>2, ApprovalsLeft DEF Approved
<1> QED BY Zenon, <1>3, <1>4, <1>5, <1>6, <1>7, <1>8

\* A proposal carries no approval but the proposer's own.
LEMMA ApprovalsOfProposals ==
    ASSUME Typed, NEW n \in Nodes, NEW v, NEW b, Approved(v, b)', Propose(n)
    PROVE  Approved(v, b) \/ v = b.proposer
<1> DEFINE x == BuildBlock(n)
           V == {n}
           r == RecordProposal(engine[n], x)
           e == OnVotes(r, V, x)
           y == [Idle EXCEPT !.at = "collect", !.blk = x]
<1>0. /\ prod \in [Nodes -> Round] /\ engine \in [Nodes -> Slots] /\ dep' = dep
      /\ engine[n] \in Slots /\ FreshIds # {} /\ Height(n) < MaxHeight
      /\ chain' = chain /\ pushes' = pushes /\ mail' = mail
  BY Zenon DEF Typed, RoundsTyped, EnginesTyped, Propose, Tick, UnchangedFaults
<1>1. x \in Block /\ x.height \in 1..MaxHeight /\ x.proposer = n
  <2>1. Height(n) \in Nat /\ MaxHeight \in Nat
    BY Zenon, TipTyped, DeploymentTyped DEF Height, Typed, ChainsTyped
  <2> QED BY SMTT(30), <1>0, <2>1, Built DEF Extends
<1>2. engine' = [engine EXCEPT ![n] = e] /\ prod' = [prod EXCEPT ![n] = y]
  BY Zenon DEF Propose, HandleVotes
<1>3. y.got \cup y.sigs = {} /\ V \subseteq Nodes
  BY Zenon, IdleTyped DEF Round
<1> HIDE DEF x, V, y
<1>4. /\ r \in Slots /\ r[x.height].cand = x /\ r[x.height].votes = {}
      /\ \A h \in 1..MaxHeight : h # x.height => r[h] = engine[n][h]
  <2>1. r \in Slots /\ r[x.height].cand = x /\ r[x.height].votes = {}
    BY Zenon, <1>0, <1>1, RecordedThere
  <2>2. \A h \in 1..MaxHeight : h # x.height => r[h] = engine[n][h]
    BY Zenon, <1>0, <1>1, RecordedOthers
  <2> QED BY Zenon, <2>1, <2>2
<1> HIDE DEF r
<1>5. /\ e[x.height].cand = x /\ e[x.height].votes \subseteq V
      /\ \A h \in 1..MaxHeight : h # x.height => e[h] = engine[n][h]
  <2>1. e[x.height].cand = r[x.height].cand
    BY SMTT(30), <1>1, <1>3, <1>4, OnVotesTyped
  <2>2. r[x.height].cand.id = x.id => e[x.height].votes = r[x.height].votes \cup V
    BY Zenon, <1>1, <1>4 DEF OnVotes, Slots
  <2>3. \A h \in 1..MaxHeight : h # x.height => e[h] = r[h]
    BY SMTT(30), <1>1, <1>3, <1>4, OnVotesTyped
  <2> QED BY Zenon, <1>4, <2>1, <2>2, <2>3
<1> HIDE DEF e
<1>6. CountedInEngines(v, b)' => CountedInEngines(v, b) \/ v = b.proposer
  <2>1. ASSUME NEW h \in 1..MaxHeight, b = e[h].cand, v \in e[h].votes
        PROVE  CountedInEngines(v, b) \/ v = b.proposer
    BY Zenon, <1>1, <1>5, <2>1 DEF CountedInEngines, V
  <2> QED BY Zenon, <1>0, <1>2, <2>1 DEF CountedInEngines, MaxHeight
<1>7. SignedInRounds(v, b)' => SignedInRounds(v, b)
  BY Zenon, <1>0, <1>2, <1>3 DEF SignedInRounds
<1> QED BY Zenon, <1>0, <1>6, <1>7, ApprovalsLeft DEF Approved

\* Followers sign nothing, and messages carry the approvals they were sent with.
LEMMA ApprovalsOfOthers ==
    ASSUME Typed, NEW v, NEW b, Approved(v, b)',
           \/ \E n \in Nodes : Fetch(n) \/ \E m \in Nodes : CatchUpOnce(n, m)
           \/ \E r \in reqs : \/ CheckHeight(r) \/ ValidateProposal(r) \/ RefuseVote(r)
                              \/ LoseRequest(r)
           \/ \E w \in mail : LoseVote(w)
           \/ \E q \in pushes : DeliverPush(q) \/ LosePush(q)
           \/ UNCHANGED vars
    PROVE  Approved(v, b)
<1>0. /\ dep' = dep /\ engine' = engine /\ prod' = prod
      /\ pushes' \subseteq pushes /\ mail' \subseteq mail
  BY ZenonT(40) DEF Fetch, CatchUpOnce, CheckHeight, ValidateProposal, RefuseVote, LoseRequest,
     LoseVote, DeliverPush, LosePush, UnchangedFaults, Pulled, vars
<1>1. SignedInChains(v, b)' => Approved(v, b)
  <2>1. CASE chain' = chain
    BY Zenon, <1>0, <2>1, ApprovalsLeft DEF Approved
  <2>2. ASSUME NEW n \in Nodes, NEW c, NEW z, Adopt(n, c, z), SignedInChains(v, b)',
               \A i \in 1..Len(c) : b = c[i].blk /\ v \in c[i].sigs => Approved(v, b)
        PROVE  Approved(v, b)
    <3>1. SignedInChains(v, b) \/ \E i \in 1..Len(c) : b = c[i].blk /\ v \in c[i].sigs
      BY Zenon, <2>2 DEF Adopt, SignedInChains, Typed, ChainsTyped
    <3> QED BY Zenon, <2>2, <3>1 DEF Approved
  <2>3. ASSUME NEW n \in Nodes, NEW m \in Nodes, CatchUpOnce(n, m), SignedInChains(v, b)'
        PROVE  Approved(v, b)
    <3>1. PICK c, z : CaughtUp(n, m, c) /\ Adopt(n, c, z)
      BY Zenon, <2>3, CatchingUp
    <3>2. Len(c) \in Nat /\ Height(n) \in Nat /\ Height(m) \in Nat
      BY Zenon, <3>1, TipTyped DEF CaughtUp, Height, Typed, ChainsTyped
    <3>3. \A i \in 1..Len(c) : \/ i \in 1..Len(chain[n]) /\ c[i] = chain[n][i]
                               \/ i \in 1..Len(chain[m]) /\ c[i] = chain[m][i]
      BY SMTT(30), <3>1, <3>2 DEF CaughtUp, Height
    <3>4. \A i \in 1..Len(c) : b = c[i].blk /\ v \in c[i].sigs => Approved(v, b)
      BY Zenon, <3>3 DEF SignedInChains, Approved
    <3> QED BY Zenon, <2>2, <2>3, <3>1, <3>4
  <2>4. ASSUME NEW q \in pushes, DeliverPush(q), SignedInChains(v, b)'
        PROVE  Approved(v, b)
    <3>1. CASE KeepChain
      BY Zenon, <2>1, <2>4, <3>1 DEF KeepChain
    <3>2. CASE \E c, z : Delivered(q, c) /\ Adopt(q.to, c, z)
      <4>1. PICK c, z : Delivered(q, c) /\ Adopt(q.to, c, z)
        BY Zenon, <3>2
      <4>2. q.to \in Nodes
        BY Zenon DEF Typed, PushesTyped, Pushed
      <4>3. Len(c) \in Nat /\ Height(q.to) \in Nat
        BY Zenon, <4>1, <4>2, TipTyped DEF Delivered, Height, Typed, ChainsTyped
      <4>4. \A i \in 1..Len(c) : \/ i \in 1..Len(chain[q.to]) /\ c[i] = chain[q.to][i]
                                 \/ c[i].blk = q.blk /\ c[i].sigs = q.sigs
        BY SMTT(30), <4>1, <4>3 DEF Delivered, Height
      <4>5. \A i \in 1..Len(c) : b = c[i].blk /\ v \in c[i].sigs => Approved(v, b)
        BY Zenon, <4>2, <4>4 DEF SignedInChains, SignedInMessages, Approved
      <4> QED BY Zenon, <2>2, <2>4, <4>1, <4>2, <4>5
    <3> QED BY Zenon, <2>4, <3>1, <3>2, Delivering
  <2> QED BY Zenon, <2>1, <2>3, <2>4 DEF Fetch, CheckHeight, ValidateProposal, RefuseVote,
       LoseRequest, LoseVote, LosePush, KeepChain, vars
<1> QED BY Zenon, <1>0, <1>1, ApprovalsLeft DEF Approved

\* A vote is one approval, by the voter, of the block it was asked about.
LEMMA ApprovalsOfVotes ==
    ASSUME Typed, OneBlockPerHash, NEW r \in reqs, CastVote(r), NEW v, NEW b,
           Approved(v, b)'
    PROVE  Approved(v, b) \/ (v = r.to /\ b = r.blk)
<1> DEFINE u == r.to
           p == r.blk.proposer
           e == RecordProposal(engine[u], r.blk)
<1>0. /\ r.blk \in Block /\ r.blk.height \in 1..MaxHeight /\ u \in Nodes /\ p \in Nodes
      /\ engine \in [Nodes -> Slots] /\ engine[u] \in Slots
      /\ prod \in [Nodes -> Round] /\ prod[p] \in Round
  BY Zenon DEF Typed, RequestsTyped, Request, Proposed, EnginesTyped, RoundsTyped
<1>1. /\ dep' = dep /\ chain' = chain /\ pushes' = pushes
      /\ engine' = [engine EXCEPT ![u] = e]
      /\ \/ mail' = mail \cup {[to |-> p, from |-> u, blk |-> r.blk]} /\ prod' = prod
         \/ /\ mail' = mail
            /\ \/ prod' = prod
               \/ /\ r.blk.id = prod[p].blk.id
                  /\ prod' = [prod EXCEPT ![p] = [prod[p] EXCEPT !.got = @ \cup {u}]]
  BY Zenon DEF CastVote, PostVote, AnswerVote, KeepChain, verifyPeerVote
<1>2. CountedInEngines(v, b)' => CountedInEngines(v, b)
  <2> HIDE DEF u
  <2>1. /\ e[r.blk.height].votes = {}
        /\ \A h \in 1..MaxHeight : h # r.blk.height => e[h] = engine[u][h]
    <3> DEFINE c == r.blk
    <3>1. c \in Block /\ c.height \in 1..MaxHeight
      BY Zenon, <1>0
    <3> HIDE DEF c
    <3>2. RecordProposal(engine[u], c)[c.height].votes = {}
      BY Zenon, <1>0, <3>1, RecordProposalTyped
    <3>3. \A h \in 1..MaxHeight : h # c.height => RecordProposal(engine[u], c)[h] = engine[u][h]
      BY Zenon, <1>0, <3>1, RecordedOthers
    <3> QED BY Zenon, <3>2, <3>3 DEF c
  <2> HIDE DEF e
  <2> QED BY SMTT(30), <1>0, <1>1, <2>1 DEF CountedInEngines, MaxHeight
<1>3. SignedInMessages(v, b)' => SignedInMessages(v, b) \/ (v = u /\ b = r.blk)
  BY SMTT(30), <1>1 DEF SignedInMessages
<1>4. SignedInRounds(v, b)' => SignedInRounds(v, b) \/ (v = u /\ b = r.blk)
  <2>1. CASE prod' = prod
    BY Zenon, <1>1, <2>1, ApprovalsLeft
  <2>2. CASE /\ r.blk.id = prod[p].blk.id
             /\ prod' = [prod EXCEPT ![p] = [prod[p] EXCEPT !.got = @ \cup {u}]]
    <3>1. r.blk = prod[p].blk
      <4>1. Mentioned(r.blk) /\ Mentioned(prod[p].blk) /\ prod[p].blk \in Block
        BY Zenon, <1>0 DEF Mentioned, InMessages, InRounds, Round
      <4> QED BY Zenon, <1>0, <2>2, <4>1 DEF OneBlockPerHash
    <3> DEFINE y == [prod[p] EXCEPT !.got = @ \cup {u}]
    <3>2. y.blk = r.blk /\ y.got \cup y.sigs = prod[p].got \cup prod[p].sigs \cup {u}
      BY Zenon, <1>0, <3>1 DEF Round
    <3>3. prod'[p] = y /\ \A m \in Nodes \ {p} : prod'[m] = prod[m]
      BY Zenon, <1>0, <2>2
    <3> HIDE DEF y, p, u
    <3> QED BY ZenonT(40), <1>0, <3>1, <3>2, <3>3 DEF SignedInRounds
  <2> QED BY Zenon, <1>1, <2>1, <2>2
<1> QED BY Zenon, <1>1, <1>2, <1>3, <1>4, ApprovalsLeft DEF Approved

\* The vote lock does its work.
LEMMA LockNext ==
    Typed /\ OneBlockPerHash /\ LockInv /\ [Next]_vars => LockInv'
<1> SUFFICES ASSUME Typed, OneBlockPerHash, LockInv, [Next]_vars,
                    (LockOn /\ Silent = {} /\ Len(Fleet) < 2 /\ expiries = 0 /\ crashes = 0)'
             PROVE  \A v \in Nodes, b \in Block :
                       Approved(v, b)' /\ v # b.proposer =>
                          /\ b.proposer # 0 /\ Remembers(v, b)'
                          /\ \A c \in Block : Approved(v, c)' /\ v # c.proposer
                                              /\ c.height = b.height => c.proposer = b.proposer
  BY Zenon DEF LockInv, Block, Balances
<1>0. dep' = dep /\ crashes \in Nat /\ expiries \in Nat
  BY ZenonT(40), StepCases, QuietSteps
     DEF Propose, FleetSign, CloseRound, Crash, CastVote, UnchangedFaults, Typed, CountersTyped
<1>1. LockOn /\ Silent = {} /\ Len(Fleet) < 2
  BY Zenon, <1>0 DEF LockOn, Silent, Fleet
<1>2. ASSUME lock' = lock, expiries' = expiries, crashes' = crashes,
             \A v, b : Approved(v, b)' => Approved(v, b) \/ v = b.proposer
      PROVE  \A v \in Nodes, b \in Block :
                Approved(v, b)' /\ v # b.proposer =>
                   /\ b.proposer # 0 /\ Remembers(v, b)'
                   /\ \A c \in Block : Approved(v, c)' /\ v # c.proposer
                                       /\ c.height = b.height => c.proposer = b.proposer
  <2>1. \A v, b : Remembers(v, b) => Remembers(v, b)'
    BY Zenon, <1>2 DEF Remembers
  <2> QED BY ZenonT(40), <1>1, <1>2, <2>1 DEF LockInv
<1>3. CASE Quiet
  <2>1. lock' = lock /\ expiries' = expiries /\ crashes' = crashes
    BY Zenon, <1>3, QuietSteps
  <2>2. \A r \in reqs : ~SilentVote(r)
    BY Zenon, <1>1 DEF SilentVote
  <2>3. \A v, b : Approved(v, b)' => Approved(v, b)
    BY Zenon, <1>3, <2>2, ApprovalsOfRounds, ApprovalsOfOthers DEF Quiet
  <2> QED BY Zenon, <1>2, <2>1, <2>3
<1>4. ASSUME NEW n \in Nodes, Propose(n) \/ CloseRound(n)
      PROVE  /\ lock' = lock /\ expiries' = expiries /\ crashes' = crashes
             /\ \A v, b : Approved(v, b)' => Approved(v, b) \/ v = b.proposer
  <2>1. lock' = lock /\ expiries' = expiries /\ crashes' = crashes
    BY Zenon, <1>4 DEF Propose, CloseRound, UnchangedFaults
  <2> QED BY Zenon, <1>4, <2>1, ApprovalsOfRounds, ApprovalsOfProposals
<1>5. ASSUME NEW n \in Nodes, Crash(n) \/ FleetSign(n) PROVE FALSE
  <2>1. ~Crash(n)
    BY SMTT(30), <1>0 DEF Crash
  <2>2. ~FleetSign(n)
    <3>1. Fleet \in Seq(Nodes)
      BY Zenon, DeploymentTyped DEF Typed
    <3> QED BY SMTT(30), <1>1, <3>1 DEF FleetSign
  <2> QED BY Zenon, <1>5, <2>1, <2>2
<1>6. ASSUME NEW r \in reqs, CastVote(r), NEW v \in Nodes, NEW b \in Block,
             Approved(v, b)', v # b.proposer
      PROVE  /\ b.proposer # 0 /\ Remembers(v, b)'
             /\ \A c \in Block : Approved(v, c)' /\ v # c.proposer
                                 /\ c.height = b.height => c.proposer = b.proposer
  <2> DEFINE u == r.to
             x == r.blk
  <2>1. /\ u \in Nodes /\ x \in Block /\ x.proposer \in Nodes
        /\ lock \in [Nodes -> [height : Nat, proposer : Nat]]
    BY Zenon DEF Typed, RequestsTyped, Request, Proposed, LocksTyped
  <2>2. /\ expiries = 0 /\ crashes = 0 /\ ~Locked(u, x) /\ ~Overtaken(u, x)
        /\ lock' = [lock EXCEPT ![u] = [height |-> x.height, proposer |-> x.proposer]]
    BY SMTT(30), <1>0, <1>1, <1>6 DEF CastVote
  <2>3. \A w, c : Approved(w, c)' => Approved(w, c) \/ (w = u /\ c = x)
    BY Zenon, <1>6, ApprovalsOfVotes
  <2>4. \A w \in Nodes, c \in Block : Approved(w, c) /\ w # c.proposer =>
           /\ c.proposer # 0 /\ Remembers(w, c)
           /\ \A d \in Block : Approved(w, d) /\ w # d.proposer
                               /\ d.height = c.height => d.proposer = c.proposer
    BY Zenon, <1>1, <2>2 DEF LockInv
  <2>5. /\ lock[u].height \in Nat /\ x.height \in Nat /\ lock[u].height <= x.height
        /\ lock[u].height = x.height => lock[u].proposer \in {0, x.proposer}
    <3>1. lock[u].height \in Nat /\ x.height \in Nat
      BY Zenon, <2>1 DEF Block
    <3>2. ~(lock[u].height > x.height)
      BY Zenon, <1>1, <2>2 DEF Overtaken
    <3>3. lock[u].height = x.height => lock[u].proposer \in {0, x.proposer}
      BY Zenon, <1>1, <2>2 DEF Locked
    <3> QED BY SMTT(30), <3>1, <3>2, <3>3
  <2>6. /\ lock'[u].height = x.height /\ lock'[u].proposer = x.proposer
        /\ \A w \in Nodes \ {u} : lock'[w] = lock[w]
    BY Zenon, <2>1, <2>2
  <2>0. x.proposer # 0
    BY SMTT(30), <2>1, NAssumption DEF Nodes
  <2> HIDE DEF u, x
  <2>7. ASSUME NEW c \in Block, Approved(u, c), u # c.proposer
        PROVE  /\ Remembers(u, c)'
               /\ c.height = x.height => c.proposer = x.proposer
    <3>1. Remembers(u, c) /\ c.proposer # 0 /\ c.height \in Nat
      BY Zenon, <2>1, <2>4, <2>7 DEF Block
    <3> QED BY SMTT(30), <2>5, <2>6, <3>1 DEF Remembers
  <2>8. ASSUME NEW w \in Nodes \ {u}, NEW c \in Block, Approved(w, c), w # c.proposer
        PROVE  Remembers(w, c)'
    BY SMTT(30), <2>4, <2>6, <2>8 DEF Remembers
  <2>9. Remembers(u, x)'
    BY Zenon, <2>6 DEF Remembers
  <2> QED BY SMTT(30), <1>6, <2>0, <2>1, <2>3, <2>4, <2>7, <2>8, <2>9
<1> QED BY Zenon, <1>2, <1>3, <1>4, <1>5, <1>6, StepCases

-----------------------------------------------------------------------------
RosterInv ==
    Typed /\ Heights /\ Links /\ OneBlockPerHash /\ LockInv /\ VoteMemory

\* What every step of the roster keeps.
THEOREM RosterInvariant == Spec => []RosterInv
<1>1. Init => RosterInv
  <2> SUFFICES ASSUME Init PROVE RosterInv
    BY Zenon
  <2>0. Typed
    BY Zenon, TypedInit
  <2>1. Heights /\ Links
    <3>1. \A n \in Nodes : chain[n] = <<>> /\ saved[n].chain = <<>>
      BY Zenon DEF Init
    <3>2. AtItsHeight(<<>>) /\ Linked(<<>>)
      BY SMTT(30) DEF AtItsHeight, Linked
    <3> QED BY Zenon, <3>1, <3>2 DEF Heights, Links
  <2>4. VoteMemory
    BY Zenon, IdleTyped DEF Init, VoteMemory, NewEngine, NewSlot
  <2>2. \A b : Mentioned(b) => b = NoBlock
    BY SMTT(30), IdleTyped DEF Init, Mentioned, InChains, InStores, InEngines, InRounds, InMessages,
       NewEngine, NewSlot
  <2>3. \A v, b : ~Approved(v, b)
    BY SMTT(30), IdleTyped DEF Init, Approved, SignedInChains, SignedInRounds, CountedInEngines,
       SignedInMessages, NewEngine, NewSlot
  <2> QED BY Zenon, <2>0, <2>1, <2>2, <2>3, <2>4 DEF RosterInv, OneBlockPerHash, LockInv
<1>2. RosterInv /\ [Next]_vars => RosterInv'
  BY Zenon, TypedNext, HeightsNext, HashesNext, LockNext, VoteMemoryNext DEF RosterInv
<1> QED BY <1>1, <1>2, PTL DEF Spec

\* A height up to a chain's length has an entry.
LEMMA EntryAt == ASSUME NEW c \in Seq(Entry), NEW i \in 1..Len(c) PROVE c[i] \in Entry
  BY SMTT(30)

\* The vote lock of HandleProposal: two proposers' blocks of one height that
\* are both on some chain share no signer but the proposers, for any number
\* of validators, heights and rounds, as long as no vote was cast past a lock.
THEOREM LockProtects == Spec => []LockHolds
<1>1. RosterInv => LockHolds
  <2> SUFFICES ASSUME RosterInv, LockOn, Silent = {}, Len(Fleet) < 2, expiries = 0, crashes = 0,
                      NEW n \in Nodes, NEW m \in Nodes,
                      NEW h \in 1..Height(n) \cap 1..Height(m),
                      chain[n][h].blk.proposer # chain[m][h].blk.proposer,
                      NEW v \in chain[n][h].sigs \cap chain[m][h].sigs
               PROVE  v \in {chain[n][h].blk.proposer, chain[m][h].blk.proposer}
    BY Zenon DEF LockHolds
  <2>1. /\ h \in 1..Len(chain[n]) /\ h \in 1..Len(chain[m])
        /\ chain[n][h] \in Entry /\ chain[m][h] \in Entry
    <3>1. chain[n] \in Seq(Entry) /\ chain[m] \in Seq(Entry)
      BY Zenon DEF RosterInv, Typed, ChainsTyped
    <3>2. h \in 1..Len(chain[n]) /\ h \in 1..Len(chain[m])
      BY Zenon DEF Height
    <3> QED BY Zenon, <3>1, <3>2, EntryAt
  <2>2. /\ v \in Nodes /\ chain[n][h].blk \in Block /\ chain[m][h].blk \in Block
        /\ chain[n][h].blk.height = h /\ chain[m][h].blk.height = h
    BY Zenon, <2>1 DEF Entry, RosterInv, Heights, AtItsHeight
  <2>3. Approved(v, chain[n][h].blk) /\ Approved(v, chain[m][h].blk)
    BY Zenon, <2>1 DEF Approved, SignedInChains
  <2> QED BY SMTT(30), <2>2, <2>3 DEF RosterInv, LockInv
<1> QED BY <1>1, RosterInvariant, PTL


-----------------------------------------------------------------------------
\* The chain t is s, or s and one more block, as far as the blocks go.
Grows(s, t) ==
    /\ Len(s) <= Len(t) /\ Len(t) <= Len(s) + 1
    /\ \A i \in 1..Len(s) : t[i].blk = s[i].blk

\* Every block of c but its last is on s.
Stems(c, s) ==
    /\ Len(c) <= Len(s) + 1
    /\ \A i \in 1..Len(c) : i < Len(c) => c[i].blk = s[i].blk

Holds(c, b) == b.height \in 1..Len(c) /\ c[b.height].blk = b

\* The only producer's memory is at most one block ahead of its store, while
\* TryFinalize is between FinalizeBlock and OnFinalize.
Own(p) ==
    /\ Grows(saved[p].chain, chain[p])
    /\ prod[p].at # "finalized" => Len(chain[p]) = Len(saved[p].chain)
    /\ prod[p].at = "finalized" => Holds(chain[p], prod[p].blk)
    /\ prod[p].at = "saved" => Holds(saved[p].chain, prod[p].blk)

\* The store of the only producer is the trunk of every chain: whatever a
\* node holds or held when it saved differs from it in the last block only,
\* and what is pushed is on it.
Trunk(p) ==
    /\ \A n \in Nodes \ {p} : prod[n].at = "idle"
    /\ Own(p)
    /\ \A q \in pushes : Holds(saved[p].chain, q.blk)
    /\ \A n \in Nodes : /\ Stems(chain[n], saved[p].chain)
                        /\ Stems(saved[n].chain, saved[p].chain)

\* A trunk that grows stays one.
LEMMA Growing ==
    ASSUME NEW s \in Seq(Entry), NEW t \in Seq(Entry), Grows(s, t)
    PROVE  /\ Stems(t, s) /\ Stems(t, t) /\ Grows(t, t)
           /\ \A b : Holds(s, b) => Holds(t, b)
           /\ \A c \in Seq(Entry) : Stems(c, s) => Stems(c, t)
<1>1. /\ Len(s) \in Nat /\ Len(t) \in Nat /\ Len(s) <= Len(t) /\ Len(t) <= Len(s) + 1
      /\ \A i \in 1..Len(s) : t[i].blk = s[i].blk
  BY SMTT(30) DEF Grows
<1>2. Stems(t, s) /\ Stems(t, t) /\ Grows(t, t)
  BY SMTT(30), <1>1 DEF Stems, Grows
<1>3. ASSUME NEW b, Holds(s, b) PROVE Holds(t, b)
  <2>1. b.height \in 1..Len(s) /\ s[b.height].blk = b
    BY Zenon, <1>3 DEF Holds
  <2>2. b.height \in 1..Len(t)
    BY SMTT(30), <1>1, <2>1
  <2> QED BY Zenon, <1>1, <2>1, <2>2 DEF Holds
<1>4. ASSUME NEW c \in Seq(Entry), Stems(c, s) PROVE Stems(c, t)
  <2>1. /\ Len(c) \in Nat /\ Len(c) <= Len(s) + 1
        /\ \A i \in 1..Len(c) : i < Len(c) => c[i].blk = s[i].blk
    BY SMTT(30), <1>4 DEF Stems
  <2>2. Len(c) <= Len(t) + 1
    BY SMTT(30), <1>1, <2>1
  <2>3. \A i \in 1..Len(c) : i < Len(c) => i \in 1..Len(s)
    BY SMTT(30), <1>1, <2>1
  <2> QED BY Zenon, <1>1, <2>1, <2>2, <2>3 DEF Stems
<1> QED BY Zenon, <1>2, <1>3, <1>4

\* What a step may do to the chains of a roster with one producer.
LEMMA TrunkStep ==
    ASSUME Typed, NEW p \in Nodes, Trunk(p), NEW t \in Seq(Entry),
           saved'[p].chain = t, Grows(saved[p].chain, t),
           \A n \in Nodes \ {p} : prod'[n].at = "idle",
           Own(p)',
           \A q \in pushes' : q \in pushes \/ Holds(t, q.blk),
           \A n \in Nodes : /\ \/ chain'[n] \in {chain[n], saved[n].chain}
                               \/ Stems(chain'[n], t)
                            /\ \/ saved'[n].chain \in {chain[n], saved[n].chain}
                               \/ Stems(saved'[n].chain, t)
    PROVE  Trunk(p)'
<1>1. \A n \in Nodes : /\ chain[n] \in Seq(Entry) /\ saved[n].chain \in Seq(Entry)
                       /\ Stems(chain[n], saved[p].chain)
                       /\ Stems(saved[n].chain, saved[p].chain)
  BY Zenon DEF Typed, ChainsTyped, Trunk
<1>2. /\ \A b : Holds(saved[p].chain, b) => Holds(t, b)
      /\ \A c \in Seq(Entry) : Stems(c, saved[p].chain) => Stems(c, t)
  BY Zenon, <1>1, Growing
<1>3. \A n \in Nodes : Stems(chain'[n], t) /\ Stems(saved'[n].chain, t)
  BY Zenon, <1>1, <1>2
<1>4. \A q \in pushes' : Holds(t, q.blk)
  BY Zenon, <1>2 DEF Trunk
<1> QED BY Zenon, <1>3, <1>4 DEF Trunk

\* A step that leaves the chains alone.
LEMMA TrunkLeft ==
    ASSUME Typed, NEW p \in Nodes, Trunk(p), chain' = chain, saved' = saved,
           \A q \in pushes' : q \in pushes \/ Holds(saved[p].chain, q.blk),
           \A n \in Nodes : \/ prod'[n].at = prod[n].at /\ prod'[n].blk = prod[n].blk
                            \/ /\ n = p /\ prod[n].at # "finalized"
                               /\ prod'[n].at \notin {"finalized", "saved"}
    PROVE  Trunk(p)'
<1>1. saved[p].chain \in Seq(Entry) /\ chain[p] \in Seq(Entry)
  BY Zenon DEF Typed, ChainsTyped
<1>2. Own(p)'
  <2>1. CASE prod'[p].at = prod[p].at /\ prod'[p].blk = prod[p].blk
    BY Zenon, <2>1 DEF Own, Trunk
  <2>2. CASE prod[p].at # "finalized" /\ prod'[p].at \notin {"finalized", "saved"}
    BY Zenon, <2>2 DEF Own, Trunk
  <2> QED BY Zenon, <2>1, <2>2
<1>3. \A n \in Nodes \ {p} : prod'[n].at = "idle"
  BY Zenon DEF Trunk
<1>4. Grows(saved[p].chain, saved[p].chain)
  BY SMTT(30), <1>1 DEF Grows
<1> QED BY Zenon, <1>1, <1>2, <1>3, <1>4, TrunkStep


\* The steps of the producer's round keep the trunk ...
LEMMA TrunkRounds ==
    ASSUME Typed, Heights, OneBlockPerHash, NEW p \in Nodes, Trunk(p),
           \/ Propose(p) \/ FleetSign(p) \/ PollVotes(p) \/ CloseRound(p)
           \/ Seal(p) \/ FinalizeBlock(p) \/ SaveFinalized(p) \/ Push(p)
    PROVE  Trunk(p)'
<1> DEFINE s == saved[p].chain
           b == prod[p].blk
<1>0. /\ s \in Seq(Entry) /\ Len(s) \in Nat /\ chain[p] \in Seq(Entry)
      /\ Len(chain[p]) \in Nat /\ Height(p) = Len(chain[p])
      /\ chain \in [Nodes -> Seq(Entry)] /\ prod \in [Nodes -> Round] /\ prod[p] \in Round
      /\ saved \in [Nodes -> [chain : Seq(Entry), bal : Balances]]
      /\ b \in Block /\ prod[p].sigs \in SUBSET Nodes
      /\ prod[p].at # "idle" => Proposed(b)
  <2>1. prod \in [Nodes -> Round] /\ (prod[p].at # "idle" => Proposed(b))
    BY Zenon DEF Typed, RoundsTyped
  <2>2. prod[p] \in Round
    BY Zenon, <2>1
  <2>3. b \in Block /\ prod[p].sigs \in SUBSET Nodes
    BY Zenon, <2>2 DEF Round
  <2> QED BY Zenon, <2>1, <2>2, <2>3, TipTyped DEF Typed, ChainsTyped, Height
<1>1. Own(p) /\ Grows(s, chain[p]) /\ Grows(s, s)
  <2>1. Own(p) /\ Grows(s, chain[p])
    BY Zenon DEF Trunk, Own
  <2> HIDE DEF s
  <2>2. Grows(s, s)
    BY SMTT(30), <1>0 DEF Grows
  <2> QED BY Zenon, <2>1, <2>2
<1>2. \A n \in Nodes \ {p} : prod[n].at = "idle"
  BY Zenon DEF Trunk
<1>3. ASSUME chain' = chain, saved' = saved, NEW x, prod' = [prod EXCEPT ![p] = x],
             prod[p].at # "finalized", x.at \notin {"finalized", "saved"},
             \A q \in pushes' : q \in pushes \/ Holds(s, q.blk)
      PROVE  Trunk(p)'
  BY Zenon, <1>0, <1>3, TrunkLeft
<1>4. CASE Propose(p)
  <2> DEFINE x == [Idle EXCEPT !.at = "collect", !.blk = BuildBlock(p)]
  <2>1. x.at = "collect"
    BY Zenon, IdleTyped DEF Round
  <2> QED BY Zenon, <1>3, <1>4, <2>1 DEF Propose, Tick
<1>5. CASE FleetSign(p)
  BY Zenon, <1>3, <1>5 DEF FleetSign, Tick
<1>6. CASE PollVotes(p)
  <2>1. \A G : [prod[p] EXCEPT !.got = G].at = prod[p].at
    BY Zenon, <1>0 DEF Round
  <2>2. PICK G : prod' = [prod EXCEPT ![p] = [prod[p] EXCEPT !.got = G]]
    BY Zenon, <1>6 DEF PollVotes
  <2> QED BY Zenon, <1>3, <1>6, <2>1, <2>2 DEF PollVotes, KeepChain
<1>7. CASE CloseRound(p)
  <2>1. [prod[p] EXCEPT !.at = "certified"].at = "certified"
    BY Zenon, <1>0 DEF Round
  <2>2. \/ prod' = [prod EXCEPT ![p] = [prod[p] EXCEPT !.at = "certified"]]
        \/ prod' = [prod EXCEPT ![p] = Idle]
    BY Zenon, <1>7 DEF CloseRound
  <2> QED BY Zenon, <1>3, <1>7, <2>1, <2>2, IdleTyped DEF CloseRound
<1>8. CASE Seal(p)
  <2>1. \A at, S : /\ [prod[p] EXCEPT !.at = at, !.sigs = S].at = at
                   /\ [prod[p] EXCEPT !.at = at, !.sigs = S].blk = b
    BY Zenon, <1>0 DEF Round
  <2>2. /\ chain' = chain /\ saved' = saved /\ pushes' = pushes /\ prod[p].at = "certified"
        /\ \/ prod' = [prod EXCEPT ![p] = Idle]
           \/ \E S : prod' = [prod EXCEPT ![p] = [prod[p] EXCEPT !.at = "sealed", !.sigs = S]]
           \/ /\ TipId(chain[p]) = b.id
              /\ \E S : prod' = [prod EXCEPT ![p] = [prod[p] EXCEPT !.at = "finalized", !.sigs = S]]
    BY Zenon, <1>8 DEF Seal, KeepChain
  <2>3. CASE prod' = [prod EXCEPT ![p] = Idle]
    BY Zenon, <1>3, <2>2, <2>3, IdleTyped
  <2>5. ASSUME NEW S, prod' = [prod EXCEPT ![p] = [prod[p] EXCEPT !.at = "sealed", !.sigs = S]]
        PROVE  Trunk(p)'
    <3> DEFINE x == [prod[p] EXCEPT !.at = "sealed", !.sigs = S]
    <3>1. x.at = "sealed" /\ prod' = [prod EXCEPT ![p] = x]
      BY Zenon, <2>1, <2>5
    <3> HIDE DEF x
    <3> QED BY Zenon, <1>3, <2>2, <3>1
  <2>4. ASSUME TipId(chain[p]) = b.id, NEW S,
               prod' = [prod EXCEPT ![p] = [prod[p] EXCEPT !.at = "finalized", !.sigs = S]]
        PROVE  Trunk(p)'
    <3>1. prod'[p].at = "finalized" /\ prod'[p].blk = b /\ \A n \in Nodes \ {p} : prod'[n] = prod[n]
      BY Zenon, <1>0, <2>1, <2>4
    <3>2. b.id # 0
      <4>1. b.id > 0 /\ b.id \in Nat
        BY Zenon, <1>0, <2>2 DEF Proposed, Block
      <4> HIDE DEF b
      <4> QED BY SMTT(30), <4>1
    <3>3. chain[p] # <<>>
      BY Zenon, <2>4, <3>2 DEF TipId
    <3>4. Len(chain[p]) \in 1..Len(chain[p]) /\ chain[p][Len(chain[p])].blk.id = b.id
          /\ chain[p][Len(chain[p])].blk \in Block
      <4>1. /\ Len(chain[p]) > 0 /\ chain[p][Len(chain[p])] \in Entry
            /\ chain[p][Len(chain[p])].blk.id = b.id
        BY Zenon, <1>0, <2>4, <3>3, TipTyped
      <4> HIDE DEF b
      <4> QED BY SMTT(30), <1>0, <4>1 DEF Entry
    <3>5. Mentioned(b) /\ Mentioned(chain[p][Len(chain[p])].blk)
      BY Zenon, <3>4 DEF Mentioned, InRounds, InChains
    <3>6. chain[p][Len(chain[p])].blk = b
      BY Zenon, <1>0, <3>4, <3>5 DEF OneBlockPerHash
    <3>7. b.height = Len(chain[p])
      BY Zenon, <3>4, <3>6 DEF Heights, AtItsHeight
    <3>8. Holds(chain[p], b)
      BY Zenon, <3>4, <3>6, <3>7 DEF Holds
    <3>9. Own(p)'
      BY Zenon, <1>1, <2>2, <3>1, <3>8 DEF Own
    <3>10. /\ saved'[p].chain = s /\ \A n \in Nodes \ {p} : prod'[n].at = "idle"
           /\ \A q \in pushes' : q \in pushes
           /\ \A n \in Nodes : chain'[n] = chain[n] /\ saved'[n].chain = saved[n].chain
      BY Zenon, <1>2, <2>2, <3>1
    <3> QED BY Zenon, <1>0, <1>1, <3>9, <3>10, TrunkStep
  <2> QED BY Zenon, <2>2, <2>3, <2>4, <2>5
<1>9. CASE FinalizeBlock(p)
  <2> DEFINE e == [blk |-> b, sigs |-> prod[p].sigs]
             c == Append(chain[p], e)
  <2>1. /\ saved' = saved /\ pushes' = pushes /\ prod[p].at = "sealed"
        /\ \/ chain' = chain /\ prod' = [prod EXCEPT ![p] = Idle]
           \/ /\ ValidBlock(p, e) /\ chain' = [chain EXCEPT ![p] = c]
              /\ prod' = [prod EXCEPT ![p] = [prod[p] EXCEPT !.at = "finalized"]]
    BY Zenon, <1>9 DEF FinalizeBlock
  <2>2. CASE chain' = chain /\ prod' = [prod EXCEPT ![p] = Idle]
    BY Zenon, <1>3, <2>1, <2>2, IdleTyped
  <2>3. CASE /\ ValidBlock(p, e) /\ chain' = [chain EXCEPT ![p] = c]
             /\ prod' = [prod EXCEPT ![p] = [prod[p] EXCEPT !.at = "finalized"]]
    <3>1. prod'[p].at = "finalized" /\ prod'[p].blk = b /\ \A n \in Nodes \ {p} : prod'[n] = prod[n]
      BY Zenon, <1>0, <2>3 DEF Round
    <3>2. e \in Entry /\ e.blk = b /\ b.height = Len(chain[p]) + 1
      BY Zenon, <1>0, <2>3 DEF Entry, ValidBlock, Extends
    <3>3. Len(chain[p]) = Len(s)
      BY Zenon, <1>1, <2>1 DEF Own
    <3> HIDE DEF e
    <3>4. /\ c \in Seq(Entry) /\ Len(c) = Len(s) + 1 /\ c[Len(s) + 1] = e
          /\ \A i \in 1..Len(s) : c[i] = chain[p][i]
      BY SMTT(30), <1>0, <3>2, <3>3
    <3> HIDE DEF c, b, s
    <3>5. Grows(s, c)
      <4>1. \A i \in 1..Len(s) : chain[p][i].blk = s[i].blk
        BY Zenon, <1>1 DEF Grows
      <4>2. Len(s) <= Len(c) /\ Len(c) <= Len(s) + 1
        BY SMTT(30), <1>0, <3>4
      <4> QED BY Zenon, <3>4, <4>1, <4>2 DEF Grows
    <3>6. Holds(c, b)
      <4>1. b.height = Len(s) + 1 /\ b.height \in 1..Len(c)
        BY SMTT(30), <1>0, <3>2, <3>3, <3>4
      <4> QED BY Zenon, <3>2, <3>4, <4>1 DEF Holds
    <3>7. chain'[p] = c /\ \A n \in Nodes \ {p} : chain'[n] = chain[n]
      BY Zenon, <1>0, <2>3
    <3>8. saved'[p].chain = s /\ \A n \in Nodes : saved'[n] = saved[n]
      BY Zenon, <2>1 DEF s
    <3>9. Own(p)'
      BY Zenon, <3>1, <3>5, <3>6, <3>7, <3>8 DEF Own
    <3>10. Stems(c, s)
      BY Zenon, <1>0, <3>4, <3>5, Growing
    <3>11. /\ Grows(saved[p].chain, s) /\ \A n \in Nodes \ {p} : prod'[n].at = "idle"
           /\ \A q \in pushes' : q \in pushes
      BY Zenon, <1>1, <1>2, <2>1, <3>1 DEF s
    <3>12. \A n \in Nodes : /\ chain'[n] \in {chain[n], saved[n].chain} \/ Stems(chain'[n], s)
                            /\ saved'[n].chain = saved[n].chain
      BY Zenon, <3>7, <3>8, <3>10
    <3> QED BY Zenon, <1>0, <3>8, <3>9, <3>11, <3>12, TrunkStep
  <2> QED BY Zenon, <2>1, <2>2, <2>3
<1>10. CASE SaveFinalized(p)
  <2> DEFINE t == chain[p]
  <2>1. /\ chain' = chain /\ pushes' = pushes /\ prod[p].at = "finalized"
        /\ saved' = [saved EXCEPT ![p] = [chain |-> t, bal |-> bal[p]]]
        /\ prod' = [prod EXCEPT ![p] = [prod[p] EXCEPT !.at = "saved"]]
    BY Zenon, <1>10 DEF SaveFinalized
  <2>2. prod'[p].at = "saved" /\ prod'[p].blk = b /\ \A n \in Nodes \ {p} : prod'[n] = prod[n]
    BY Zenon, <1>0, <2>1 DEF Round
  <2>3. saved'[p].chain = t /\ \A n \in Nodes \ {p} : saved'[n] = saved[n]
    BY Zenon, <1>0, <2>1
  <2>4. Holds(t, b) /\ Grows(t, t)
    BY Zenon, <1>0, <1>1, <2>1, Growing DEF Own
  <2>5. Own(p)'
    BY Zenon, <2>1, <2>2, <2>3, <2>4 DEF Own
  <2>6. \A n \in Nodes : saved'[n].chain \in {chain[n], saved[n].chain}
    BY Zenon, <2>3
  <2> QED BY Zenon, <1>0, <1>1, <1>2, <2>1, <2>2, <2>3, <2>5, <2>6, TrunkStep
<1>11. CASE Push(p)
  <2>1. /\ chain' = chain /\ saved' = saved /\ prod[p].at = "saved"
        /\ prod' = [prod EXCEPT ![p] = Idle]
        /\ \/ pushes' = pushes
           \/ pushes' = pushes \cup {[to |-> m, blk |-> b, sigs |-> prod[p].sigs] :
                                         m \in PeerURLs[p] \ Relay}
    BY Zenon, <1>11 DEF Push, KeepChain
  <2>2. Holds(s, b)
    BY Zenon, <1>1, <2>1 DEF Own
  <2>3. \A q \in pushes' : q \in pushes \/ q.blk = b
    BY SMTT(30), <2>1
  <2> QED BY Zenon, <1>3, <2>1, <2>2, <2>3, IdleTyped
<1> QED BY Zenon, <1>4, <1>5, <1>6, <1>7, <1>8, <1>9, <1>10, <1>11


\* ... and so does everything that happens to the chains of the others.
LEMMA TrunkOthers ==
    ASSUME Typed, Heights, Links, OneBlockPerHash, NEW p \in Nodes, Trunk(p),
           \/ \E n \in Nodes : Fetch(n) \/ Crash(n) \/ \E m \in Nodes : CatchUpOnce(n, m)
           \/ \E r \in reqs : \/ CheckHeight(r) \/ ValidateProposal(r) \/ RefuseVote(r)
                              \/ CastVote(r) \/ SilentVote(r) \/ LoseRequest(r)
           \/ \E v \in mail : LoseVote(v)
           \/ \E q \in pushes : DeliverPush(q) \/ LosePush(q)
           \/ UNCHANGED vars
    PROVE  Trunk(p)'
<1> DEFINE s == saved[p].chain
<1>0. /\ \A n \in Nodes : /\ chain[n] \in Seq(Entry) /\ saved[n].chain \in Seq(Entry)
                          /\ Len(chain[n]) \in Nat /\ Height(n) = Len(chain[n])
      /\ s \in Seq(Entry) /\ Len(s) \in Nat
      /\ chain \in [Nodes -> Seq(Entry)] /\ prod \in [Nodes -> Round]
      /\ saved \in [Nodes -> [chain : Seq(Entry), bal : Balances]]
  BY Zenon, TipTyped DEF Typed, ChainsTyped, RoundsTyped, Height
<1>1. /\ Own(p) /\ Grows(s, chain[p])
      /\ \A n \in Nodes \ {p} : prod[n].at = "idle"
      /\ \A n \in Nodes : Stems(chain[n], s) /\ Stems(saved[n].chain, s)
      /\ \A q \in pushes : Holds(s, q.blk)
  BY Zenon DEF Trunk, Own
<1> HIDE DEF s
<1>2. Grows(s, s)
  BY SMTT(30), <1>0 DEF Grows
<1> USE DEF s
<1>3. ASSUME chain' = chain, saved' = saved, pushes' \subseteq pushes,
             \A n \in Nodes : prod'[n].at = prod[n].at /\ prod'[n].blk = prod[n].blk
      PROVE  Trunk(p)'
  BY Zenon, <1>3, TrunkLeft
<1>4. ASSUME \/ \E n \in Nodes : Fetch(n)
             \/ \E r \in reqs : \/ CheckHeight(r) \/ ValidateProposal(r) \/ RefuseVote(r)
                                \/ SilentVote(r) \/ LoseRequest(r)
             \/ \E v \in mail : LoseVote(v)
             \/ \E q \in pushes : LosePush(q)
             \/ UNCHANGED vars
      PROVE  Trunk(p)'
  BY Zenon, <1>3, <1>4 DEF Fetch, CheckHeight, ValidateProposal, RefuseVote, SilentVote,
     LoseRequest, LoseVote, LosePush, KeepChain, vars
<1>5. ASSUME NEW r \in reqs, CastVote(r)
      PROVE  Trunk(p)'
  <2>1. r.blk.proposer \in Nodes
    BY Zenon DEF Typed, RequestsTyped, Proposed
  <2>2. \A n \in Nodes : prod'[n].at = prod[n].at /\ prod'[n].blk = prod[n].blk
    <3>1. \/ prod' = prod
          \/ prod' = [prod EXCEPT ![r.blk.proposer] = [prod[r.blk.proposer] EXCEPT !.got = @ \cup {r.to}]]
      BY Zenon, <1>5 DEF CastVote, PostVote, AnswerVote
    <3>2. prod \in [Nodes -> Round]
      BY Zenon, <1>0
    <3> QED BY SMTT(30), <2>1, <3>1, <3>2 DEF Round
  <2> QED BY Zenon, <1>3, <1>5, <2>2 DEF CastVote, KeepChain
<1>6. ASSUME NEW n \in Nodes, Crash(n)
      PROVE  Trunk(p)'
  <2>1. /\ chain' = [chain EXCEPT ![n] = saved[n].chain] /\ saved' = saved /\ pushes' = pushes
        /\ prod' = [prod EXCEPT ![n] = Idle]
    BY Zenon, <1>6 DEF Crash
  <2>2. /\ \A m \in Nodes \ {p} : prod'[m].at = "idle"
        /\ \A m \in Nodes : chain'[m] \in {chain[m], saved[m].chain} /\ saved'[m].chain = saved[m].chain
    BY Zenon, <1>0, <1>1, <2>1, IdleTyped
  <2>3. Own(p)'
    <3>1. CASE n = p
      <4>1. chain'[p] = s /\ saved'[p].chain = s /\ prod'[p].at = "idle"
        BY Zenon, <1>0, <2>1, <3>1, IdleTyped
      <4> QED BY Zenon, <1>2, <4>1 DEF Own
    <3>2. CASE n # p
      <4>1. chain'[p] = chain[p] /\ saved'[p] = saved[p] /\ prod'[p] = prod[p]
        BY Zenon, <1>0, <2>1, <3>2
      <4> QED BY Zenon, <1>1, <4>1 DEF Own
    <3> QED BY Zenon, <3>1, <3>2
  <2>4. saved'[p].chain = s /\ \A q \in pushes' : q \in pushes
    BY Zenon, <2>1
  <2> QED BY Zenon, <1>0, <1>2, <2>2, <2>3, <2>4, TrunkStep
<1>7. ASSUME NEW n \in Nodes \ {p}, NEW c \in Seq(Entry), NEW x, Adopt(n, c, x), Stems(c, s),
             pushes' \subseteq pushes, prod' = prod
      PROVE  Trunk(p)'
  <2>1. /\ chain'[n] = c /\ saved'[n].chain = c
        /\ \A m \in Nodes \ {n} : chain'[m] = chain[m] /\ saved'[m] = saved[m]
    BY Zenon, <1>0, <1>7 DEF Adopt
  <2>2. chain'[p] = chain[p] /\ saved'[p] = saved[p] /\ prod'[p] = prod[p]
    BY Zenon, <1>7, <2>1
  <2>3. Own(p)'
    BY Zenon, <1>1, <2>2 DEF Own
  <2>4. \A m \in Nodes : /\ chain'[m] \in {chain[m], saved[m].chain} \/ Stems(chain'[m], s)
                         /\ saved'[m].chain \in {chain[m], saved[m].chain} \/ Stems(saved'[m].chain, s)
    BY Zenon, <1>7, <2>1
  <2>5. /\ saved'[p].chain = s /\ \A q \in pushes' : q \in pushes
        /\ \A m \in Nodes \ {p} : prod'[m].at = "idle"
    BY Zenon, <1>1, <1>7, <2>2
  <2> QED BY Zenon, <1>0, <1>2, <2>3, <2>4, <2>5, TrunkStep
<1>8. ASSUME NEW n \in Nodes, NEW m \in Nodes, CatchUpOnce(n, m)
      PROVE  Trunk(p)'
  <2>1. PICK c, x : CaughtUp(n, m, c) /\ Adopt(n, c, x)
    BY Zenon, <1>8, CatchingUp
  <2>2. prod' = prod /\ pushes' = pushes
    BY Zenon, <1>8 DEF CatchUpOnce
  <2>3. /\ c \in Seq(Entry) /\ Len(c) \in Nat
        /\ Len(c) > Len(chain[n]) /\ Len(c) <= Len(chain[m])
        /\ \A i \in 1..Len(c) : \/ i <= Len(chain[n]) /\ c[i] = chain[n][i]
                                \/ i <= Len(chain[m]) /\ c[i] = chain[m][i]
        /\ Linked(c)
        /\ \/ \A i \in 1..Len(chain[n]) : c[i] = chain[n][i]
           \/ \E i \in 1..Len(chain[n]) : chain[n][i].blk.id # chain[m][i].blk.id
    BY Zenon, <1>0, <2>1, TipTyped DEF CaughtUp, Links
  <2>4. /\ Len(chain[n]) \in Nat /\ Len(chain[m]) \in Nat /\ Len(chain[p]) \in Nat
        /\ Len(chain[m]) <= Len(s) + 1
        /\ \A i \in 1..Len(chain[m]) : i < Len(chain[m]) => chain[m][i].blk = s[i].blk
        /\ \A i \in 1..Len(chain[n]) : i < Len(chain[n]) => chain[n][i].blk = s[i].blk
        /\ Len(s) <= Len(chain[p]) /\ \A i \in 1..Len(s) : chain[p][i].blk = s[i].blk
    BY Zenon, <1>0, <1>1 DEF Stems, Grows
  <2> HIDE DEF s
  <2>7. /\ Len(c) \in Nat /\ Len(chain[n]) \in Nat /\ Len(chain[m]) \in Nat
        /\ Len(chain[p]) \in Nat /\ Len(s) \in Nat
        /\ Len(c) > Len(chain[n]) /\ Len(c) <= Len(chain[m])
        /\ Len(chain[m]) <= Len(s) + 1 /\ Len(s) <= Len(chain[p])
    BY Zenon, <1>0, <2>3, <2>4
  <2>5. CASE n # p
    <3>1. ASSUME NEW i \in 1..Len(c), i < Len(c) PROVE c[i].blk = s[i].blk
      <4>0. i \in 1..Len(chain[m]) /\ i < Len(chain[m]) /\ i + 1 \in 1..Len(c) /\ i + 1 \in 1..Len(chain[m])
        BY SMTT(30), <2>7, <3>1
      <4>1. CASE c[i] = chain[m][i]
        BY Zenon, <2>4, <4>0, <4>1
      <4>2. CASE i <= Len(chain[n]) /\ c[i] = chain[n][i] /\ i < Len(chain[n])
        <5>1. i \in 1..Len(chain[n])
          BY SMTT(30), <2>7, <4>2
        <5> QED BY Zenon, <2>4, <4>2, <5>1
      <4>3. CASE c[i] = chain[n][i] /\ i = Len(chain[n])
        <5>1. ~(i + 1 <= Len(chain[n])) /\ i + 1 # 1 /\ (i + 1) - 1 = i /\ i \in 1..Len(chain[n])
          BY SMTT(30), <2>7, <4>3
        <5>2. c[i + 1] = chain[m][i + 1]
          BY Zenon, <2>3, <4>0, <5>1
        <5>3. c[i + 1].blk.parent = c[i].blk.id /\ chain[m][i + 1].blk.parent = chain[m][i].blk.id
          <6>1. Linked(c) /\ Linked(chain[m])
            BY Zenon, <2>3 DEF Links
          <6>2. /\ c[i + 1].blk.parent = c[(i + 1) - 1].blk.id
                /\ chain[m][i + 1].blk.parent = chain[m][(i + 1) - 1].blk.id
            BY Zenon, <4>0, <5>1, <6>1 DEF Linked
          <6> QED BY Zenon, <5>1, <6>2
        <5>4. /\ Mentioned(chain[n][i].blk) /\ Mentioned(chain[m][i].blk)
              /\ chain[n][i].blk \in Block /\ chain[m][i].blk \in Block
          <6>1. chain[n][i] \in Entry /\ chain[m][i] \in Entry
            <7>1. chain[n] \in Seq(Entry) /\ chain[m] \in Seq(Entry)
              BY Zenon, <1>0
            <7> QED BY SMTT(30), <4>0, <5>1, <7>1
          <6> QED BY Zenon, <4>0, <5>1, <6>1 DEF Mentioned, InChains, Entry
        <5>5. chain[n][i].blk = chain[m][i].blk
          BY ZenonT(40), <4>3, <5>2, <5>3, <5>4 DEF OneBlockPerHash
        <5> QED BY Zenon, <2>4, <4>0, <4>3, <5>5
      <4>4. \/ c[i] = chain[m][i]
            \/ i <= Len(chain[n]) /\ c[i] = chain[n][i] /\ i < Len(chain[n])
            \/ c[i] = chain[n][i] /\ i = Len(chain[n])
        <5>1. c[i] = chain[m][i] \/ (i <= Len(chain[n]) /\ c[i] = chain[n][i])
          BY Zenon, <2>3
        <5>2. i <= Len(chain[n]) => i < Len(chain[n]) \/ i = Len(chain[n])
          BY SMTT(30), <2>7
        <5> QED BY Zenon, <5>1, <5>2
      <4> QED BY Zenon, <4>1, <4>2, <4>3, <4>4
    <3>2. Len(c) <= Len(s) + 1
      BY SMTT(30), <2>7
    <3>3. Stems(c, s)
      BY Zenon, <3>1, <3>2 DEF Stems
    <3> QED BY Zenon, <1>7, <2>1, <2>2, <2>3, <2>5, <3>3
  <2>6. CASE n = p
    <3>1. Len(chain[p]) = Len(s) /\ Len(c) = Len(s) + 1 /\ Len(chain[m]) = Len(s) + 1
      BY SMTT(30), <2>6, <2>7
    <3>2. \A i \in 1..Len(s) : i \in 1..Len(chain[m]) /\ i < Len(chain[m])
      BY SMTT(30), <2>7, <3>1
    <3>3. \A i \in 1..Len(s) : c[i] = chain[p][i]
      BY ZenonT(40), <2>3, <2>4, <2>6, <3>1, <3>2
    <3>4. Grows(s, c) /\ Grows(chain[p], c)
      <4>1. Len(s) <= Len(c) /\ Len(c) <= Len(s) + 1
        BY SMTT(30), <2>7, <3>1
      <4> QED BY Zenon, <2>4, <3>1, <3>3, <4>1 DEF Grows
    <3>5. /\ Grows(c, c) /\ Stems(c, c)
          /\ \A b : Holds(s, b) => Holds(c, b)
          /\ \A b : Holds(chain[p], b) => Holds(c, b)
      BY Zenon, <1>0, <2>3, <3>4, Growing
    <3>6. /\ chain'[p] = c /\ saved'[p].chain = c
          /\ \A k \in Nodes \ {p} : chain'[k] = chain[k] /\ saved'[k].chain = saved[k].chain
      BY Zenon, <1>0, <2>1, <2>6 DEF Adopt
    <3>7. Own(p)'
      <4>1. /\ prod[p].at = "finalized" => Holds(chain[p], prod[p].blk)
            /\ prod[p].at = "saved" => Holds(s, prod[p].blk)
        BY Zenon, <1>1 DEF Own, s
      <4> QED BY Zenon, <2>2, <3>5, <3>6, <4>1 DEF Own
    <3>8. /\ Grows(saved[p].chain, c) /\ \A k \in Nodes \ {p} : prod'[k].at = "idle"
          /\ \A q \in pushes' : q \in pushes
          /\ \A k \in Nodes : /\ chain'[k] \in {chain[k], saved[k].chain} \/ Stems(chain'[k], c)
                              /\ saved'[k].chain \in {chain[k], saved[k].chain} \/ Stems(saved'[k].chain, c)
      BY Zenon, <1>1, <2>2, <3>4, <3>5, <3>6 DEF s
    <3> QED BY Zenon, <2>3, <3>6, <3>7, <3>8, TrunkStep
  <2> QED BY Zenon, <2>5, <2>6
<1>9. ASSUME NEW q \in pushes, DeliverPush(q)
      PROVE  Trunk(p)'
  <2> DEFINE n == q.to
             h == q.blk.height
             y == [blk |-> q.blk, sigs |-> q.sigs]
  <2>1. /\ n \in Nodes /\ y.blk = q.blk /\ prod' = prod /\ pushes' \subseteq pushes
        /\ h \in 1..Len(s) /\ s[h].blk = q.blk
    BY Zenon, <1>1, <1>9 DEF Typed, PushesTyped, Pushed, DeliverPush, Holds
  <2>2. CASE KeepChain
    BY Zenon, <1>3, <2>1, <2>2 DEF KeepChain
  <2>3. ASSUME NEW c, NEW x, Delivered(q, c), Adopt(n, c, x)
        PROVE  Trunk(p)'
    <3>1. /\ Len(chain[n]) \in Nat /\ Len(chain[p]) \in Nat
          /\ \A i \in 1..Len(chain[n]) : i < Len(chain[n]) => chain[n][i].blk = s[i].blk
          /\ Len(s) <= Len(chain[p]) /\ \A i \in 1..Len(s) : chain[p][i].blk = s[i].blk
      BY Zenon, <1>0, <1>1, <2>1 DEF Stems, Grows
    <3>2. /\ c \in Seq(Entry) /\ Len(c) \in Nat /\ AtItsHeight(c) /\ Linked(c)
          /\ \A i \in 1..Len(c) : (i <= Len(chain[n]) /\ c[i] = chain[n][i]) \/ c[i] = y
          /\ \/ h = Len(chain[n]) + 1 /\ c = Append(chain[n], y)
             \/ /\ h \in 1..Len(chain[n]) /\ h = Len(c)
                /\ chain[n][h].blk.id # q.blk.id
      <4>1. /\ c \in Seq(Entry) /\ AtItsHeight(c) /\ Linked(c)
            /\ \A i \in 1..Len(c) : (i <= Height(n) /\ c[i] = chain[n][i]) \/ c[i] = y
            /\ \/ Extends(n, q.blk) /\ c = Append(chain[n], y)
               \/ \E i \in 1..Height(n) : i = h /\ i = Len(c) /\ chain[n][i].blk.id # q.blk.id
        BY Zenon, <2>1, <2>3 DEF Delivered, Heights, Links
      <4> QED BY Zenon, <1>0, <2>1, <4>1, TipTyped DEF Extends
    <3> HIDE DEF s, h, y, n
    <3>0. /\ Len(chain[n]) \in Nat /\ Len(chain[p]) \in Nat /\ Len(c) \in Nat
          /\ Len(s) \in Nat /\ Len(s) <= Len(chain[p]) /\ h \in 1..Len(s)
      BY Zenon, <1>0, <2>1, <3>1, <3>2
    <3>3. n # p
      <4>1. CASE n = p /\ h = Len(chain[n]) + 1
        BY SMTT(30), <3>0, <4>1
      <4>2. CASE n = p /\ chain[n][h].blk.id # q.blk.id
        BY Zenon, <2>1, <3>1, <4>2
      <4> QED BY Zenon, <3>2, <4>1, <4>2
    <3>4. Len(c) = h /\ (h = Len(chain[n]) + 1 => c[h] = y)
      <4>1. y \in Entry
        BY Zenon DEF Typed, PushesTyped, Pushed, Entry, y
      <4>2. chain[n] \in Seq(Entry)
        BY Zenon, <1>0, <2>1
      <4>3. CASE h = Len(chain[n]) + 1 /\ c = Append(chain[n], y)
        BY SMTT(30), <4>1, <4>2, <4>3
      <4>4. CASE h \in 1..Len(chain[n]) /\ h = Len(c)
        BY SMTT(30), <3>0, <4>4
      <4> QED BY Zenon, <3>2, <4>3, <4>4
    <3>5. ASSUME NEW i \in 1..Len(c), i < Len(c) PROVE c[i].blk = s[i].blk
      <4>0. i # h /\ h \in 1..Len(c) /\ i \in 1..Len(s)
        BY SMTT(30), <3>0, <3>4, <3>5
      <4>1. c[i] # y
        BY Zenon, <2>1, <3>2, <4>0 DEF AtItsHeight, h
      <4>2. i \in 1..Len(chain[n]) /\ c[i] = chain[n][i]
        <5>1. i <= Len(chain[n]) /\ c[i] = chain[n][i]
          BY Zenon, <3>2, <4>1
        <5>2. i \in 1..Len(chain[n])
          BY SMTT(30), <3>0, <5>1
        <5> QED BY Zenon, <5>1, <5>2
      <4>3. CASE i < Len(chain[n])
        BY Zenon, <3>1, <4>2, <4>3
      <4>4. CASE ~(i < Len(chain[n]))
        <5>1. h = Len(chain[n]) + 1 /\ h - 1 = i /\ h # 1
          <6>1. h = Len(chain[n]) + 1 \/ h \in 1..Len(chain[n])
            BY Zenon, <3>2
          <6> QED BY SMTT(30), <3>0, <3>4, <3>5, <4>2, <4>4, <6>1
        <5>2. c[h].blk.parent = c[i].blk.id /\ s[h].blk.parent = s[i].blk.id
          BY ZenonT(40), <2>1, <3>2, <4>0, <5>1 DEF Links, Linked, s
        <5>3. c[i].blk.id = s[i].blk.id
          BY Zenon, <2>1, <3>4, <5>1, <5>2
        <5>4. /\ Mentioned(chain[n][i].blk) /\ Mentioned(s[i].blk)
              /\ chain[n][i].blk \in Block /\ s[i].blk \in Block
          <6>1. chain[n][i] \in Entry /\ s[i] \in Entry
            <7>1. chain[n] \in Seq(Entry) /\ s \in Seq(Entry)
              BY Zenon, <1>0, <2>1
            <7> QED BY SMTT(30), <4>0, <4>2, <7>1
          <6> QED BY Zenon, <2>1, <4>0, <4>2, <6>1 DEF Mentioned, InChains, InStores, Entry, s
        <5> QED BY Zenon, <4>2, <5>3, <5>4 DEF OneBlockPerHash
      <4> QED BY Zenon, <4>3, <4>4
    <3>6. Len(c) <= Len(s) + 1
      BY SMTT(30), <3>0, <3>4
    <3>7. Stems(c, s)
      BY Zenon, <3>5, <3>6 DEF Stems
    <3> QED BY Zenon, <1>7, <2>1, <2>3, <3>2, <3>3, <3>7
  <2> QED BY Zenon, <1>9, <2>2, <2>3, Delivering
<1> QED BY Zenon, <1>4, <1>5, <1>6, <1>8, <1>9


\* With one producer, every step keeps the trunk.
LEMMA TrunkNext ==
    ASSUME RosterInv, NEW p \in Nodes, Producers = {p}, Trunk(p), [Next]_vars
    PROVE  Trunk(p)'
<1>0. Typed /\ Heights /\ Links /\ OneBlockPerHash
  BY Zenon DEF RosterInv
<1>1. \A n \in Nodes :
        (\/ Propose(n) \/ FleetSign(n) \/ PollVotes(n) \/ CloseRound(n) \/ Seal(n)
         \/ FinalizeBlock(n) \/ SaveFinalized(n) \/ Push(n)) => n = p
  <2> SUFFICES ASSUME NEW n \in Nodes, n # p,
                      \/ Propose(n) \/ FleetSign(n) \/ PollVotes(n) \/ CloseRound(n)
                      \/ Seal(n) \/ FinalizeBlock(n) \/ SaveFinalized(n) \/ Push(n)
               PROVE  FALSE
    BY Zenon
  <2>1. prod[n].at = "idle"
    BY Zenon DEF Trunk
  <2>2. CASE Propose(n) \/ FleetSign(n)
    BY Zenon, <2>2 DEF Propose, FleetSign, Tick
  <2>3. CASE PollVotes(n) \/ CloseRound(n) \/ Seal(n)
    BY Zenon, <2>1, <2>3 DEF PollVotes, CloseRound, Seal
  <2>4. CASE FinalizeBlock(n) \/ SaveFinalized(n) \/ Push(n)
    BY Zenon, <2>1, <2>4 DEF FinalizeBlock, SaveFinalized, Push
  <2> QED BY Zenon, <2>2, <2>3, <2>4
<1>2. \/ \E n \in Nodes : \/ Propose(n) \/ FleetSign(n) \/ PollVotes(n) \/ CloseRound(n)
                          \/ Seal(n) \/ FinalizeBlock(n) \/ SaveFinalized(n) \/ Push(n)
      \/ \E n \in Nodes : Fetch(n) \/ Crash(n) \/ \E m \in Nodes : CatchUpOnce(n, m)
      \/ \E r \in reqs : \/ CheckHeight(r) \/ ValidateProposal(r) \/ RefuseVote(r)
                         \/ CastVote(r) \/ SilentVote(r) \/ LoseRequest(r)
      \/ \E v \in mail : LoseVote(v)
      \/ \E q \in pushes : DeliverPush(q) \/ LosePush(q)
      \/ UNCHANGED vars
  BY Zenon DEF Next, PollProposals, fetchMailboxMessages, Bounded
<1>3. CASE \E n \in Nodes :
               \/ Propose(n) \/ FleetSign(n) \/ PollVotes(n) \/ CloseRound(n)
               \/ Seal(n) \/ FinalizeBlock(n) \/ SaveFinalized(n) \/ Push(n)
  <2>1. \/ Propose(p) \/ FleetSign(p) \/ PollVotes(p) \/ CloseRound(p)
        \/ Seal(p) \/ FinalizeBlock(p) \/ SaveFinalized(p) \/ Push(p)
    BY Zenon, <1>1, <1>3
  <2> QED BY Zenon, <1>0, <2>1, TrunkRounds
<1>4. CASE \/ \E n \in Nodes : Fetch(n) \/ Crash(n) \/ \E m \in Nodes : CatchUpOnce(n, m)
           \/ \E r \in reqs : \/ CheckHeight(r) \/ ValidateProposal(r) \/ RefuseVote(r)
                              \/ CastVote(r) \/ SilentVote(r) \/ LoseRequest(r)
           \/ \E v \in mail : LoseVote(v)
           \/ \E q \in pushes : DeliverPush(q) \/ LosePush(q)
           \/ UNCHANGED vars
  BY Zenon, <1>0, <1>4, TrunkOthers
<1> QED BY Zenon, <1>2, <1>3, <1>4

TrunkInv == \A p \in Nodes : Producers = {p} => Trunk(p)

\* The store of the only producer is the trunk of every chain, whatever
\* crashes and whatever is lost.
THEOREM TrunkInvariant == Spec => []TrunkInv
<1>1. Init => TrunkInv
  <2> SUFFICES ASSUME Init, NEW p \in Nodes PROVE Trunk(p)
    BY Zenon DEF TrunkInv
  <2>1. /\ \A n \in Nodes : /\ chain[n] = <<>> /\ saved[n].chain = <<>>
                            /\ prod[n].at = "idle"
        /\ pushes = {}
    BY Zenon, IdleTyped DEF Init
  <2>2. Grows(<<>>, <<>>) /\ Stems(<<>>, <<>>)
    BY SMTT(30) DEF Grows, Stems
  <2>3. Own(p)
    BY Zenon, <2>1, <2>2 DEF Own
  <2> QED BY Zenon, <2>1, <2>2, <2>3 DEF Trunk
<1>2. RosterInv /\ TrunkInv /\ [Next]_vars => TrunkInv'
  <2> SUFFICES ASSUME RosterInv, TrunkInv, [Next]_vars, NEW p \in Nodes, Producers' = {p}
               PROVE  Trunk(p)'
    BY Zenon DEF TrunkInv
  <2>1. dep' = dep
    BY ZenonT(40), StepCases, QuietSteps
       DEF RosterInv, Propose, FleetSign, CloseRound, Crash, CastVote, UnchangedFaults
  <2>2. Producers = {p}
    BY Zenon, <2>1 DEF Producers
  <2> QED BY Zenon, <2>2, TrunkNext DEF TrunkInv
<1> QED BY <1>1, <1>2, RosterInvariant, PTL DEF Spec

\* A roster with one producer forks at the tip of the shorter chain only,
\* for any number of validators and heights, however often the producer and
\* the others crash and whatever is lost: the block a crash takes from the
\* producer before OnFinalize has saved it was never built upon.
THEOREM ForksAreShallow == Spec => []ForksOnlyAtTip
<1>1. RosterInv /\ TrunkInv => ForksOnlyAtTip
  <2> SUFFICES ASSUME RosterInv, TrunkInv, NEW p \in Nodes, Producers = {p},
                      NEW n \in Nodes, NEW m \in Nodes,
                      NEW h \in 1..Height(n) \cap 1..Height(m),
                      h # Min({Height(n), Height(m)})
               PROVE  chain[n][h].blk.id = chain[m][h].blk.id
    BY Zenon DEF ForksOnlyAtTip
  <2>1. Height(n) \in Nat /\ Height(m) \in Nat
    BY Zenon, TipTyped DEF RosterInv, Typed, ChainsTyped, Height
  <2>2. ASSUME NEW a \in Nat, NEW b \in Nat, NEW i \in 1..a \cap 1..b, i # Min({a, b})
        PROVE  i < a /\ i < b
    <3>1. \E x \in {a, b} : \A y \in {a, b} : x <= y
      BY SMTT(30)
    <3>2. Min({a, b}) \in {a, b} /\ \A y \in {a, b} : Min({a, b}) <= y
      BY Zenon, <3>1 DEF Min
    <3> QED BY SMTT(30), <2>2, <3>2
  <2>3. h < Height(n) /\ h < Height(m)
    BY Zenon, <2>1, <2>2
  <2>4. Stems(chain[n], saved[p].chain) /\ Stems(chain[m], saved[p].chain)
    BY Zenon DEF TrunkInv, Trunk
  <2>5. /\ chain[n][h].blk = saved[p].chain[h].blk
        /\ chain[m][h].blk = saved[p].chain[h].blk
    BY Zenon, <2>3, <2>4 DEF Stems, Height
  <2> QED BY Zenon, <2>5
<1> QED BY <1>1, RosterInvariant, TrunkInvariant, PTL

=============================================================================
