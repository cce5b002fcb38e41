---------------------------- MODULE RewardKeeper ----------------------------
(***************************************************************************)
(* The reward keeper (reward_keeper.go) and the rule of one reward for a   *)
(* machine and a household (hardware.go).  A cycle reads the nonce of the  *)
(* rewards wallet, settles the payouts it knows of and picks this month's  *)
(* nodes under the lock, then sends one transfer at a time and records     *)
(* each after the chain has answered.                                      *)
(***************************************************************************)
EXTENDS NodeRegistry, SequencesExt

CONSTANTS
    Month,          \* length of a calendar month
    FirstUptime,    \* rewardFirstUptime
    RepeatUptime,   \* rewardRepeatUptime
    StuckAfter,     \* rewardStuckAfter
    FirstReward,    \* rewardActivationSYN
    MonthlyReward,  \* monthlyRewardAmount, before the halvings of 2028
    MonthlyCap      \* cfg.MonthlyCap

ASSUME RewardsAssumption ==
    /\ {Month, FirstUptime, RepeatUptime, StuckAfter, FirstReward, MonthlyReward, MonthlyCap}
            \subseteq Nat \ {0}
    /\ RepeatUptime <= FirstUptime

VARIABLE keeper     \* the running cycle

Idle == [step |-> "idle", at |-> 0, account |-> 0, next |-> 0, queue |-> <<>>]

MonthOf(t) == 1 + t \div Month

-----------------------------------------------------------------------------
(* hardware.go: of the live nodes of a machine, and of a household, only   *)
(* the first to have proved uptime is rewarded.  m is a state of the maps, *)
(* t the time of the cycle.                                                *)

hardwarePrimaryRanksAbove(m, a, b) ==
    LET p == m.peers[a]
        q == m.peers[b]
    IN  \/ p.first # 0 /\ q.first = 0
        \/ p.first # 0 /\ p.first < q.first
        \/ p.first = q.first /\ p.registered < q.registered
        \/ p.first = q.first /\ p.registered = q.registered /\ a < b

Live(m, n, t) ==
    m.peers[n] # None /\ m.peers[n].seen # 0 /\ t - m.peers[n].seen <= StaleAfter

Shares(p, q) ==
    \/ p.machine # None /\ p.machine = q.machine
    \/ p.home # None /\ p.home = q.home

\* SharedHardwareWith or SharedHouseholdWith is set.
Shared(m, n, t) ==
    \E o \in Names \ {n} :
        Live(m, o, t) /\ Shares(m.peers[n], m.peers[o]) /\ hardwarePrimaryRanksAbove(m, o, n)

-----------------------------------------------------------------------------
(* Who is paid.                                                            *)

RowsOf(m, month) == {i \in DOMAIN m.payouts : m.payouts[i].month = month}

Spent(m, month) == MapThenSumSet(LAMBDA i : m.payouts[i].amount, RowsOf(m, month))

PaidNodes(m, month) == {m.payouts[i].node : i \in RowsOf(m, month)}

Qualifies(m, n, t) == Live(m, n, t) /\ Real(m.peers[n]) /\ ~Shared(m, n, t)

NewUptime(p) == p.uptimeAtPaid > 0 => p.uptime - p.uptimeAtPaid >= RepeatUptime

\* Mutant: no look at what was paid this month.
Earned_EveryCycle(m, n, t) ==
    /\ Qualifies(m, n, t)
    /\ m.peers[n].uptime >= FirstUptime
    /\ NewUptime(m.peers[n])

\* rewardIneligibleReason is empty.
Earned(m, n, t) ==
    LET p == m.peers[n]
    IN  /\ Qualifies(m, n, t)
        /\ n \notin PaidNodes(m, MonthOf(t))
        /\ p.paidMonth # MonthOf(t)
        /\ p.uptime >= FirstUptime
        /\ NewUptime(p)

\* The founder's approval file names the address; a node that asks for another
\* is not paid.
Approved(m, n) ==
    /\ scene.approved[n] # None
    /\ m.peers[n].payout \in {None, scene.approved[n]}

rewardAmountFor(p) ==
    IF p.total = 0 /\ p.uptimeAtPaid = 0 THEN FirstReward ELSE MonthlyReward

Candidate(p, n) == [node |-> n, amount |-> rewardAmountFor(p), uptime |-> p.uptime]

Total(q) == FoldLeft(LAMBDA sum, c : sum + c.amount, 0, q)

Queue(m, t) ==
    LET names == {n \in Names : Earned(m, n, t) /\ Approved(m, n)}
        sorted == SetToSortSeq(names, <)
    IN  [i \in DOMAIN sorted |-> Candidate(m.peers[sorted[i]], sorted[i])]

\* In the order of their names, up to the first that would pass the cap.
rewardCandidates(m, t) ==
    LET queue == Queue(m, t)
        fits == {k \in 0..Len(queue) :
                    Spent(m, MonthOf(t)) + Total(SubSeq(queue, 1, k)) <= MonthlyCap}
    IN  SubSeq(queue, 1, Max(fits \cup {0}))

-----------------------------------------------------------------------------
(* A cycle, rewardKeeperCycle.                                             *)

world == <<scene, now, chain, faults>>

\* The month is fixed by the clock at the start.  A failed read ends the cycle.
ReadNonce ==
    /\ scene.pays
    /\ keeper = Idle
    /\ keeper' = [Idle EXCEPT !.step = "settle", !.at = now, !.account = nonce["rewards"]]
    /\ UNCHANGED <<world, server>>

Waiting(po) == po.status \in {"submitted", "stuck"}

Settles(po) == Waiting(po) /\ po.nonce < keeper.account

Settled(po) ==
    IF Settles(po) THEN [po EXCEPT !.status = "confirmed"]
    ELSE IF po.status = "submitted" /\ keeper.at - po.at > StuckAfter
    THEN [po EXCEPT !.status = "stuck"]
    ELSE po

\* The records of the nodes whose payouts are confirmed; at most one waits for
\* a node.
PaidPeer(n) ==
    LET rows == {i \in DOMAIN mem.payouts :
                    mem.payouts[i].node = n /\ Settles(mem.payouts[i])}
        po == mem.payouts[Max(rows)]
    IN  IF ~Known(n) \/ rows = {} THEN peers[n]
        ELSE [peers[n] EXCEPT !.paidMonth = po.month,
                              !.total = @ + po.amount,
                              !.uptimeAtPaid = po.uptime]

Settlement ==
    [mem EXCEPT !.payouts = [i \in DOMAIN @ |-> Settled(@[i])],
                !.peers = [n \in Names |-> PaidPeer(n)]]

StillWaiting == \E i \in DOMAIN mem.payouts :
                    Waiting(mem.payouts[i]) /\ ~Settles(mem.payouts[i])

\* Settling and picking are one critical section.
Settle ==
    /\ keeper.step = "settle"
    /\ ~lock
    /\ IF Settlement # mem THEN ChangeLocked(Settlement) ELSE UNCHANGED server
    /\ LET queue == rewardCandidates(Settlement, keeper.at)
       IN  keeper' = IF StillWaiting \/ queue = <<>> THEN Idle
                     ELSE [keeper EXCEPT !.step = "send", !.next = keeper.account, !.queue = queue]
    /\ UNCHANGED world

Transfer ==
    [wallet |-> "rewards", nonce |-> keeper.next, to |-> Head(keeper.queue).node,
     ref |-> MonthOf(keeper.at), amount |-> Head(keeper.queue).amount]

Send ==
    /\ keeper.step = "send"
    /\ \E answer \in {"ok", "error"} :
          /\ Submit(Transfer, answer)
          /\ keeper' = IF answer = "ok" THEN [keeper EXCEPT !.step = "record"] ELSE Idle
    /\ UNCHANGED <<scene, now, nonce, done, server>>

Payout ==
    [node |-> Transfer.to, month |-> Transfer.ref, amount |-> Transfer.amount,
     nonce |-> Transfer.nonce, uptime |-> Head(keeper.queue).uptime,
     at |-> keeper.at, status |-> "submitted"]

Record ==
    /\ keeper.step = "record"
    /\ ChangeLocked([mem EXCEPT !.payouts = Append(@, Payout)])
    /\ keeper' = IF Len(keeper.queue) = 1 THEN Idle
                 ELSE [keeper EXCEPT !.step = "send", !.next = @ + 1, !.queue = Tail(@)]
    /\ UNCHANGED world
=============================================================================
