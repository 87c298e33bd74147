------------------------------ MODULE ExitChurn ------------------------------
(***************************************************************************)
(* The pace at which balance may leave the validator set, from Electra on: *)
(* a queue for exits and one for consolidations, each an epoch that is     *)
(* being filled and what is left of it.  The limit of an epoch follows the *)
(* active balance, which changes from epoch to epoch.                      *)
(***************************************************************************)
EXTENDS Integers, Sequences, SequencesExt

CONSTANTS
  Variants,                         \* "electra" or "gloas"
  Totals, Balances,                 \* total active balances; balances that leave
  LastEpoch, MaxLeaving,            \* bounds: epochs and balances
  Increment,                        \* effective_balance_increment
  MinLimit, MaxLimit,               \* bounds of the limit of activations and exits
  Quotient, ConsolidationQuotient,
  Delay                             \* epochs until an exit takes effect

VARIABLES
  variant, epoch, total,
  kind,               \* the queue that is looked at: "exit" or "consolidation"
  queue,              \* the epoch being filled and what is left of it
  leaving             \* a history: the balances, in order, and their epochs

churnVars == <<variant, epoch, total, kind, queue, leaving>>

Least(a, b) == IF a < b THEN a ELSE b
Most(a, b) == IF a > b THEN a ELSE b
Rounded(n) == n - (n % Increment)

BalanceChurnLimit(t) == Rounded(Most(MinLimit, t \div Quotient))

ActivationExitLimit(t) == Least(MaxLimit, BalanceChurnLimit(t))

ExitLimit(v, t) == IF v = "gloas" THEN BalanceChurnLimit(t) ELSE ActivationExitLimit(t)

ConsolidationLimit(v, t) ==
  IF v = "gloas" THEN Rounded(t \div ConsolidationQuotient)
  ELSE BalanceChurnLimit(t) - ActivationExitLimit(t)

Limit(q, v, t) == IF q = "exit" THEN ExitLimit(v, t) ELSE ConsolidationLimit(v, t)

ActivationExitEpoch(e) == e + 1 + Delay

(* Mutant of Advanced: what an epoch that has passed did not use is carried over. *)
AdvancedKeeping(q, e, limit, balance) ==
  LET earliest == Most(q.earliest, ActivationExitEpoch(e))
      left == IF q.earliest < earliest THEN q.left + limit ELSE q.left
      more == IF balance <= left THEN 0 ELSE ((balance - left - 1) \div limit) + 1
  IN [earliest |-> earliest + more, left |-> left + more * limit - balance]

\* The queue after a balance: the epoch it is assigned is the one it ends in.
Advanced(q, e, limit, balance) ==
  LET earliest == Most(q.earliest, ActivationExitEpoch(e))
      left == IF q.earliest < earliest THEN limit ELSE q.left
      more == IF balance <= left THEN 0 ELSE ((balance - left - 1) \div limit) + 1
  IN [earliest |-> earliest + more, left |-> left + more * limit - balance]

ComputeExitEpochAndUpdateChurn(q, e, v, t, balance) ==
  Advanced(q, e, ExitLimit(v, t), balance)

ComputeConsolidationEpochAndUpdateChurn(q, e, v, t, balance) ==
  Advanced(q, e, ConsolidationLimit(v, t), balance)

ChurnInit ==
  /\ variant \in Variants /\ total \in Totals /\ epoch = 0
  /\ kind \in {"exit", "consolidation"}
  /\ queue = [earliest |-> 0, left |-> 0] /\ leaving = <<>>

Leaves(next, balance) ==
  /\ Len(leaving) < MaxLeaving /\ queue' = next
  /\ leaving' = Append(leaving, [balance |-> balance, epoch |-> next.earliest, asked |-> epoch])
  /\ UNCHANGED <<variant, epoch, total, kind>>

Exit == \E b \in Balances :
  /\ kind = "exit"
  /\ Leaves(ComputeExitEpochAndUpdateChurn(queue, epoch, variant, total, b), b)

\* A consolidation is asked for only where there is a limit for it.
Consolidate == \E b \in Balances :
  /\ kind = "consolidation" /\ ConsolidationLimit(variant, total) > 0
  /\ Leaves(ComputeConsolidationEpochAndUpdateChurn(queue, epoch, variant, total, b), b)

NextEpoch ==
  /\ epoch < LastEpoch /\ epoch' = epoch + 1 /\ total' \in Totals
  /\ UNCHANGED <<variant, kind, queue, leaving>>

ChurnNext == Exit \/ Consolidate \/ NextEpoch

-----------------------------------------------------------------------------
LeftBetween(list, after, until) ==
  SelectSeq(list, LAMBDA x : after < x.epoch /\ x.epoch <= until)

Sum(list) == FoldLeft(LAMBDA t, x : t + x.balance, 0, list)

Limits == {Limit(kind, variant, t) : t \in Totals} \ {0}
Highest == CHOOSE m \in Limits : \A n \in Limits : n <= m
Lowest == CHOOSE m \in Limits : \A n \in Limits : m <= n

(* In any span of epochs no more balance leaves than the limits of those    *)
(* epochs allow, but for the part of the first one that was counted before: *)
(* what an idle epoch did not use is not used later                         *)
(* (compute_exit_epoch_and_update_churn).                                   *)
ChurnPaced ==
  LET epochs == {0} \cup {leaving[i].epoch : i \in DOMAIN leaving}
  IN \A a \in epochs \cup {e - 1 : e \in epochs \ {0}}, b \in epochs :
       LET within == LeftBetween(leaving, a, b)
       IN within # <<>> => Sum(Tail(within)) < (b - a) * Highest

(* Balances leave in the order they asked, never before the delay, and none *)
(* waits beyond those before it: its epoch is at most the one before it has, *)
(* or the first it could have, and as many more as it fills at the lowest   *)
(* limit.                                                                   *)
ChurnFair ==
  \A i \in DOMAIN leaving :
    LET x == leaving[i]
        before == IF i = 1 THEN 0 ELSE leaving[i - 1].epoch
        first == Most(before, ActivationExitEpoch(x.asked))
    IN first <= x.epoch /\ x.epoch <= first + ((x.balance - 1) \div Lowest) + 1
=============================================================================
