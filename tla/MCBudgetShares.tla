--------------------------- MODULE MCBudgetShares ---------------------------
(***************************************************************************)
(* BudgetShares against what the split promises, for every small machine   *)
(* budget, every VIP level and every request of a few accounts.  A state   *)
(* is one input, and after Recompute its result.                           *)
(***************************************************************************)
EXTENDS BudgetShares

CONSTANTS Accounts, MaxBudget, Levels, Sources, WeightOf, ThreadsOf

VARIABLES m, cap, requested, weight, result

vars == <<m, cap, requested, weight, result>>

None == [base |-> [a \in Accounts |-> 0], left |-> 0]

Init ==
    /\ m \in 1..MaxBudget
    /\ \E level \in [Accounts -> Levels], threads \in ThreadsOf, weights \in WeightOf :
        /\ cap = [a \in Accounts |-> VipCap(threads[level[a]])]
        /\ weight = [a \in Accounts |-> weights[level[a]]]
    /\ \E source \in [Accounts -> Sources] :
        requested = [a \in Accounts |-> Requested(source[a], cap[a])]
    /\ result = None

Recompute ==
    /\ result = None
    /\ result' = Shares(m, cap, requested, weight)
    /\ UNCHANGED <<m, cap, requested, weight>>

Next == Recompute

Spec == Init /\ [][Next]_vars

Done == result # None
Sum(f) == SumFunction(f)
Enough == m >= TotalMin(Accounts)

\* Every account keeps its minimum and none gets more than it asked for or than
\* its VIP level allows: the base never promises what the account's own
\* semaphore would refuse (steps 1, 2 and 4).
BaseWithinRequest ==
    Done => \A a \in Accounts :
        result.base[a] \in MIN_PER_ACCOUNT..AtMost(requested[a], cap[a])

\* The bases and the remainder add up to the budget exactly, so that the
\* guaranteed threads never exceed the machine's when it has one per account.
SplitsExactly == Done /\ Enough => Sum(result.base) + result.left = m

\* An account that did not get all it asked for has at least its proportional
\* share of what the minimums leave, rounded down: no later round takes a
\* share away, and the share depends on the weights of all accounts.  (A weight
\* table of zeros, which a configuration file may hold, gives no proportion.)
ProportionalFloor ==
    Done /\ Enough /\ Sum(weight) > 0 => \A a \in Accounts :
        \/ result.base[a] = requested[a]
        \/ result.base[a] >=
              1 + ((m - TotalMin(Accounts)) * weight[a]) \div Sum(weight)

\* Same request and a higher or equal weight never means a smaller base.
WeightMonotone ==
    Done => \A a, b \in Accounts :
        weight[a] >= weight[b] /\ requested[a] >= requested[b]
            => \/ result.base[a] >= result.base[b]
               \/ result.base[a] = requested[a]
=============================================================================
