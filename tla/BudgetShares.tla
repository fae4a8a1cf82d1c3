---------------------------- MODULE BudgetShares ----------------------------
(***************************************************************************)
(* The compression algorithm of                                            *)
(* backend/src/downloader/budget_scheduler.rs (recompute_locked_inner,     *)
(* steps 1 to 7): how the machine budget m is split into one guaranteed    *)
(* base per account.  Accounts are the domain of the functions `cap`,      *)
(* `requested` and `weight`; the iteration order of the map never matters, *)
(* because every account's extra is computed from figures fixed before its *)
(* pass.                                                                   *)
(***************************************************************************)
EXTENDS Naturals, FiniteSets, FiniteSetsExt

MIN_PER_ACCOUNT == 1

\* RequestedSource::Auto is 0, User(n) is n (AccountSlot::encode_requested).
Auto == 0

AtMost(a, b) == IF a <= b THEN a ELSE b
AtLeast(a, b) == IF a >= b THEN a ELSE b
SatSub(a, b) == IF a >= b THEN a - b ELSE 0   \* usize::saturating_sub

VipCap(threads) == AtLeast(threads, MIN_PER_ACCOUNT)

Requested(source, cap) ==
    IF source = Auto THEN cap ELSE AtLeast(AtMost(source, cap), MIN_PER_ACCOUNT)

TotalMin(accounts) == MIN_PER_ACCOUNT * Cardinality(accounts)

\* A bug: a share is handed out whole, wanted or not.
PassUncapped(base, pot, takers, weight, want) ==
    LET total    == SumFunctionOnSet(weight, takers)
        allowed  == [a \in DOMAIN base |->
                        IF a \in takers THEN (pot * weight[a]) \div total ELSE 0]
    IN  [base |-> [a \in DOMAIN base |-> base[a] + allowed[a]],
         left |-> SatSub(pot, SumFunction(allowed))]

\* A bug: the pot is not reduced by what was handed out.
PassFullPot(base, pot, takers, weight, want) ==
    LET total    == SumFunctionOnSet(weight, takers)
        allowed  == [a \in DOMAIN base |->
                        IF a \in takers THEN AtMost((pot * weight[a]) \div total, want[a]) ELSE 0]
    IN  [base |-> [a \in DOMAIN base |-> base[a] + allowed[a]], left |-> pot]

\* A bug: the division comes before the multiplication.
PassDividesFirst(base, pot, takers, weight, want) ==
    LET total    == SumFunctionOnSet(weight, takers)
        allowed  == [a \in DOMAIN base |->
                        IF a \in takers THEN AtMost((pot \div total) * weight[a], want[a]) ELSE 0]
    IN  [base |-> [a \in DOMAIN base |-> base[a] + allowed[a]],
         left |-> SatSub(pot, SumFunction(allowed))]

\* A bug: the weights count from the wrong end of the table.
PassLightFirst(base, pot, takers, weight, want) ==
    LET total    == SumFunctionOnSet(weight, takers)
        allowed  == [a \in DOMAIN base |->
                        IF a \in takers THEN AtMost((pot * (total - weight[a])) \div total, want[a])
                        ELSE 0]
    IN  [base |-> [a \in DOMAIN base |-> base[a] + allowed[a]],
         left |-> SatSub(pot, SumFunction(allowed))]

\* A pass hands out `pot` in proportion to the weights, each account taking no
\* more than it wants; what is left is returned with the new bases.
Pass(base, pot, takers, weight, want) ==
    LET total    == SumFunctionOnSet(weight, takers)
        extra(a) == (pot * weight[a]) \div total
        allowed  == [a \in DOMAIN base |->
                        IF a \in takers THEN AtMost(extra(a), want[a]) ELSE 0]
    IN  [base |-> [a \in DOMAIN base |-> base[a] + allowed[a]],
         left |-> SatSub(pot, SumFunction(allowed))]

\* Step 6: the first pass, over every account.
FirstPass(m, cap, requested, weight) ==
    LET accounts == DOMAIN cap
    IN  Pass([a \in accounts |-> MIN_PER_ACCOUNT],
             SatSub(m, TotalMin(accounts)), accounts, weight,
             [a \in accounts |-> AtMost(requested[a] - MIN_PER_ACCOUNT,
                                        cap[a] - MIN_PER_ACCOUNT)])

\* Step 7: one more round for the accounts still below what they ask for.  A
\* round that gives nothing out is the loop's early exit: it changes nothing,
\* and neither do the rounds after it.
Round(given, cap, requested, weight) ==
    LET want    == [a \in DOMAIN cap |->
                       SatSub(AtMost(requested[a], cap[a]), given.base[a])]
        needers == {a \in DOMAIN cap : want[a] > 0}
    IN  IF given.left = 0 \/ needers = {} THEN given
        ELSE Pass(given.base, given.left, needers,
                  [a \in DOMAIN cap |-> AtLeast(weight[a], 1)], want)

\* A bug: the remainder of the first pass is never handed out.
NoRounds == 0

MaxRounds == 4

\* base_i of every account, and what no account received.
Shares(m, cap, requested, weight) ==
    LET accounts == DOMAIN cap
        after[n \in 0..MaxRounds] ==
            IF n = 0 THEN FirstPass(m, cap, requested, weight)
            ELSE Round(after[n - 1], cap, requested, weight)
    IN  IF SumFunction(weight) > 0 /\ m > TotalMin(accounts)
        THEN after[MaxRounds]
        ELSE [base |-> [a \in accounts |-> MIN_PER_ACCOUNT],
              left |-> SatSub(m, TotalMin(accounts))]
=============================================================================
