------------------------------ MODULE TradingGym ------------------------------
(****************************************************************************)
(* The environment the reinforcement-learning agent trades in               *)
(* (models/trading_env.py): its portfolio is rebalanced to the weights of   *)
(* an action at the prices of a step and valued at those of the next.       *)
(* Values are integers that the divisions below leave whole.                *)
(****************************************************************************)
EXTENDS Integers, FiniteSetsExt

CONSTANTS GymSymbols, GymPrices,
          GymCapital,      \* initial_capital
          WeightDiv,       \* one over max_position_pct
          CostDiv,         \* one over transaction_cost_pct
          MaxSteps         \* steps of an episode

ASSUME GymAssumption ==
    /\ GymPrices \subseteq Nat \ {0} /\ GymCapital \in Nat \ {0}
    /\ WeightDiv \in Nat \ {0} /\ CostDiv \in Nat \ {0} /\ MaxSteps \in Nat

VARIABLES gymStep, gymValue, gymCash, gymPeak,
          gymShares, gymPrices,
          gymEarned,   \* history: what the positions earned between steps
          gymTraded    \* history: the value of the shares that changed hands

gymVars == <<gymStep, gymValue, gymCash, gymPeak, gymShares, gymPrices, gymEarned, gymTraded>>

SumOver(f(_)) == MapThenSumSet(f, GymSymbols)
Abs(x) == IF x < 0 THEN -x ELSE x
Worth(shares, prices) == LET v(s) == shares[s] * prices[s] IN SumOver(v)

\* What an action's weights, -1, 0 or 1 of the most allowed, come to.
TargetValue(action, s) == action[s] * (gymValue \div WeightDiv)

\* The cost is charged on the change of the weights, at the prices of the step.
TransactionCost(action) ==
    LET change(s) == Abs(TargetValue(action, s) - gymShares[s] * gymPrices[s])
    IN SumOver(change) \div CostDiv

CashBeside(shares) == gymValue - Worth(shares, gymPrices)

GymReset ==
    /\ gymStep = MaxSteps
    /\ gymStep' = 0 /\ gymValue' = GymCapital /\ gymCash' = GymCapital /\ gymPeak' = GymCapital
    /\ gymShares' = [s \in GymSymbols |-> 0]
    /\ gymEarned' = 0 /\ gymTraded' = 0
    /\ gymPrices' \in [GymSymbols -> GymPrices]

GymAct(action, next) ==
    /\ gymStep < MaxSteps
    /\ gymShares' = [s \in GymSymbols |-> TargetValue(action, s) \div gymPrices[s]]
    /\ gymCash' = CashBeside(gymShares')
    /\ gymValue' = gymCash' + Worth(gymShares', next) - TransactionCost(action)
    /\ gymPeak' = Max({gymPeak, gymValue'})
    /\ gymPrices' = next /\ gymStep' = gymStep + 1
    /\ gymEarned' = gymEarned + Worth(gymShares', next) - Worth(gymShares', gymPrices)
    /\ gymTraded' = gymTraded +
         LET moved(s) == Abs(gymShares'[s] - gymShares[s]) * gymPrices[s] IN SumOver(moved)

GymInit ==
    /\ gymStep = 0 /\ gymValue = GymCapital /\ gymCash = GymCapital /\ gymPeak = GymCapital
    /\ gymShares = [s \in GymSymbols |-> 0]
    /\ gymPrices = [s \in GymSymbols |-> Min(GymPrices)]
    /\ gymEarned = 0 /\ gymTraded = 0

GymNext ==
    \/ GymReset
    \/ \E action \in [GymSymbols -> {-1, 0, 1}], next \in [GymSymbols -> GymPrices] :
         GymAct(action, next)

--------------------------------------------------------------------------------
(* Properties. *)

\* Whatever the agent does, no money comes from nowhere: the portfolio is the capital,
\* what its positions earned, less the rate on every share that changed hands (step).
GymBooksBalance == gymValue = GymCapital + gymEarned - gymTraded \div CostDiv

================================================================================
