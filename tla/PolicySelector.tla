---------------------------- MODULE PolicySelector ----------------------------
(***************************************************************************)
(* How an evaluation turns the policy's action probabilities into one      *)
(* action (src/train_and_eval/ppo/policy.py, PPOPolicySelector).           *)
(*                                                                         *)
(* A distribution is a sequence of weights that add up to ProbabilityUnit, *)
(* one per action; action 0 is FLAT and actions count from 0 as in the     *)
(* code.  NoValue is the null of threshold_action and of                   *)
(* probability_threshold.                                                  *)
(***************************************************************************)
EXTENDS Integers, Sequences, FiniteSets

CONSTANTS NoValue, ProbabilityUnit

ASSUME ProbabilityAssumption == ProbabilityUnit \in Nat \ {0}

PolicyModes == {"deterministic_argmax", "stochastic_sample", "probability_threshold"}

(* What __post_init__ accepts.                                             *)
SelectorAccepts(mode, actionCount, thresholdAction, threshold) ==
    IF mode # "probability_threshold"
    THEN thresholdAction = NoValue /\ threshold = NoValue
    ELSE /\ threshold # NoValue
         /\ threshold \in 0 .. ProbabilityUnit
         /\ \/ actionCount = 2 /\ thresholdAction = 1
            \/ actionCount = 3 /\ thresholdAction = NoValue

(* The distributions over n actions that _distribution lets through.       *)
Distributions(n) ==
    {d \in [1 .. n -> 0 .. ProbabilityUnit] :
        IF n = 2 THEN d[1] + d[2] = ProbabilityUnit
                 ELSE d[1] + d[2] + d[3] = ProbabilityUnit}

Weight(d, action) == d[action + 1]

(* numpy argmax: the first of the largest.                                 *)
Argmax(d) ==
    CHOOSE a \in 0 .. Len(d) - 1 :
        \A b \in 0 .. Len(d) - 1 :
            Weight(d, a) > Weight(d, b) \/ (Weight(d, a) = Weight(d, b) /\ a <= b)

(* The action a threshold policy would take: the only direction of two     *)
(* actions, the likelier direction of three, none on a tie.                *)
Direction(d) ==
    IF Len(d) = 2 THEN 1
    ELSE IF Weight(d, 1) > Weight(d, 2) THEN 1
    ELSE IF Weight(d, 2) > Weight(d, 1) THEN 2
    ELSE 0

ThresholdAction(d, threshold) ==
    IF Direction(d) # 0 /\ Weight(d, Direction(d)) >= threshold THEN Direction(d) ELSE 0

(* The actions select may return for a distribution; only sampling leaves  *)
(* a choice.                                                               *)
Selected(mode, d, threshold) ==
    CASE mode = "deterministic_argmax"  -> {Argmax(d)}
      [] mode = "stochastic_sample"     -> {a \in 0 .. Len(d) - 1 : Weight(d, a) > 0}
      [] mode = "probability_threshold" -> {ThresholdAction(d, threshold)}
=============================================================================
