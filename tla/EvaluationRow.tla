---------------------------- MODULE EvaluationRow ----------------------------
(***************************************************************************)
(* The columns and the CHECK constraints of the evaluations table          *)
(* (src/train_and_eval/database/models.py, class Evaluation), each under   *)
(* its name there, as predicates on a row: a record with the columns of    *)
(* the definition, the status and its columns, and the metrics.            *)
(* PostgreSQL refuses to commit a row that breaks one of them.             *)
(*                                                                         *)
(* NULL is NoValue; a fraction is <<numerator, denominator>>.              *)
(***************************************************************************)
EXTENDS PolicySelector

Null(x) == x = NoValue

(* A NULL operand makes a CHECK neither true nor false, and it passes.     *)
NullOr(x, P(_)) == Null(x) \/ P(x)

AtMost(q, r) == q[1] * r[2] <= r[1] * q[2]

Whole(n) == <<n, 1>>

Between(q, low, high) == NullOr(q, LAMBDA x : AtMost(Whole(low), x) /\ AtMost(x, Whole(high)))

-----------------------------------------------------------------------------
(* The columns: those of the definition, which no row may leave out, and   *)
(* those of the metrics, of which a row has values once it is completed.   *)
EvaluationStatuses == {"pending", "running", "completed", "failed", "cancelled"}

DataScopes == {"run_training", "run_validation", "extended_out_of_sample", "custom_range"}

DefinitionColumns(row) ==
    /\ row.status \in EvaluationStatuses
    /\ row.data_scope \in DataScopes
    /\ \A f \in {"data_sha256", "data_rows", "evaluation_start_index", "evaluation_end_index",
                "lookback_rows", "steps_expected", "steps_completed"} : ~Null(row[f])

ScoreColumns == {"agent_return", "always_long_return", "always_short_return",
    "agent_vs_always_long_return", "balanced_score", "agent_max_drawdown",
    "always_long_max_drawdown", "always_short_max_drawdown", "drawdown_improvement",
    "net_exposure", "long_exposure", "short_exposure", "flat_exposure", "market_exposure"}

TradeColumns == {"trade_event_rate", "round_trip_rate", "win_rate", "loss_rate", "breakeven_rate",
    "long_win_rate", "short_win_rate", "avg_trade_return", "avg_win_return", "avg_loss_return",
    "median_trade_return", "long_avg_trade_return", "short_avg_trade_return",
    "long_median_trade_return", "short_median_trade_return", "largest_win_return",
    "largest_loss_return", "gross_profit_return", "gross_loss_return", "net_profit_return",
    "profit_factor", "payoff_ratio", "avg_bars_held", "median_bars_held", "avg_win_streak",
    "avg_loss_streak"}

CostColumns == {"total_fee_return", "total_swap_return", "total_cost_return",
    "avg_fee_per_trade_return", "avg_swap_per_trade_return", "avg_cost_per_trade_return",
    "cumulative_shaped_reward", "open_position_return_at_end"}

(* The integers among them.                                                *)
CountColumns == {"trade_events_total", "round_trips", "winning_trades", "losing_trades",
    "breakeven_trades", "long_round_trips", "short_round_trips", "open_long_count",
    "open_short_count", "close_long_count", "close_short_count", "swap_events",
    "min_bars_held", "max_bars_held", "max_consecutive_wins", "max_consecutive_losses",
    "current_streak"}

StreakTypes == {"none", "win", "loss", "breakeven"}

MetricColumns(m) ==
    /\ DOMAIN m = UNION {ScoreColumns, TradeColumns, CostColumns, CountColumns,
                         {"current_streak_type"}}
    /\ \A f \in CountColumns : NullOr(m[f], LAMBDA n : n \in Int)
    /\ NullOr(m.current_streak_type, LAMBDA s : s \in StreakTypes)

-----------------------------------------------------------------------------
PolicyFields(row) ==
    \/ /\ row.policy_mode \in {"deterministic_argmax", "stochastic_sample"}
       /\ Null(row.threshold_action) /\ Null(row.probability_threshold)
    \/ /\ row.policy_mode = "probability_threshold"
       /\ row.threshold_action \in {NoValue, 1}
       /\ ~Null(row.probability_threshold)
       /\ row.probability_threshold \in 0 .. ProbabilityUnit

CoreMetrics ==
    ScoreColumns
    \cup (CountColumns \ {"min_bars_held", "max_bars_held"})
    \cup {"trade_event_rate", "round_trip_rate", "gross_profit_return", "gross_loss_return",
          "net_profit_return", "current_streak_type", "total_fee_return", "total_swap_return",
          "total_cost_return", "cumulative_shaped_reward", "open_position_return_at_end"}

CompletedCoreMetrics(m) == \A f \in CoreMetrics : ~Null(m[f])

MetricRanges(m) ==
    /\ \A f \in {"agent_max_drawdown", "always_long_max_drawdown", "always_short_max_drawdown",
                 "gross_loss_return"} : m[f] <= 0
    /\ Between(m.net_exposure, -1, 1)
    /\ \A f \in {"long_exposure", "short_exposure", "flat_exposure", "market_exposure",
                 "win_rate", "loss_rate", "breakeven_rate", "long_win_rate", "short_win_rate"} :
           Between(m[f], 0, 1)
    /\ NullOr(m.avg_win_return, LAMBDA q : q[1] > 0)
    /\ NullOr(m.avg_loss_return, LAMBDA q : q[1] < 0)
    /\ NullOr(m.largest_win_return, LAMBDA n : n > 0)
    /\ NullOr(m.largest_loss_return, LAMBDA n : n < 0)
    /\ m.gross_profit_return >= 0
    /\ \A f \in {"trade_event_rate", "round_trip_rate", "profit_factor", "payoff_ratio"} :
           NullOr(m[f], LAMBDA q : q[1] >= 0)

MetricCountsNonnegative(m) ==
    /\ \A f \in CountColumns \ {"min_bars_held", "max_bars_held"} : m[f] >= 0
    /\ \A f \in {"min_bars_held", "max_bars_held"} : NullOr(m[f], LAMBDA n : n >= 1)

TradeCountConsistency(m) ==
    /\ m.round_trips = m.winning_trades + m.losing_trades + m.breakeven_trades
    /\ m.round_trips = m.long_round_trips + m.short_round_trips

(* The columns of a group are all NULL when there is none to measure, and  *)
(* all set otherwise.                                                      *)
SetTogether(m, count, columns) == \A f \in columns : Null(m[f]) <=> count = 0

RoundTripNullability(m) ==
    SetTogether(m, m.round_trips,
        {"win_rate", "loss_rate", "breakeven_rate", "avg_trade_return", "median_trade_return",
         "min_bars_held", "avg_bars_held", "median_bars_held", "max_bars_held",
         "avg_fee_per_trade_return", "avg_swap_per_trade_return", "avg_cost_per_trade_return"})

SideNullability(m) ==
    /\ SetTogether(m, m.long_round_trips,
           {"long_win_rate", "long_avg_trade_return", "long_median_trade_return"})
    /\ SetTogether(m, m.short_round_trips,
           {"short_win_rate", "short_avg_trade_return", "short_median_trade_return"})

WinLossNullability(m) ==
    /\ SetTogether(m, m.winning_trades, {"avg_win_return", "largest_win_return", "avg_win_streak"})
    /\ m.winning_trades = 0 <=> m.max_consecutive_wins = 0
    /\ SetTogether(m, m.losing_trades,
           {"avg_loss_return", "largest_loss_return", "avg_loss_streak", "profit_factor"})
    /\ m.losing_trades = 0 <=> m.max_consecutive_losses = 0
    /\ Null(m.payoff_ratio) <=> m.winning_trades = 0 \/ m.losing_trades = 0

HoldingPeriodOrder(m) ==
    m.round_trips = 0 \/
    \A q \in {m.avg_bars_held, m.median_bars_held} :
        AtMost(Whole(m.min_bars_held), q) /\ AtMost(q, Whole(m.max_bars_held))

StreakConsistency(m) ==
    /\ m.round_trips = 0 => m.current_streak_type = "none" /\ m.current_streak = 0
    /\ m.round_trips > 0 => m.current_streak_type # "none" /\ m.current_streak >= 1

RangeChecks(row) ==
    /\ row.data_rows >= 1
    /\ 0 <= row.evaluation_start_index
    /\ row.evaluation_start_index < row.evaluation_end_index
    /\ row.evaluation_end_index <= row.data_rows
    /\ row.lookback_rows >= 1
    /\ row.steps_expected >= 1
    /\ row.steps_expected = row.evaluation_end_index - row.evaluation_start_index
    /\ row.steps_completed \in 0 .. row.steps_expected

StatusFields(row) ==
    \/ /\ row.status = "pending"
       /\ ~row.started /\ ~row.finished /\ row.steps_completed = 0 /\ ~row.error
    \/ row.status = "running" /\ row.started /\ ~row.finished /\ ~row.error
    \/ /\ row.status = "completed"
       /\ row.started /\ row.finished /\ row.steps_completed = row.steps_expected /\ ~row.error
    \/ row.status = "failed" /\ row.started /\ row.finished /\ row.error

RowAllowed(row) ==
    /\ DefinitionColumns(row)
    /\ PolicyFields(row)
    /\ RangeChecks(row)
    /\ StatusFields(row)
    /\ row.status = "completed" =>
        /\ MetricColumns(row.metrics)
        /\ CompletedCoreMetrics(row.metrics)
        /\ MetricRanges(row.metrics)
        /\ MetricCountsNonnegative(row.metrics)
        /\ TradeCountConsistency(row.metrics)
        /\ RoundTripNullability(row.metrics)
        /\ SideNullability(row.metrics)
        /\ WinLossNullability(row.metrics)
        /\ HoldingPeriodOrder(row.metrics)
        /\ StreakConsistency(row.metrics)
=============================================================================
