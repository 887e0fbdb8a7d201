-------------------------- MODULE EvaluationMetrics --------------------------
(***************************************************************************)
(* The evaluation metrics (src/train_and_eval/evaluation/metrics.py): what *)
(* calculate_evaluation_metrics accepts and what it returns.  A mean or a  *)
(* rate is a fraction <<numerator, denominator>>; None is NoValue.         *)
(*                                                                         *)
(* The argument of the operators is a record a with the sequences          *)
(* agent_equity, always_long_equity, always_short_equity, positions,       *)
(* shaped_rewards, step_swap_costs, step_swap_events and trade_events and  *)
(* the number open_position_return_at_end.                                 *)
(***************************************************************************)
EXTENDS Integers, Sequences, FiniteSets, SequencesExt, FiniteSetsExt

CONSTANT NoValue

(* The i-th smallest number of K.                                          *)
Nth(K, i) == CHOOSE k \in K : Cardinality({j \in K : j <= k}) = i

(* The elements of s at the positions in K, in their order.                *)
At(s, K) == [i \in 1 .. Cardinality(K) |-> s[Nth(K, i)]]

(* SelectSeq in closed form, which the proofs can take apart.              *)
Kept(s, Test(_)) == At(s, {k \in DOMAIN s : Test(s[k])})

Closes(events) == Kept(events, LAMBDA ev : ev.event = "CLOSE")

Opens(events) == Kept(events, LAMBDA ev : ev.event = "OPEN")

(* The sum of op over a sequence.                                          *)
Total(op(_), s) == MapThenSumSet(LAMBDA k : op(s[k]), DOMAIN s)

Itself(x) == x

MeanOrNone(op(_), s) == IF s = <<>> THEN NoValue ELSE <<Total(op, s), Len(s)>>

(* The value at place n when those of a sequence are sorted.               *)
Ranked(op(_), s, n) ==
    CHOOSE x \in {op(s[k]) : k \in DOMAIN s} :
        /\ Cardinality({k \in DOMAIN s : op(s[k]) < x}) < n
        /\ n <= Cardinality({k \in DOMAIN s : op(s[k]) <= x})

MedianOrNone(op(_), s) ==
    IF s = <<>> THEN NoValue
    ELSE <<Ranked(op, s, (Len(s) + 1) \div 2) + Ranked(op, s, (Len(s) + 2) \div 2), 2>>

LargestOrNone(op(_), s) == IF s = <<>> THEN NoValue ELSE Max({op(s[k]) : k \in DOMAIN s})

SmallestOrNone(op(_), s) == IF s = <<>> THEN NoValue ELSE Min({op(s[k]) : k \in DOMAIN s})

(* The deepest fall of the curve below its running peak; the curve starts  *)
(* at 0 before the first step.                                             *)
MaxDrawdown(equity) ==
    LET curve == <<0>> \o equity
    IN  Min({curve[j] - Max({curve[i] : i \in 1 .. j}) : j \in DOMAIN curve})

Sign(n) == IF n > 0 THEN 1 ELSE IF n < 0 THEN -1 ELSE 0

(* The maximal runs of a sign, as pairs of first and last trade.           *)
Streaks(signs, target) ==
    {s \in (DOMAIN signs) \X (DOMAIN signs) :
        /\ s[1] <= s[2]
        /\ \A k \in s[1] .. s[2] : signs[k] = target
        /\ s[1] > 1 => signs[s[1] - 1] # target
        /\ s[2] < Len(signs) => signs[s[2] + 1] # target}

LongestStreak(signs, target) ==
    Max({0} \cup {streak[2] - streak[1] + 1 : streak \in Streaks(signs, target)})

AverageStreak(signs, target) ==
    IF Streaks(signs, target) = {} THEN NoValue
    ELSE <<Cardinality({k \in DOMAIN signs : signs[k] = target}),
           Cardinality(Streaks(signs, target))>>

CurrentStreakType(signs) ==
    IF signs = <<>> THEN "none"
    ELSE CASE Last(signs) = 1  -> "win"
           [] Last(signs) = -1 -> "loss"
           [] Last(signs) = 0  -> "breakeven"

CurrentStreak(signs) ==
    IF signs = <<>> THEN 0
    ELSE LET last == CHOOSE s \in Streaks(signs, Last(signs)) : s[2] = Len(signs)
         IN  last[2] - last[1] + 1

-----------------------------------------------------------------------------
(* The checks that raise EvaluationMetricsError.                           *)

LengthsAgree(a) ==
    /\ a.agent_equity # <<>>
    /\ \A s \in {a.always_long_equity, a.always_short_equity, a.positions,
                 a.shaped_rewards, a.step_swap_costs, a.step_swap_events} :
           Len(s) = Len(a.agent_equity)

ValuesInRange(a) ==
    \A k \in DOMAIN a.positions :
        /\ a.positions[k] \in {-1, 0, 1}
        /\ a.step_swap_costs[k] >= 0
        /\ a.step_swap_events[k] >= 0

PositionBefore(events, k) == IF k = 1 THEN 0 ELSE events[k - 1].position_after

EventAccepted(events, k) ==
    LET ev == events[k]
    IN  /\ ev.position_before = PositionBefore(events, k)
        /\ IF ev.event = "OPEN"
           THEN /\ ev.position_before = 0
                /\ ev.position_after \in {-1, 1}
                /\ ev.fee >= 0
           ELSE /\ ev.position_before \in {-1, 1}
                /\ ev.position_after = 0
                /\ ev.entry_fee >= 0 /\ ev.close_fee >= 0
                /\ ev.swap_cost >= 0 /\ ev.swap_events >= 0
                /\ ev.bars_held >= 1
                /\ ev.entry_fee = events[k - 1].fee
                /\ ev.net_return = ev.gross_return - ev.entry_fee - ev.close_fee - ev.swap_cost

SwapsAgree(a) ==
    LET closes == Closes(a.trade_events)
    IN  /\ Total(LAMBDA ev : ev.swap_cost, closes) <= Total(Itself, a.step_swap_costs)
        /\ Total(LAMBDA ev : ev.swap_events, closes) <= Total(Itself, a.step_swap_events)

Accepted(a) ==
    /\ LengthsAgree(a)
    /\ ValuesInRange(a)
    /\ \A k \in DOMAIN a.trade_events : EventAccepted(a.trade_events, k)
    /\ SwapsAgree(a)

-----------------------------------------------------------------------------
(* The share of a side's trades, none when there is no trade.              *)
RateOrNone(part, whole) == IF whole = 0 THEN NoValue ELSE <<part, whole>>

PayoffRatio(wins, losses, net(_)) ==
    IF wins = <<>> \/ losses = <<>> THEN NoValue
    ELSE <<Total(net, wins) * Len(losses), -Total(net, losses) * Len(wins)>>

(* The statistics of the closed trades, of the events and of the costs.    *)
TradeMetrics(a) ==
    LET events == a.trade_events
        closes == Closes(events)
        steps  == Len(a.agent_equity)
        net(ev)  == ev.net_return
        held(ev) == ev.bars_held
        longs  == Kept(closes, LAMBDA ev : ev.position_before = 1)
        shorts == Kept(closes, LAMBDA ev : ev.position_before = -1)
        opened(side) == Len(Kept(Opens(events), LAMBDA ev : ev.position_after = side))
        wins   == Kept(closes, LAMBDA ev : net(ev) > 0)
        losses == Kept(closes, LAMBDA ev : net(ev) < 0)
        won(s) == Cardinality({k \in DOMAIN s : net(s[k]) > 0})
    IN [trade_events_total |-> Len(events),
        trade_event_rate |-> <<Len(events), steps>>,
        round_trips |-> Len(closes),
        round_trip_rate |-> <<Len(closes), steps>>,
        winning_trades |-> Len(wins),
        losing_trades |-> Len(losses),
        breakeven_trades |-> Len(Kept(closes, LAMBDA ev : net(ev) = 0)),
        long_round_trips |-> Len(longs),
        short_round_trips |-> Len(shorts),
        open_long_count |-> opened(1),
        open_short_count |-> opened(-1),
        close_long_count |-> Len(longs),
        close_short_count |-> Len(shorts),
        swap_events |-> Total(Itself, a.step_swap_events),
        win_rate |-> RateOrNone(Len(wins), Len(closes)),
        loss_rate |-> RateOrNone(Len(losses), Len(closes)),
        breakeven_rate |-> RateOrNone(Len(closes) - Len(wins) - Len(losses), Len(closes)),
        long_win_rate |-> RateOrNone(won(longs), Len(longs)),
        short_win_rate |-> RateOrNone(won(shorts), Len(shorts)),
        avg_trade_return |-> MeanOrNone(net, closes),
        avg_win_return |-> MeanOrNone(net, wins),
        avg_loss_return |-> MeanOrNone(net, losses),
        median_trade_return |-> MedianOrNone(net, closes),
        long_avg_trade_return |-> MeanOrNone(net, longs),
        short_avg_trade_return |-> MeanOrNone(net, shorts),
        long_median_trade_return |-> MedianOrNone(net, longs),
        short_median_trade_return |-> MedianOrNone(net, shorts),
        largest_win_return |-> LargestOrNone(net, wins),
        largest_loss_return |-> SmallestOrNone(net, losses),
        gross_profit_return |-> Total(net, wins),
        gross_loss_return |-> Total(net, losses),
        net_profit_return |-> Total(net, closes),
        profit_factor |-> RateOrNone(Total(net, wins), -Total(net, losses)),
        payoff_ratio |-> PayoffRatio(wins, losses, net),
        min_bars_held |-> SmallestOrNone(held, closes),
        avg_bars_held |-> MeanOrNone(held, closes),
        median_bars_held |-> MedianOrNone(held, closes),
        max_bars_held |-> LargestOrNone(held, closes)]

(* The event loop's sums of what was paid.                                 *)
CostMetrics(a) ==
    LET closes == Closes(a.trade_events)
        fees(ev) == ev.entry_fee + ev.close_fee
        fee  == Total(LAMBDA ev : IF ev.event = "OPEN" THEN ev.fee ELSE ev.close_fee,
                      a.trade_events)
        swap == Total(Itself, a.step_swap_costs)
    IN [total_fee_return |-> fee,
        total_swap_return |-> swap,
        total_cost_return |-> fee + swap,
        avg_fee_per_trade_return |-> MeanOrNone(fees, closes),
        avg_swap_per_trade_return |-> MeanOrNone(LAMBDA ev : ev.swap_cost, closes),
        avg_cost_per_trade_return |-> MeanOrNone(LAMBDA ev : fees(ev) + ev.swap_cost, closes)]

StreakMetrics(a) ==
    LET closes == Closes(a.trade_events)
        signs  == [k \in DOMAIN closes |-> Sign(closes[k].net_return)]
    IN [max_consecutive_wins |-> LongestStreak(signs, 1),
        max_consecutive_losses |-> LongestStreak(signs, -1),
        avg_win_streak |-> AverageStreak(signs, 1),
        avg_loss_streak |-> AverageStreak(signs, -1),
        current_streak_type |-> CurrentStreakType(signs),
        current_streak |-> CurrentStreak(signs)]

(* What is read off the equity curves and the positions.                   *)
CurveMetrics(a) ==
    LET steps == Len(a.agent_equity)
        share(P(_)) == <<Cardinality({k \in 1 .. steps : P(a.positions[k])}), steps>>
    IN [agent_return |-> Last(a.agent_equity),
        always_long_return |-> Last(a.always_long_equity),
        always_short_return |-> Last(a.always_short_equity),
        agent_vs_always_long_return |-> Last(a.agent_equity) - Last(a.always_long_equity),
        balanced_score |-> Last(a.agent_equity) + MaxDrawdown(a.agent_equity),
        agent_max_drawdown |-> MaxDrawdown(a.agent_equity),
        always_long_max_drawdown |-> MaxDrawdown(a.always_long_equity),
        always_short_max_drawdown |-> MaxDrawdown(a.always_short_equity),
        drawdown_improvement |-> MaxDrawdown(a.agent_equity) - MaxDrawdown(a.always_long_equity),
        net_exposure |-> <<Total(Itself, a.positions), steps>>,
        long_exposure |-> share(LAMBDA p : p = 1),
        short_exposure |-> share(LAMBDA p : p = -1),
        flat_exposure |-> share(LAMBDA p : p = 0),
        market_exposure |-> share(LAMBDA p : p # 0)]

(* The fields of two groups together.                                      *)
Joined(f, g) ==
    [x \in DOMAIN f \cup DOMAIN g |-> IF x \in DOMAIN f THEN f[x] ELSE g[x]]

Metrics(a) ==
    LET rest == [cumulative_shaped_reward |-> Total(Itself, a.shaped_rewards),
                 open_position_return_at_end |-> a.open_position_return_at_end]
    IN  Joined(TradeMetrics(a),
        Joined(CostMetrics(a), Joined(StreakMetrics(a), Joined(CurveMetrics(a), rest))))
=============================================================================
