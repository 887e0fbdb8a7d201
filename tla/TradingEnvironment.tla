-------------------------- MODULE TradingEnvironment --------------------------
(***************************************************************************)
(* The trading environment (src/train_and_eval/environment/                *)
(* trading_environment.py) as operators on a record: an observation at the *)
(* close of bar i, an action executed at the open of bar i + 1, a reward   *)
(* measured from close to close.                                           *)
(*                                                                         *)
(* Returns are fractions of the stake, counted exactly in units of 1/Unit: *)
(* Unit is a multiple of every price, so price / entry - 1 is an integer   *)
(* number of units.  The floating-point rounding of the code is left out.  *)
(*                                                                         *)
(* A frame is a function from row numbers to bars [t, open, close].  A     *)
(* configuration c has the fields position_side, fee, swapLong, swapShort, swapTime,*)
(* forceClose, profitMult, lossMult, scale, exposurePenalty,               *)
(* turnoverPenalty and drawdownPenalty of EnvironmentSection.              *)
(***************************************************************************)
EXTENDS MarketContext, Sequences

CONSTANTS Unit,         \* units of one stake
          NoEntry       \* entry_index of a flat position

Sides == {"long_only", "short_only", "long_short"}

Positions == {-1, 0, 1}

PositionTargets(side) ==
    CASE side = "long_only"  -> <<0, 1>>
      [] side = "short_only" -> <<0, -1>>
      [] side = "long_short" -> <<0, 1, -1>>

(* action_space of a side: the code's actions count from 0.                *)
Actions(side) == 0 .. Len(PositionTargets(side)) - 1

(* observation_space and action_space.                                     *)
Spaces(c) ==
    [observation |-> ObservationSize(c.context, c.window),
     actions |-> Len(PositionTargets(c.position_side))]

(* Mutant: two rows are asked for after the observed one.      *)
AcceptsStartStrictly(rows, start, required) ==
    rows >= required + 2 /\ start >= required - 1 /\ start < rows - 2

(* _resolve_start_index and the length check of the constructor: the rows  *)
(* an environment accepts.                                                 *)
AcceptsStart(rows, start, required) ==
    /\ rows >= required + 1
    /\ start >= required - 1
    /\ start < rows - 1

(* _reset_state.                                                           *)
ResetState(start) ==
    [current_index |-> start, position |-> 0,
     entry_price |-> 0, entry_index |-> NoEntry, entry_fee_paid |-> 0,
     position_swap_cost |-> 0, position_swap_events |-> 0,
     realized_return |-> 0, equity_peak |-> 0,
     hold_bars |-> 0, steps |-> 0, total_swap_events |-> 0,
     trade_events |-> <<>>, terminated |-> FALSE]

(* position * (price / entry_price - 1).                                   *)
ReturnOf(position, entry, price) == position * ((price * Unit) \div entry - Unit)

UnrealizedReturn(e, price) ==
    IF e.position = 0 THEN 0 ELSE ReturnOf(e.position, e.entry_price, price)

Equity(e, price) == e.realized_return + UnrealizedReturn(e, price)

Drawdown(e, equity) == Max({0, e.equity_peak - equity})

(* The rollovers between two bars charge the position held between them,   *)
(* in the directions that have a rate.                                     *)
SwapRate(c, position) == IF position > 0 THEN c.swapLong ELSE c.swapShort

SwapEvents(e, c, before, after) ==
    IF e.position = 0 \/ SwapRate(c, e.position) <= 0 THEN 0
    ELSE CountSwapBoundaries(before, after, c.swapTime)

(* Mutant: the rollover is noted but not charged.              *)
ApplySwapUnpaid(e, c, before, after) ==
    LET count == SwapEvents(e, c, before, after)
    IN  [e EXCEPT !.position_swap_cost = @ + SwapRate(c, e.position) * count,
                  !.position_swap_events = @ + count,
                  !.total_swap_events = @ + count]

ApplySwap(e, c, before, after) ==
    LET count == SwapEvents(e, c, before, after)
        cost  == SwapRate(c, e.position) * count
    IN  [e EXCEPT !.realized_return = @ - cost,
                  !.position_swap_cost = @ + cost,
                  !.position_swap_events = @ + count,
                  !.total_swap_events = @ + count]

OpenPosition(e, c, target, price, index) ==
    [e EXCEPT !.realized_return = @ - c.fee,
              !.position = target,
              !.entry_price = price,
              !.entry_index = index,
              !.entry_fee_paid = c.fee,
              !.position_swap_cost = 0,
              !.position_swap_events = 0,
              !.hold_bars = 0,
              !.trade_events = Append(@,
                  [event |-> "OPEN", index |-> index, price |-> price,
                   position_before |-> e.position, position_after |-> target,
                   fee |-> c.fee])]

ClosePosition(e, c, price, index) ==
    LET gross == ReturnOf(e.position, e.entry_price, price)
    IN  [e EXCEPT !.realized_return = @ + gross - c.fee,
                  !.position = 0,
                  !.entry_price = 0,
                  !.entry_index = NoEntry,
                  !.entry_fee_paid = 0,
                  !.position_swap_cost = 0,
                  !.position_swap_events = 0,
                  !.hold_bars = 0,
                  !.trade_events = Append(@,
                      [event |-> "CLOSE", index |-> index, price |-> price,
                       position_before |-> e.position, position_after |-> 0,
                       entry_index |-> e.entry_index, entry_price |-> e.entry_price,
                       gross_return |-> gross,
                       net_return |-> gross - e.entry_fee_paid - c.fee - e.position_swap_cost,
                       entry_fee |-> e.entry_fee_paid, close_fee |-> c.fee,
                       swap_cost |-> e.position_swap_cost,
                       swap_events |-> e.position_swap_events,
                       bars_held |-> e.hold_bars])]

(* _apply_target: keep the position, or close the old one and open the new *)
(* one at the same price.                                                  *)
ApplyTarget(e, c, target, price, index) ==
    LET closed == IF e.position = 0 THEN e ELSE ClosePosition(e, c, price, index)
    IN  IF target = e.position THEN e
        ELSE IF target = 0 THEN closed
        ELSE OpenPosition(closed, c, target, price, index)

(* The fees of the events a step has logged.                               *)
FeesSince(e, before) ==
    LET new == (Len(before.trade_events) + 1) .. Len(e.trade_events)
        feeOf(k) == IF e.trade_events[k].event = "OPEN" THEN e.trade_events[k].fee
                    ELSE e.trade_events[k].close_fee
    IN  MapThenSumSet(feeOf, new)

AbsInt(n) == IF n < 0 THEN -n ELSE n

RewardOf(c, rawDelta, exposed, turnover, drawdownIncrease) ==
    rawDelta * (IF rawDelta >= 0 THEN c.profitMult ELSE c.lossMult) * c.scale
    - c.exposurePenalty * exposed
    - c.turnoverPenalty * turnover
    - c.drawdownPenalty * drawdownIncrease * c.scale

(* The end of a step on the bar at index: the position may be closed at    *)
(* the last bar, and the peak follows the equity.                          *)
Settled(e, c, bar, index, done) ==
    LET closed == IF done /\ c.forceClose /\ e.position # 0
                  THEN ClosePosition(e, c, bar.close, index) ELSE e
    IN  [closed EXCEPT !.equity_peak = Max({@, Equity(closed, bar.close)}), !.terminated = done]

(* The info of a step from e to final, of which the runner reads these     *)
(* fields; traded holds the position of the bar.                           *)
StepInfo(e, traded, final, c, before, bar, swap, target) ==
    LET equity == Equity(final, bar.close)
        fell   == Drawdown(final, equity)
    IN  [execution_index |-> final.current_index, execution_timestamp |-> bar.t,
         execution_price |-> bar.open, close_price |-> bar.close,
         target_position |-> target, position |-> final.position,
         position_during_bar |-> traded.position,
         entry_price |-> final.entry_price, realized_return |-> final.realized_return,
         unrealized_return |-> UnrealizedReturn(final, bar.close),
         equity |-> equity, raw_delta |-> equity - before,
         fee_cost |-> FeesSince(final, e),
         swap_cost |-> SwapRate(c, e.position) * swap, swap_events_on_step |-> swap,
         total_swap_events |-> final.total_swap_events,
         turnover |-> AbsInt(target - e.position),
         drawdown |-> fell, terminated |-> final.terminated,
         force_closed |-> final.terminated /\ c.forceClose /\ traded.position # 0,
         reward |-> RewardOf(c, equity - before, AbsInt(traded.position),
                             AbsInt(target - e.position),
                             Max({0, fell - Drawdown(e, before)}))]

(* _step_core of an environment that has not terminated, on a frame of     *)
(* `rows` rows whose row current_index + 1 is known.                       *)
StepCore(e, c, frame, rows, action) ==
    LET here    == frame[e.current_index]
        index   == e.current_index + 1
        bar     == frame[index]
        target  == PositionTargets(c.position_side)[action + 1]
        traded  == ApplyTarget(ApplySwap(e, c, here.t, bar.t), c, target, bar.open, index)
        held    == [traded EXCEPT !.hold_bars = @ + AbsInt(traded.position),
                                  !.current_index = index,
                                  !.steps = @ + 1]
        final   == Settled(held, c, bar, index, index >= rows - 1)
    IN  [environment |-> final,
         info |-> StepInfo(e, traded, final, c, Equity(e, here.close), bar,
                           SwapEvents(e, c, here.t, bar.t), target)]
=============================================================================
