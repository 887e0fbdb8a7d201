---------------------------- MODULE MarketContext ----------------------------
(***************************************************************************)
(* What an agent may see of the market, and when the market is open        *)
(* (src/train_and_eval/environment/contexts.py), together with the         *)
(* rollover count of trading_environment.py, which reads the same clock.   *)
(*                                                                         *)
(* A feature is abstracted to the rows it is computed from: its value on a *)
(* row is fully initialised when all of those rows exist in the frame.     *)
(* Time is counted in ticks from a Monday 00:00 UTC; a tick stands for the *)
(* code's minute and DayTicks for its 1440.  Each zone is a fixed offset   *)
(* from UTC: daylight-saving changes are not modelled.                     *)
(***************************************************************************)
EXTENDS Integers, FiniteSets, FiniteSetsExt

CONSTANTS DayTicks,         \* ticks of one day
          RthOpen,          \* config.rth_open, in ticks of the market day
          RthClose,         \* config.rth_close
          PreSwapTicks,     \* pre_swap_window_minutes
          MarketOffset,     \* config.market_timezone
          SwapOffset        \* config.swap_timezone

ASSUME CalendarAssumption ==
    /\ {DayTicks, PreSwapTicks} \subseteq Nat \ {0}
    /\ {RthOpen, RthClose, MarketOffset, SwapOffset} \subseteq 0 .. DayTicks - 1
    /\ RthOpen < RthClose
    /\ PreSwapTicks < DayTicks

-----------------------------------------------------------------------------
(* A context: [horizons, window_features, rolling_features,                *)
(* include_time_features].                                                 *)

WindowFeatures == {"direction", "range", "body", "upper_wick", "lower_wick", "vol_chg"}

RollingFeatures == {"log_return", "volatility", "range_position", "close_vs_sma",
                    "drawdown_from_high", "rebound_from_low"}

TimeFeatures ==
    {"tod_sin", "tod_cos", "dow_sin", "dow_cos", "rth_active", "rth_sin_half", "rth_cos_half",
     "overnight_active", "overnight_sin_half", "overnight_cos_half",
     "swap_pre_active", "swap_pre_sin_half", "swap_pre_cos_half"}

StateFeatures == {"position", "unrealized_pnl"}

ExtraSourceRows(f) == IF f \in {"log_return", "volatility"} THEN 1 ELSE 0

(* validate_specification: a context the registry accepts.                 *)
ValidSpecification(ctx) ==
    /\ \A h \in ctx.horizons : h > 0
    /\ ctx.window_features \subseteq WindowFeatures
    /\ ctx.rolling_features \subseteq RollingFeatures
    /\ ctx.rolling_features # {} => ctx.horizons # {}

(* Mutant: the row a return compares with is forgotten.        *)
RequiredHistoryRowsOfHorizon(ctx, window) == Max({window} \cup ctx.horizons)

RequiredHistoryRows(ctx, window) ==
    Max({window} \cup {h + ExtraSourceRows(f) : h \in ctx.horizons, f \in ctx.rolling_features})

(* context_feature_names: every rolling feature over every horizon, and    *)
(* the time features, which have none.                                     *)
ContextFeatures(ctx) ==
    (ctx.rolling_features \X ctx.horizons)
        \cup {<<f, 0>> : f \in IF ctx.include_time_features THEN TimeFeatures ELSE {}}

ObservationSize(ctx, window) ==
    window * Cardinality(ctx.window_features) + Cardinality(ContextFeatures(ctx))
        + Cardinality(StateFeatures)

(* The rows one value of a window feature on row r is computed from: only  *)
(* vol_chg looks one row back (volume.shift(1)).                           *)
WindowFeatureRows(f, r) == IF f = "vol_chg" THEN {r - 1, r} ELSE {r}

(* The rows one value of a rolling feature on row r is computed from:      *)
(* log_return compares with close.shift(h), volatility is the deviation of *)
(* h one-bar returns, the others roll over h rows.                         *)
RollingFeatureRows(f, h, r) ==
    CASE f = "log_return" -> {r - h, r}
      [] f = "volatility" -> (r - h) .. r
      [] OTHER            -> (r - h + 1) .. r

(* build_observation at row i: the window features of the last `window`    *)
(* rows and the context features of row i.                                 *)
ObservationRows(ctx, window, i) ==
    UNION ({WindowFeatureRows(f, r) : f \in ctx.window_features, r \in (i - window + 1) .. i}
           \cup {RollingFeatureRows(f, h, i) : f \in ctx.rolling_features, h \in ctx.horizons})

-----------------------------------------------------------------------------
(* The market day: regular trading hours and the night between them.       *)

Weekday(day) == day % 7

MarketDay(t) == (t + MarketOffset) \div DayTicks

MarketMinutes(t) == (t + MarketOffset) % DayTicks

InRth(t) ==
    /\ Weekday(MarketDay(t)) < 5
    /\ MarketMinutes(t) \in RthOpen .. RthClose

AtOpen(day) == day * DayTicks + RthOpen - MarketOffset

AtClose(day) == day * DayTicks + RthClose - MarketOffset

(* The loops of _previous_weekday and _next_weekday skip the weekend.      *)
PreviousWeekday(day) == Max({d \in (day - 3) .. (day - 1) : Weekday(d) < 5})

(* Mutant: the weekend is not skipped.                         *)
NextDay(day) == day + 1

NextWeekday(day) == Min({d \in (day + 1) .. (day + 3) : Weekday(d) < 5})

(* _overnight_features: the closed span a night bar lies in.               *)
OvernightSpan(t) ==
    LET day == MarketDay(t)
        beforeOpen == Weekday(day) < 5 /\ t < AtOpen(day)
        afterClose == Weekday(day) < 5 /\ t > AtClose(day)
    IN  [start |-> IF afterClose THEN AtClose(day) ELSE AtClose(PreviousWeekday(day)),
         end   |-> IF beforeOpen THEN AtOpen(day) ELSE AtOpen(NextWeekday(day))]

-----------------------------------------------------------------------------
(* The rollover.                                                           *)

SwapMinutes(t) == (t + SwapOffset) % DayTicks

SwapDay(t) == (t + SwapOffset) \div DayTicks

(* swap_pre_active: the window before the rollover may begin the day before *)
(* (pre_swap_start > swap_minute).                                         *)
PreSwapActive(t, swapTime) ==
    LET start == (swapTime - PreSwapTicks) % DayTicks
        now   == SwapMinutes(t)
    IN  IF start <= swapTime THEN start <= now /\ now <= swapTime
                             ELSE start <= now \/ now <= swapTime

(* pre_swap_elapsed of a bar in the window.                                *)
PreSwapElapsed(t, swapTime) ==
    LET start == (swapTime - PreSwapTicks) % DayTicks
        now   == SwapMinutes(t)
    IN  IF now >= start THEN now - start ELSE now + DayTicks - start

(* count_swap_boundaries: one boundary on every date of the interval, the  *)
(* weekend included, counted when it lies in (before, after].              *)
CountSwapBoundaries(before, after, swapTime) ==
    Cardinality({day \in SwapDay(before) .. SwapDay(after) :
                   LET boundary == day * DayTicks + swapTime - SwapOffset
                   IN  before < boundary /\ boundary <= after})
=============================================================================
