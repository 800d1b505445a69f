----------------------------- MODULE PaperRisk -----------------------------
(***************************************************************************)
(* PAPER sizing and hard portfolio limits (hyperliquid_bot/paper_risk.py), *)
(* for the single-instrument book the PAPER engine builds                  *)
(* (paper_snapshot_for_bounded_book).                                      *)
(*                                                                         *)
(* Units.  A quoted price is a whole number of ticks: above 10,000 the     *)
(* venue grid is the integers (PricePrecision).  Marks, stops and risk     *)
(* prices carry halves and percents of a tick, so every valuation price is *)
(* an integer number of 1/200 ticks (Px) and every amount of money an      *)
(* integer number of 1/200 tick*unit: the exact Decimal arithmetic of the  *)
(* code stays exact.  Fractions of the configuration are whole percents.   *)
(***************************************************************************)
EXTENDS Integers

CONSTANTS
    RiskPerTradePct,      \* risk_per_trade_fraction
    StopPct,              \* effective stop distance: stop_distance * volatility_multiple
    DailyLossPct,         \* daily_loss_fraction
    WeeklyLossPct,        \* weekly_loss_fraction
    DrawdownKillPct,      \* drawdown_kill_fraction
    MaxLeveragePct,       \* max_paper_leverage
    MaxGrossPct,          \* max_gross_exposure_fraction
    MaxNetPct,            \* max_net_exposure_fraction
    MaxAssetPct,          \* max_asset_concentration_fraction
    MaxStrategyPct,       \* max_strategy_concentration_fraction
    MaxVenuePct,          \* max_venue_concentration_fraction
    MaxOpenPositions,     \* max_simultaneous_positions
    Lot                   \* size_increment

ASSUME RiskAssumption ==
    /\ RiskPerTradePct \in 1..99
    /\ StopPct \in 1..99
    /\ {DailyLossPct, WeeklyLossPct, DrawdownKillPct, MaxLeveragePct, MaxGrossPct,
        MaxNetPct, MaxAssetPct, MaxStrategyPct, MaxVenuePct,
        MaxOpenPositions, Lot} \subseteq Nat \ {0}

Abs(x) == IF x < 0 THEN -x ELSE x

Sign(x) == IF x > 0 THEN 1 ELSE IF x < 0 THEN -1 ELSE 0

\* A whole-tick price as a valuation price.
Px(ticks) == 200 * ticks

\* Money value of a signed quantity at a valuation price.
Value(quantity, px) == quantity * px

Signed(side, quantity) == IF side = "BUY" THEN quantity ELSE -quantity

(* Round down to the lot; never round up (floor_size). *)
FloorSize(quantity) == (quantity \div Lot) * Lot

(* size_paper_notional_usdc followed by size_paper_quantity: the largest   *)
(* multiple of the lot whose loss at the stop is within equity * risk.     *)
SizedQuantity(equity, px) == FloorSize((equity * RiskPerTradePct) \div (StopPct * px))

(* paper_position_rejection_reasons for a reconciled position whose key    *)
(* and version are the current ones: the engine takes both from the very   *)
(* position it submits, so only these four reasons remain.                 *)
PositionReasons(position, pending, side, quantity, reduceOnly) ==
    IF pending > 0 THEN {"position_pending"}
    ELSE IF ~reduceOnly THEN {}
    ELSE IF position = 0 THEN {"reduce_only_flat"}
    ELSE IF (side = "BUY") = (position > 0) THEN {"reduce_only_direction"}
    ELSE IF quantity > Abs(position) THEN {"reduce_only_oversize"}
    ELSE {}

(* The gates evaluate_paper_hard_limits applies to an entry, by name, with *)
(* the comparison of each one written without division.                    *)
EntryGates(position, equity, peak, dailyPnl, weeklyPnl, side, quantity, px) ==
    LET exposure  == Value(Abs(position), px)
        proposed  == Value(quantity, px)
        projected == exposure + proposed
        net       == Value(position, px) + Value(Signed(side, quantity), px)
        Above(amount, pct)  == amount * 100 > equity * pct
        LostAtLeast(pnl, pct) == pnl * 100 <= -(equity * pct)
    IN  [risk_based_size            |-> proposed * StopPct > equity * RiskPerTradePct,
         max_paper_leverage         |-> Above(projected, MaxLeveragePct),
         max_gross_exposure         |-> Above(projected, MaxGrossPct),
         max_net_exposure           |-> Above(Abs(net), MaxNetPct),
         max_simultaneous_positions |->
            (IF position = 0 THEN 0 ELSE 1) + (IF exposure = 0 THEN 1 ELSE 0) > MaxOpenPositions,
         max_asset_concentration    |-> Above(projected, MaxAssetPct),
         max_strategy_concentration |-> Above(projected, MaxStrategyPct),
         max_venue_concentration    |-> Above(projected, MaxVenuePct),
         daily_loss_guard           |-> LostAtLeast(dailyPnl, DailyLossPct),
         weekly_loss_guard          |-> LostAtLeast(weeklyPnl, WeeklyLossPct),
         drawdown_kill              |-> (peak - equity) * 100 >= DrawdownKillPct * peak,
         no_averaging_down          |-> exposure > 0]

Failing(gates) == {g \in DOMAIN gates : gates[g]}

(* evaluate_paper_hard_limits: the reasons against an order.  A reduction  *)
(* is exempt from the entry gates; the exposures of a one-instrument book  *)
(* are consistent by construction (paper_snapshot_for_bounded_book), so    *)
(* REASON_POSITION_CONFLICT cannot arise.                                  *)
HardLimitReasons(position, pending, equity, peak, dailyPnl, weeklyPnl, side, quantity, reduceOnly, px) ==
    PositionReasons(position, pending, side, quantity, reduceOnly)
      \cup (IF reduceOnly THEN {}
            ELSE Failing(EntryGates(position, equity, peak, dailyPnl, weeklyPnl, side, quantity, px)))
=============================================================================
