----------------------------- MODULE PaperEngine -----------------------------
(***************************************************************************)
(* The PAPER strategy runner (hyperliquid_bot/paper_engine/engine.py).     *)
(*                                                                         *)
(* The engine is sequential: on_event and on_clock each run a fixed        *)
(* pipeline of methods that update the engine object.  The object is the   *)
(* record eng; every method is an operator from a record to a record, and  *)
(* an action applies the whole pipeline of its handler.  What the engine   *)
(* cannot control is nondeterministic: which quotes, prints and marks      *)
(* arrive, their receive times (late ones included), the caller's clock,   *)
(* the strategy's targets and an exception in the strategy.  Writing the   *)
(* run directory, its failures and close() are the subject of PaperRun.    *)
(* The rejection and order deques and the text of ledger lines are left    *)
(* out; their counts are kept.                                             *)
(***************************************************************************)
EXTENDS PaperExecution, FiniteSets

CONSTANTS
    StartingCash,     \* starting_cash_usdc, in money units
    Latency,          \* latency_ns
    TouchRefill,      \* touch_refill_ns
    StaleAfter,       \* stale_after_ns
    CreatedNs,        \* created_at_utc in ns
    MaxPosition,      \* max_position_quantity
    MaxNotional,      \* max_notional_usdc, in money units
    MinNotional,      \* min_order_notional_usdc, in money units
    DaysPerWeek,      \* length of the loss week in event days (7 in the code)
    Bbos,             \* quotes the feed may show: [bid, bidSize, ask, askSize]
    Trades,           \* prints the feed may show: [price, size]
    Marks,            \* venue marks the feed may show, None included
    Targets,          \* target quantities the strategy may ask for
    NoTarget,         \* the strategy answers None
    WrongInstrument,  \* the strategy answers a target for another instrument
    Days,             \* event days the feed may stamp
    Offsets,          \* receive times of events and ticks, relative to the source clock
    MaxCalls          \* bound: handler calls per behaviour

ASSUME EngineAssumption ==
    /\ StartingCash \in Nat \ {0}
    /\ {Latency, CreatedNs, MaxNotional, MinNotional, MaxCalls} \subseteq Nat
    /\ {TouchRefill, StaleAfter, MaxPosition, DaysPerWeek} \subseteq Nat \ {0}
    /\ Targets \subseteq Int
    /\ NoTarget \notin Int /\ WrongInstrument \notin Int /\ NoTarget # WrongInstrument
    /\ Offsets \subseteq Int
    /\ Days \subseteq Nat
    /\ \A b \in Bbos : /\ b.bid \in (Nat \ {0}) \cup {None}
                       /\ b.ask \in (Nat \ {0}) \cup {None}
                       /\ b.bidSize \in Nat \cup {None}
                       /\ b.askSize \in Nat \cup {None}
    /\ \A t \in Trades : t.price \in Nat \ {0} /\ t.size \in Nat \ {0}
    /\ \A m \in Marks : m \in (Nat \ {0}) \cup {None}

VARIABLES
    eng,              \* the PaperEngine object
    failed,           \* _failed: an exception left an event half applied
    calls             \* handler calls so far (bounds the model only)

vars == <<eng, failed, calls>>

-----------------------------------------------------------------------------
(* Freshness of cached sources. *)

MaxOf(a, b) == IF a > b THEN a ELSE b

AdvanceSourceClock(e, ns) == [e EXCEPT !.sourceClock = MaxOf(@, ns)]

SourceIsFresh(e, ns) == e.sourceClock - ns <= StaleAfter

(* Mutant: a gap of exactly stale_after_ns counts. *)
StaleGapEarly(e, ns) == e.lastData # None /\ ns - e.lastData >= StaleAfter

StaleGap(e, ns) == e.lastData # None /\ ns - e.lastData > StaleAfter

BookComplete(e) == e.bbo # None /\ SourceIsFresh(e, e.bbo.ns) /\ BboIsComplete(e.bbo)

TradeFresh(e) == e.trade # None /\ SourceIsFresh(e, e.trade.ns)

(* _current_touch_event: a complete fresh book, else a fresh print. *)
CurrentTouch(e) == IF BookComplete(e) THEN e.bbo ELSE IF TradeFresh(e) THEN e.trade ELSE None

(* _display_mark: the venue mark when at least as recent, else the mid.    *)
(* _bbo_mark and _bbo_mark_ns are always the mid and time of _bbo.         *)
DisplayMark(e) ==
    IF /\ e.venueMark # None
       /\ SourceIsFresh(e, e.venueMark.ns)
       /\ ~BookComplete(e) \/ e.venueMark.ns >= e.bbo.ns
    THEN Px(e.venueMark.price)
    ELSE IF BookComplete(e) THEN BboMid(e.bbo) ELSE None

EquityAt(book, mark) ==
    IF book.quantity = 0 THEN book.cash
    ELSE IF mark = None THEN None
    ELSE book.cash + Value(book.quantity, mark)

Equity(e) == EquityAt(e.book, DisplayMark(e))

(* _update_market.  A bar only reaches the strategy's view. *)
UpdateMarket(e, ev) ==
    CASE ev.kind = "bbo"   -> [e EXCEPT !.bbo = ev]
      [] ev.kind = "trade" -> [e EXCEPT !.trade = ev, !.tradeCount = @ + 1, !.tradeTaken = 0]
      [] ev.kind = "mark"  -> [e EXCEPT !.venueMark = IF ev.price = None THEN None ELSE ev]
      [] ev.kind = "bar"   -> e

-----------------------------------------------------------------------------
(* Kill switch and loss windows. *)

HaltNew(e, reason) ==
    IF e.kill = "NONE" THEN [e EXCEPT !.kill = "HALT_NEW", !.killReason = reason] ELSE e

FlattenHalt(e, reason) ==
    IF e.kill = "FLATTEN_HALT" THEN e
    ELSE [e EXCEPT !.kill = "FLATTEN_HALT", !.killReason = reason]

ReleaseHalt(e, reason) ==
    IF e.kill = "HALT_NEW" /\ e.killReason = reason
    THEN [e EXCEPT !.kill = "NONE", !.killReason = "none"] ELSE e

WeekOf(day) == day \div DaysPerWeek

(* Mutant: the end of a day lifts a weekly halt too. *)
RollWindowsLiftsAny(e, day, equity) ==
    IF e.day = None THEN [e EXCEPT !.day = day]
    ELSE LET begun == [e EXCEPT !.day = day, !.dayStart = equity]
             d == IF day > e.day
                  THEN ReleaseHalt(ReleaseHalt(begun, "daily_loss"), "weekly_loss")
                  ELSE e
         IN  IF WeekOf(day) > WeekOf(e.day) THEN [d EXCEPT !.weekStart = equity] ELSE d

(* _roll_windows.  _week is always the week of _day. *)
RollWindows(e, day, equity) ==
    IF e.day = None THEN [e EXCEPT !.day = day]
    ELSE LET d == IF day > e.day
                  THEN ReleaseHalt([e EXCEPT !.day = day, !.dayStart = equity], "daily_loss")
                  ELSE e
         IN  IF WeekOf(day) > WeekOf(e.day)
             THEN ReleaseHalt([d EXCEPT !.weekStart = equity], "weekly_loss")
             ELSE d

DrawdownBreached(e, equity) == (e.peak - equity) * 100 >= DrawdownKillPct * e.peak
DailyLossBreached(e, equity) == (equity - e.dayStart) * 100 <= -(e.dayStart * DailyLossPct)
WeeklyLossBreached(e, equity) == (equity - e.weekStart) * 100 <= -(e.weekStart * WeeklyLossPct)

(* Mutant: the limits are checked first and the windows rolled after. *)
LimitsAtThenRoll(e, day, equity) ==
    LET marked == [e EXCEPT !.peak = MaxOf(@, equity)]
        daily  == IF DailyLossBreached(e, equity) THEN HaltNew(marked, "daily_loss") ELSE marked
        weekly == IF WeeklyLossBreached(e, equity) THEN HaltNew(daily, "weekly_loss") ELSE daily
    IN  IF equity = None THEN HaltNew(e, "missing_price")
        ELSE IF DrawdownBreached(marked, equity) THEN FlattenHalt(marked, "drawdown")
        ELSE RollWindows(weekly, day, equity)

MarkedPeak(e, day, equity) ==
    LET rolled == RollWindows(e, day, equity)
    IN  [rolled EXCEPT !.peak = MaxOf(@, equity)]

MarkedPnl(e, equity) ==
    [e EXCEPT !.dailyPnl = equity - e.dayStart, !.weeklyPnl = equity - e.weekStart]

HaltOnLoss(e, equity) ==
    LET daily == IF DailyLossBreached(e, equity) THEN HaltNew(e, "daily_loss") ELSE e
    IN  IF WeeklyLossBreached(e, equity) THEN HaltNew(daily, "weekly_loss") ELSE daily

(* A drawdown returns before the loss windows are read. *)
LimitsChecked(marked, equity) ==
    IF DrawdownBreached(marked, equity) THEN FlattenHalt(marked, "drawdown")
    ELSE HaltOnLoss(MarkedPnl(marked, equity), equity)

LimitsAt(e, day, equity) ==
    IF equity = None THEN HaltNew(e, "missing_price")
    ELSE LimitsChecked(MarkedPeak(e, day, equity), equity)

(* _mark_limits. *)
MarkLimits(e, day) == LimitsAt(e, day, Equity(e))

-----------------------------------------------------------------------------
(* What PAPER may still take from a quote. *)

HeldBack(e, side, price, ns) ==
    {h \in e.bookTaken : h.side = side /\ h.price = price /\ h.until > ns}

TakenFrom(e, quote, side, ns) ==
    IF quote.kind = "trade" THEN e.tradeTaken
    ELSE LET held == HeldBack(e, side, Displayed(quote, side).price, ns)
         IN  IF held = {} THEN 0 ELSE (CHOOSE h \in held : TRUE).quantity

(* Mutant: PAPER's own fills are forgotten. *)
AvailableAsDisplayed(e, quote, side, ns) == Displayed(quote, side).size

(* _available: the size left at the touch. *)
Available(e, quote, side, ns) ==
    MaxOf(Displayed(quote, side).size - TakenFrom(e, quote, side, ns), 0)

(* A displayed size of zero is a missing touch, not a used-up one. *)
QuoteUsedUp(e, quote, side, ns) ==
    /\ Displayed(quote, side).size > 0
    /\ Available(e, quote, side, ns) = 0

TouchUsedUp(e, side, ns) ==
    CurrentTouch(e) # None /\ QuoteUsedUp(e, CurrentTouch(e), side, ns)

(* Mutant: a fill forgets every other hold, not only the expired ones. *)
TakeTouchForgetsHolds(e, quote, side, quantity, ns) ==
    IF quote.kind = "trade" THEN [e EXCEPT !.tradeTaken = @ + quantity]
    ELSE [e EXCEPT !.bookTaken =
            {[side |-> side, price |-> Displayed(quote, side).price,
              quantity |-> quantity + TakenFrom(e, quote, side, ns), until |-> ns + TouchRefill]}]

TakeTouch(e, quote, side, quantity, ns) ==
    IF quote.kind = "trade" THEN [e EXCEPT !.tradeTaken = @ + quantity]
    ELSE LET price == Displayed(quote, side).price
             kept  == {h \in e.bookTaken : h.until > ns /\ ~(h.side = side /\ h.price = price)}
         IN  [e EXCEPT !.bookTaken = kept \cup
                {[side |-> side, price |-> price,
                  quantity |-> quantity + TakenFrom(e, quote, side, ns),
                  until |-> ns + TouchRefill]}]

-----------------------------------------------------------------------------
(* Orders. *)

(* _reject: one record when a block starts, not one per re-evaluation. *)
Reject(e, reason, detail, desired) ==
    LET key == [reason |-> reason, detail |-> detail, kill |-> e.kill, desired |-> desired]
    IN  IF key = e.lastBlock THEN e
        ELSE [e EXCEPT !.lastBlock = key, !.rejectionCount = @ + 1]

(* Mutant: a canceled order is not counted. *)
CancelWorkingUncounted(e) == [e EXCEPT !.working = None]

CancelWorking(e) ==
    IF e.working = None THEN e ELSE [e EXCEPT !.working = None, !.orderCount = @ + 1]

DesiredOrder(position, target) ==
    LET delta == target - position
        side  == IF delta > 0 THEN "BUY" ELSE "SELL"
        reduces == position # 0 /\ Sign(delta) = -Sign(position)
    IN  IF delta = 0 THEN None
        ELSE [side |-> side, reduceOnly |-> reduces,
              quantity |-> IF reduces /\ Abs(delta) > Abs(position) THEN Abs(position) ELSE Abs(delta)]

FlattenDesired(position) ==
    [side |-> IF position > 0 THEN "SELL" ELSE "BUY", reduceOnly |-> TRUE, quantity |-> Abs(position)]

SameDesire(working, desired) ==
    /\ working.side = desired.side
    /\ working.desired = desired.quantity
    /\ working.reduceOnly = desired.reduceOnly

(* Without a mark a reduction values the position at its own price. *)
RiskEquity(e, px, reduceOnly) ==
    IF reduceOnly /\ Equity(e) = None THEN e.book.cash + Value(e.book.quantity, px) ELSE Equity(e)

RiskRefusal(owned, equity, hard, reduceOnly) ==
    IF owned # {} THEN [reason |-> "paper_risk", detail |-> owned]
    ELSE IF equity = None THEN [reason |-> "missing_price", detail |-> {"equity"}]
    ELSE IF equity <= 0
      THEN IF reduceOnly THEN None ELSE [reason |-> "non_positive_equity", detail |-> {}]
    ELSE IF hard # {} THEN [reason |-> "paper_risk", detail |-> hard]
    ELSE None

RiskBlockAt(e, side, quantity, px, reduceOnly, pending, equity) ==
    RiskRefusal(PositionReasons(e.book.quantity, pending, side, quantity, reduceOnly), equity,
                HardLimitReasons(e.book.quantity, pending, equity, MaxOf(e.peak, equity),
                                 e.dailyPnl, e.weeklyPnl, side, quantity, reduceOnly, px),
                reduceOnly)

(* _paper_risk_allows as the block it would record, or None. *)
RiskBlock(e, side, quantity, px, reduceOnly, pending) ==
    RiskBlockAt(e, side, quantity, px, reduceOnly, pending, RiskEquity(e, px, reduceOnly))

(* _clip_entry: the risk-based size caps the floored size; 0 means refused. *)
ClipEntry(quantity, px, equity) ==
    IF equity = None \/ equity <= 0 THEN 0
    ELSE LET sized == SizedQuantity(equity, px)
         IN  IF quantity > sized THEN sized ELSE quantity

(* The size and the price _submit_desired gives to the hard limits. *)
RiskPrice(touch) == 2 * touch * (100 + EntryBandPct)

OrderQuantity(e, desired, touch) ==
    IF desired.reduceOnly THEN FloorSize(desired.quantity)
    ELSE ClipEntry(FloorSize(desired.quantity), RiskPrice(touch), Equity(e))

(* The entry checks of _submit_desired between sizing and paper_risk. *)
EntryBlock(e, desired, touch, quantity) ==
    LET projected == Abs(e.book.quantity + Signed(desired.side, quantity))
        limit     == LimitPrice(desired.side, FALSE, touch)
        lowest    == IF touch < limit THEN touch ELSE limit
    IN  IF quantity <= 0 THEN "risk_based_size"
        ELSE IF projected > MaxPosition THEN "max_position"
        ELSE IF Value(projected, RiskPrice(touch)) > MaxNotional THEN "max_notional"
        ELSE IF Value(quantity, Px(lowest)) < MinNotional THEN "min_notional"
        ELSE None

(* What is left to refuse once there is a touch price and a size. *)
SizedBlock(e, desired, touch, quantity, entry, reason) ==
    LET px      == IF desired.reduceOnly THEN Px(touch) ELSE RiskPrice(touch)
        pending == IF e.working = None THEN 0 ELSE e.working.quantity
    IN  IF ~desired.reduceOnly /\ entry # None THEN [reason |-> entry, detail |-> {reason}]
        ELSE RiskBlock(e, desired.side, quantity, px, desired.reduceOnly, pending)

PricedBlock(e, desired, touch, quantity, reason) ==
    SizedBlock(e, desired, touch, quantity, EntryBlock(e, desired, touch, quantity), reason)

(* The touch price _submit_desired decides on. *)
TouchPrice(e, side) == Displayed(CurrentTouch(e), side).price

(* Every early return of _submit_desired that refuses the order. *)
SubmitBlock(e, desired, ns, reason, fillsOnDecisionQuote) ==
    IF e.kill = "HALT_NEW" /\ ~desired.reduceOnly
      THEN [reason |-> "halt_new", detail |-> {e.killReason}]
    ELSE IF e.kill = "FLATTEN_HALT" /\ ~desired.reduceOnly
      THEN [reason |-> "flatten_halt", detail |-> {e.killReason}]
    ELSE IF CurrentTouch(e) = None THEN [reason |-> "missing_price", detail |-> {reason}]
    ELSE IF fillsOnDecisionQuote /\ TouchUsedUp(e, desired.side, ns)
      THEN [reason |-> "touch_consumed", detail |-> {reason}]
    ELSE IF FloorSize(desired.quantity) <= 0
      THEN [reason |-> "below_increment", detail |-> {reason}]
    ELSE PricedBlock(e, desired, TouchPrice(e, desired.side),
                     OrderQuantity(e, desired, TouchPrice(e, desired.side)), reason)

AcceptOrder(e, desired, ns, immediate) ==
    LET touch == TouchPrice(e, desired.side)
    IN  [e EXCEPT !.working = [side       |-> desired.side,
                               quantity   |-> OrderQuantity(e, desired, touch),
                               desired    |-> desired.quantity,
                               reduceOnly |-> desired.reduceOnly,
                               limit      |-> LimitPrice(desired.side, desired.reduceOnly, touch),
                               eligible   |-> ns + (IF immediate THEN 0 ELSE Latency),
                               immediate  |-> immediate],
                  !.nextOrder = @ + 1,
                  !.missingFlatten = FALSE,
                  !.lastBlock = None]

(* A matching order keeps working, except that a zero-latency exit replaces *)
(* a strategy order that is still waiting out its latency.                  *)
KeepsWorking(e, desired, ns, immediate) ==
    /\ e.working # None
    /\ SameDesire(e.working, desired)
    /\ ~(immediate /\ ~e.working.immediate /\ e.working.eligible > ns)

(* A refusal for want of a price reports whether it blocked an exit. *)
FlagMissing(e, desired) ==
    IF (e.kill = "NONE" \/ desired.reduceOnly) /\ CurrentTouch(e) = None
    THEN [e EXCEPT !.missingFlatten = desired.reduceOnly] ELSE e

Submit(free, desired, ns, immediate, block) ==
    IF block # None THEN Reject(FlagMissing(free, desired), block.reason, block.detail, desired)
    ELSE AcceptOrder(free, desired, ns, immediate)

SubmitDesired(e, desired, ns, reason, immediate, fillsOnDecisionQuote) ==
    IF desired = None THEN CancelWorking([e EXCEPT !.lastBlock = None])
    ELSE IF KeepsWorking(e, desired, ns, immediate) THEN e
    ELSE LET free == CancelWorking(e)
         IN  Submit(free, desired, ns, immediate,
                    SubmitBlock(free, desired, ns, reason, fillsOnDecisionQuote))

-----------------------------------------------------------------------------
(* Fills. *)

(* Mutant: the volatility multiple (here 3) counts twice. *)
StopForTwice(book) ==
    2 * book.average * (IF book.quantity > 0 THEN 100 - 3 * StopPct ELSE 100 + 3 * StopPct)

(* _update_stop_after_fill: a stop at the distance the size assumed. *)
StopFor(book) ==
    2 * book.average * (IF book.quantity > 0 THEN 100 - StopPct ELSE 100 + StopPct)

(* Mutant: the stop of a closed position is left behind. *)
UpdateStopKeepsOld(e, before) ==
    LET after == e.book.quantity
    IN  IF after = 0 THEN [e EXCEPT !.stopExitPending = FALSE, !.exitWaiting = FALSE]
        ELSE IF Abs(after) <= Abs(before) /\ Sign(after) = Sign(before) THEN e
        ELSE [e EXCEPT !.stop = StopFor(e.book), !.stopSetTradeCount = e.tradeCount]

UpdateStopAfterFill(e, before) ==
    LET after == e.book.quantity
    IN  IF after = 0
          THEN [e EXCEPT !.stop = None, !.stopSetTradeCount = None,
                         !.stopExitPending = FALSE, !.exitWaiting = FALSE]
        ELSE IF Abs(after) <= Abs(before) /\ Sign(after) = Sign(before) THEN e
        ELSE [e EXCEPT !.stop = StopFor(e.book), !.stopSetTradeCount = e.tradeCount]

(* Mutant: the notional was checked at submission and is not again. *)
EntryFillTrustsNotional(e, fill) == RiskBlock(e, fill.side, fill.quantity, Px(fill.price), FALSE, 0)

(* _entry_fill_allows: the hard limits again, at the actual fill. *)
EntryFillBlock(e, fill) ==
    LET projected == Abs(e.book.quantity + Signed(fill.side, fill.quantity))
    IN  IF projected > MaxPosition THEN [reason |-> "max_position", detail |-> {"entry fill"}]
        ELSE IF Value(projected, Px(fill.price)) > MaxNotional
          THEN [reason |-> "max_notional", detail |-> {"entry fill"}]
        ELSE RiskBlock(e, fill.side, fill.quantity, Px(fill.price), FALSE, 0)

(* The risk check of _quote.  A reduction is checked at its whole size. *)
FillBlock(e, fill) ==
    IF e.working.reduceOnly
    THEN RiskBlock(e, fill.side, e.working.quantity, Px(fill.price), TRUE, 0)
    ELSE EntryFillBlock(e, fill)

(* _complete_ioc without a fill.  Only a missing price blocks an exit. *)
CompleteUnfilled(e, unfilled) ==
    [e EXCEPT !.working = None, !.orderCount = @ + 1,
              !.missingFlatten = /\ e.working.reduceOnly
                                 /\ e.book.quantity # 0
                                 /\ unfilled = "no_touch"]

(* _complete_ioc with a fill, whole or partial. *)
CompleteFilled(e, quote, fill, ns) ==
    LET applied == TakeTouch([e EXCEPT !.book = ApplyFill(e.book, fill), !.fillCount = @ + 1],
                             quote, fill.side, fill.quantity, ns)
        done    == [applied EXCEPT !.working = None, !.orderCount = @ + 1, !.missingFlatten = FALSE]
    IN  UpdateStopAfterFill(done, e.book.quantity)

(* What the order would fill for, slippage and the venue grid included. *)
QuotedFill(e, quote, ns) ==
    QuoteTakerFill(e.working.side, e.working.quantity, Displayed(quote, e.working.side).price,
                   Available(e, quote, e.working.side, ns))

FillOrRefuse(e, quote, fill, block, ns) ==
    LET w == e.working
    IN  IF fill = None THEN CompleteUnfilled(e, "no_touch")
        ELSE IF BeyondLimit(w.side, fill.price, w.limit) THEN CompleteUnfilled(e, "price_band")
        ELSE IF block # None
          THEN CompleteUnfilled(Reject(e, block.reason, block.detail,
                                       [side |-> w.side, reduceOnly |-> w.reduceOnly,
                                        quantity |-> w.desired]), "risk_rejected")
        ELSE CompleteFilled(e, quote, fill, ns)

(* _quote. *)
FillAtQuote(e, quote, fill, ns) == FillOrRefuse(e, quote, fill, FillBlock(e, fill), ns)

(* Mutant: the age of the quote is not looked at. *)
FillAgainstAnyAge(e, quote, ns) ==
    IF quote.kind = "bbo" /\ ~BboIsComplete(quote) THEN CompleteUnfilled(e, "no_touch")
    ELSE IF QuoteUsedUp(e, quote, e.working.side, ns) THEN CompleteUnfilled(e, "touch_consumed")
    ELSE FillAtQuote(e, quote, QuotedFill(e, quote, ns), ns)

(* _fill_against: an IOC always completes, filled or not. *)
FillAgainst(e, quote, ns) ==
    IF ~SourceIsFresh(e, quote.ns) THEN CompleteUnfilled(e, "stale_quote")
    ELSE IF quote.kind = "bbo" /\ ~BboIsComplete(quote) THEN CompleteUnfilled(e, "no_touch")
    ELSE IF QuoteUsedUp(e, quote, e.working.side, ns) THEN CompleteUnfilled(e, "touch_consumed")
    ELSE FillAtQuote(e, quote, QuotedFill(e, quote, ns), ns)

TryFill(e, ev) ==
    IF /\ e.working # None
       /\ ev.ns >= e.working.eligible
       /\ ev.kind = "bbo" \/ (ev.kind = "trade" /\ ~BookComplete(e))
    THEN FillAgainst(e, ev, ev.ns) ELSE e

FillWorkingFromBook(e, ns) ==
    IF e.working = None \/ ns < e.working.eligible THEN e
    ELSE IF CurrentTouch(e) = None
      THEN [e EXCEPT !.missingFlatten = e.working.reduceOnly /\ e.book.quantity # 0]
    ELSE FillAgainst(e, CurrentTouch(e), ns)

-----------------------------------------------------------------------------
(* Exits: stops and the kill switch. *)

(* Mutant: the exit is submitted and left for the next event. *)
AttemptExitLater(e, ns, reason) ==
    LET desired == FlattenDesired(e.book.quantity)
    IN  IF TouchUsedUp(e, desired.side, ns) THEN [CancelWorking(e) EXCEPT !.exitWaiting = TRUE]
        ELSE SubmitDesired([e EXCEPT !.exitWaiting = FALSE], desired, ns, reason, TRUE, FALSE)

AttemptImmediateExit(e, ns, reason) ==
    LET desired == FlattenDesired(e.book.quantity)
    IN  IF TouchUsedUp(e, desired.side, ns)
        THEN LET waiting == [e EXCEPT !.exitWaiting = TRUE]
             IN  IF e.working # None /\ ~e.working.immediate THEN CancelWorking(waiting) ELSE waiting
        ELSE FillWorkingFromBook(SubmitDesired([e EXCEPT !.exitWaiting = FALSE], desired, ns,
                                               reason, TRUE, FALSE), ns)

(* The price that may trigger a stop: the mark, or with no mark at all a   *)
(* fresh print processed after the stop was set.                           *)
StopTriggerPrice(e) ==
    IF DisplayMark(e) # None THEN DisplayMark(e)
    ELSE IF TradeFresh(e) /\ e.tradeCount > e.stopSetTradeCount THEN Px(e.trade.price)
    ELSE None

Crosses(price, e) ==
    price # None /\ (IF e.book.quantity > 0 THEN price <= e.stop ELSE price >= e.stop)

StopCrossed(e) == Crosses(StopTriggerPrice(e), e)

(* Mutant: a stop exit is tried once and not again. *)
CheckStopOnce(e, ns) ==
    IF e.book.quantity = 0 \/ e.stop = None \/ e.stopExitPending \/ ~StopCrossed(e) THEN e
    ELSE AttemptImmediateExit([e EXCEPT !.stopExitPending = TRUE,
                                        !.stopLockout = Sign(e.book.quantity)], ns, "stop-exit")

CheckStop(e, ns) ==
    IF e.book.quantity = 0 \/ e.stop = None THEN e
    ELSE IF ~e.stopExitPending /\ ~StopCrossed(e) THEN e
    ELSE LET triggered == IF e.stopExitPending THEN e
                          ELSE [e EXCEPT !.stopExitPending = TRUE,
                                         !.stopLockout = Sign(e.book.quantity)]
         IN  IF e.kill = "FLATTEN_HALT" THEN triggered
             ELSE AttemptImmediateExit(triggered, ns, "stop-exit")

EnforceFlat(e, ns) ==
    LET quiet == IF e.kill # "NONE" /\ e.working # None /\ ~e.working.reduceOnly
                 THEN CancelWorking(e) ELSE e
    IN  IF e.kill # "FLATTEN_HALT" THEN quiet
        ELSE IF quiet.book.quantity = 0
          THEN [CancelWorking(quiet) EXCEPT !.missingFlatten = FALSE]
        ELSE AttemptImmediateExit(quiet, ns, "kill-flatten")

-----------------------------------------------------------------------------
(* The strategy: any target, none at all, or one for another instrument.   *)

StrategyAnswers == Targets \cup {NoTarget, WrongInstrument}

(* A mutant: the strategy may act on a pending stop exit.                  *)
ApplyStrategyDuringStop(e, ev, answer) ==
    IF answer \in {NoTarget, WrongInstrument} THEN e
    ELSE IF e.stopLockout # 0 /\ Sign(answer) = e.stopLockout THEN e
    ELSE SubmitDesired([e EXCEPT !.stopLockout = 0], DesiredOrder(e.book.quantity, answer),
                       ev.ns, "target", FALSE, FALSE)

ApplyStrategy(e, ev, answer) ==
    IF answer = NoTarget THEN e
    ELSE IF answer = WrongInstrument THEN Reject(e, "instrument_mismatch", {"target"}, None)
    ELSE IF e.stopExitPending THEN e
    ELSE LET desired == DesiredOrder(e.book.quantity, answer)
             touch   == CurrentTouch(e)
             free    == [e EXCEPT !.stopLockout = 0]
             onDecisionQuote == Latency = 0 /\ touch # None /\ touch.kind = ev.kind
         IN  IF e.stopLockout # 0 /\ Sign(answer) = e.stopLockout
               THEN Reject(e, "stop_lockout", {"target"}, desired)
             ELSE SubmitDesired(free, desired, ev.ns, "target", FALSE, onDecisionQuote)

-----------------------------------------------------------------------------
(* Handlers. *)

Arrive(e, ev, day) == UpdateMarket([e EXCEPT !.lastData = ev.ns, !.lastDay = day], ev)

(* _advance up to the strategy's turn. *)
BeforeStrategy(e, ev, day) ==
    LET arrived == Arrive(e, ev, day)
        exited  == CheckStop(TryFill(arrived, ev), ev.ns)
    IN  EnforceFlat(MarkLimits(exited, day), ev.ns)

AfterStrategy(e, ev, day) ==
    EnforceFlat(MarkLimits(CheckStop(TryFill(e, ev), ev.ns), day), ev.ns)

(* A flattening kill switch takes the strategy's turn. *)
StrategyTurn(b, ev, day, answer) ==
    IF b.kill = "FLATTEN_HALT" THEN EnforceFlat(MarkLimits(b, day), ev.ns)
    ELSE AfterStrategy(ApplyStrategy(b, ev, answer), ev, day)

(* _advance: a stale gap halts and flattens without asking the strategy. *)
Advance(e0, ev, day, answer) ==
    LET e == AdvanceSourceClock(e0, ev.ns)
    IN  IF StaleGap(e, ev.ns)
        THEN EnforceFlat(Arrive(FlattenHalt(e, "stale_data"), ev, day), ev.ns)
        ELSE StrategyTurn(BeforeStrategy(e, ev, day), ev, day, answer)

(* on_clock after its argument checks. *)
ClockAnchor(e) == IF e.lastData = None THEN CreatedNs ELSE e.lastData

(* Mutant: a tick only looks for a stale feed. *)
TickOnlyStale(e0, now) ==
    LET e == AdvanceSourceClock(e0, now)
    IN  IF now - ClockAnchor(e0) > StaleAfter THEN EnforceFlat(FlattenHalt(e, "stale_data"), now) ELSE e

TickStops(e, now, stale, touched) ==
    IF stale THEN FlattenHalt(e, "stale_data")
    ELSE IF ~e.stopExitPending \/ e.exitWaiting \/ touched THEN CheckStop(e, now)
    ELSE e

TickMarks(e) == IF e.lastDay = None THEN e ELSE MarkLimits(e, e.lastDay)

TickFlattens(e, e0, now, stale, touched) ==
    IF stale \/ e.exitWaiting \/ touched \/ e.kill # e0.kill THEN EnforceFlat(e, now) ELSE e

(* A fill of this tick counts in the last venue event's loss window. *)
TickRemarks(e, e0, now) ==
    IF e.fillCount # e0.fillCount /\ e.lastDay # None
    THEN EnforceFlat(MarkLimits(e, e.lastDay), now) ELSE e

Tick(e0, now) ==
    LET e       == AdvanceSourceClock(e0, now)
        stale   == now - ClockAnchor(e0) > StaleAfter
        touched == CurrentTouch(e) # CurrentTouch(e0)
    IN  TickRemarks(TickFlattens(TickMarks(TickStops(e, now, stale, touched)),
                                 e0, now, stale, touched),
                    e0, now)

-----------------------------------------------------------------------------
FlatBook == [cash |-> StartingCash, quantity |-> 0, average |-> 0, realized |-> 0, fees |-> 0]

NewEngine ==
    [book |-> FlatBook, peak |-> StartingCash,
     day |-> None, dayStart |-> StartingCash, weekStart |-> StartingCash,
     dailyPnl |-> 0, weeklyPnl |-> 0,
     kill |-> "NONE", killReason |-> "none",
     bbo |-> None, trade |-> None, venueMark |-> None, tradeCount |-> 0, tradeTaken |-> 0,
     lastData |-> None, lastDay |-> None, sourceClock |-> 0,
     working |-> None, nextOrder |-> 1, orderCount |-> 0, fillCount |-> 0,
     stop |-> None, stopSetTradeCount |-> None, stopExitPending |-> FALSE, stopLockout |-> 0,
     bookTaken |-> {}, lastBlock |-> None, rejectionCount |-> 0,
     missingFlatten |-> FALSE, exitWaiting |-> FALSE]

Init ==
    /\ eng = NewEngine
    /\ failed = FALSE
    /\ calls = 0

(* Receive times the feed may stamp next: forward, or late. *)
ReceiveTimes == {t \in {eng.sourceClock + o : o \in Offsets} : t >= 0}

Events ==
    LET bbo(b, t) == [kind |-> "bbo", ns |-> t, bid |-> b.bid, bidSize |-> b.bidSize,
                      ask |-> b.ask, askSize |-> b.askSize]
    IN  {bbo(b, t) : b \in Bbos, t \in ReceiveTimes}
          \cup {[kind |-> "trade", ns |-> t, price |-> p.price, size |-> p.size] :
                    p \in Trades, t \in ReceiveTimes}
          \cup {[kind |-> "mark", ns |-> t, price |-> m] : m \in Marks, t \in ReceiveTimes}
          \cup {[kind |-> "bar", ns |-> t] : t \in ReceiveTimes}

(* _require_open, and the bound on the model. *)
Accepting == ~failed /\ calls < MaxCalls

OnEvent(ev, day, answer) ==
    /\ Accepting
    /\ eng' = Advance(eng, ev, day, answer)
    /\ calls' = calls + 1
    /\ UNCHANGED failed

(* on_event when the strategy raises before it answers: the event stays    *)
(* half applied and _fail_closed stops the run.                            *)
OnEventStrategyRaises(ev, day) ==
    /\ Accepting
    /\ ~StaleGap(eng, ev.ns)
    /\ \E b \in {BeforeStrategy(AdvanceSourceClock(eng, ev.ns), ev, day)} :
         b.kill # "FLATTEN_HALT" /\ eng' = b
    /\ failed' = TRUE
    /\ calls' = calls + 1

(* on_clock; a clock behind the last data raises and changes nothing. *)
OnClock(now) ==
    /\ Accepting
    /\ now >= ClockAnchor(eng)
    /\ eng' = Tick(eng, now)
    /\ calls' = calls + 1
    /\ UNCHANGED failed

Next ==
    \/ \E ev \in Events, day \in Days, answer \in StrategyAnswers : OnEvent(ev, day, answer)
    \/ \E ev \in Events, day \in Days : OnEventStrategyRaises(ev, day)
    \/ \E now \in ReceiveTimes : OnClock(now)

Spec == Init /\ [][Next]_vars

-----------------------------------------------------------------------------
(* Types. *)

MaybeNat == Nat \cup {None}
Sides == {"BUY", "SELL"}
Prices == Nat \ {0}
BboEvents == [kind : {"bbo"}, ns : Nat, bid : Prices \cup {None}, bidSize : MaybeNat,
              ask : Prices \cup {None}, askSize : MaybeNat]
TradeEvents == [kind : {"trade"}, ns : Nat, price : Prices, size : Prices]
MarkEvents == [kind : {"mark"}, ns : Nat, price : Prices]
DesiredOrders == [side : Sides, reduceOnly : BOOLEAN, quantity : Nat \ {0}]
WorkingOrders == [side : Sides, quantity : Nat \ {0}, desired : Nat \ {0}, reduceOnly : BOOLEAN,
                  limit : Int, eligible : Nat, immediate : BOOLEAN]
KillStates == {"NONE", "HALT_NEW", "FLATTEN_HALT"}
KillReasons == {"none", "missing_price", "daily_loss", "weekly_loss", "drawdown", "stale_data"}
EntryReasons == {"risk_based_size", "max_position", "max_notional", "min_notional"}
Reasons == EntryReasons \cup
    {"halt_new", "flatten_halt", "missing_price", "touch_consumed", "below_increment",
     "paper_risk", "non_positive_equity", "instrument_mismatch", "stop_lockout"}
GateReasons ==
    {"position_pending", "reduce_only_flat", "reduce_only_direction", "reduce_only_oversize",
     "risk_based_size", "max_paper_leverage", "max_gross_exposure", "max_net_exposure",
     "max_simultaneous_positions", "max_asset_concentration", "max_strategy_concentration",
     "max_venue_concentration", "daily_loss_guard", "weekly_loss_guard", "drawdown_kill",
     "no_averaging_down"}
Details == KillReasons \cup GateReasons \cup
    {"target", "stop-exit", "kill-flatten", "entry fill", "equity"}
Refusals == [reason : Reasons, detail : SUBSET Details]
Blocks == [reason : Reasons, detail : SUBSET Details, kill : KillStates,
           desired : DesiredOrders \cup {None}]
Books == [cash : Int, quantity : Int, average : Nat, realized : Int, fees : Nat]
Holds == [side : Sides, price : Nat, quantity : Nat \ {0}, until : Nat]

(* None is none of the values it stands next to. *)
ASSUME NoneAssumption ==
    /\ None \notin EntryReasons
    /\ None \notin Refusals
    /\ None \notin WorkingOrders
    /\ None \notin DesiredOrders
    /\ None \notin BboEvents \cup TradeEvents

EngineState ==
    [book : Books, peak : Nat \ {0},
     day : MaybeNat, dayStart : Int, weekStart : Int, dailyPnl : Int, weeklyPnl : Int,
     kill : KillStates, killReason : KillReasons,
     bbo : BboEvents \cup {None}, trade : TradeEvents \cup {None},
     venueMark : MarkEvents \cup {None}, tradeCount : Nat, tradeTaken : Nat,
     lastData : MaybeNat, lastDay : MaybeNat, sourceClock : Nat,
     working : WorkingOrders \cup {None}, nextOrder : Nat, orderCount : Nat, fillCount : Nat,
     stop : MaybeNat, stopSetTradeCount : MaybeNat,
     stopExitPending : BOOLEAN, stopLockout : {-1, 0, 1},
     bookTaken : SUBSET Holds, lastBlock : Blocks \cup {None}, rejectionCount : Nat,
     missingFlatten : BOOLEAN, exitWaiting : BOOLEAN]

(* The fields of the engine object keep their types. *)
TypeOK ==
    /\ eng \in EngineState
    /\ failed \in BOOLEAN
    /\ calls \in Nat

-----------------------------------------------------------------------------
(* Properties.  Every state is one between two handler calls. *)

Position == eng.book.quantity

(* Every open position carries a stop at the effective stop distance from  *)
(* its average entry, through partial exits, and a flat book carries none  *)
(* (_update_stop_after_fill against every path that fills).                *)
StopMatchesPosition ==
    IF Position = 0 THEN eng.stop = None /\ eng.stopSetTradeCount = None
    ELSE eng.stop = StopFor(eng.book) /\ eng.stopSetTradeCount # None

(* No open position rests beyond its stop unnoticed: whatever order quotes,*)
(* marks, prints and ticks arrive in, a crossed stop is a pending exit or  *)
(* the kill switch is already flattening (_check_stop's callers).          *)
StopHonoured ==
    Position # 0 /\ StopCrossed(eng) => eng.stopExitPending \/ eng.kill = "FLATTEN_HALT"

(* A pending stop exit owns the position until it is flat, and its lockout *)
(* outlives it: while the direction is locked no entry waits.              *)
StopExitOwnsPosition ==
    /\ eng.stopExitPending <=> Position # 0 /\ eng.stopLockout # 0
    /\ eng.stopExitPending => eng.stopLockout = Sign(Position)
    /\ eng.stopLockout # 0 => eng.working = None \/ eng.working.reduceOnly

(* A waiting order can only do what it was approved for: an exit opposes   *)
(* the position it reduces and is no larger, an entry waits only on a flat *)
(* book with the kill switch off, and no zero-latency exit outlives the    *)
(* handler that submitted it.                                              *)
WorkingOrderSound ==
    eng.working # None =>
        /\ ~eng.working.immediate
        /\ IF eng.working.reduceOnly
           THEN /\ Sign(Signed(eng.working.side, 1)) = -Sign(Position)
                /\ eng.working.quantity <= Abs(Position)
           ELSE Position = 0 /\ eng.kill = "NONE"

(* The loss limits hold at rest: with the switch off, equity is known and  *)
(* no limit is breached; a breached drawdown is always a flatten.  A fill, *)
(* a fee, an expired mark, a window roll or a release cannot leave it      *)
(* otherwise (_mark_limits and every place that must call it).             *)
LimitsAtRest ==
    LET equity == Equity(eng)
    IN  /\ eng.kill = "NONE" => /\ equity # None
                                /\ ~DailyLossBreached(eng, equity)
                                /\ ~WeeklyLossBreached(eng, equity)
        /\ eng.kill # "FLATTEN_HALT" /\ equity # None => ~DrawdownBreached(eng, equity)

(* Cash, average entry, realized PnL and fees tell one story: the cash     *)
(* ledger of apply_fill neither creates nor loses money over any sequence  *)
(* of entries, partial exits and closes.                                   *)
CashReconciles ==
    /\ eng.book.cash + Value(Position, Px(eng.book.average))
         = StartingCash + eng.book.realized - eng.book.fees
    /\ Position = 0 <=> eng.book.average = 0

(* Every accepted order number is completed or canceled exactly once, or   *)
(* is the one that is working.                                             *)
OrdersAccounted ==
    eng.nextOrder - 1 = eng.orderCount + (IF eng.working = None THEN 0 ELSE 1)

(* A position never exceeds the hard limits at its own entry price, even   *)
(* when the quote moved while the order waited out its latency.            *)
HardLimitsHold ==
    /\ Abs(Position) <= MaxPosition
    /\ Value(Abs(Position), Px(eng.book.average)) <= MaxNotional

(* PAPER never takes more from a level within its refill time, or from a   *)
(* print, than the feed ever displayed there.                              *)
NoDoubleTake ==
    /\ \A h \in eng.bookTaken :
         \E b \in Bbos : LET d == Displayed([kind |-> "bbo", bid |-> b.bid, bidSize |-> b.bidSize,
                                             ask |-> b.ask, askSize |-> b.askSize], h.side)
                         IN  d.price = h.price /\ h.quantity <= d.size
    /\ eng.tradeTaken > 0 => eng.tradeTaken <= eng.trade.size

(* The loss at the stop of a newly opened position is within the per-trade *)
(* risk budget of the equity it was opened with.                           *)
EntryRiskBounded ==
    [][Position = 0 /\ Position' # 0 /\ eng'.fillCount = eng.fillCount + 1
         => Value(Abs(Position'), Abs(Px(eng'.book.average) - eng'.stop)) * 100
              <= RiskPerTradePct * eng.book.cash]_vars

(* While the kill switch is on no handler adds risk: the position only     *)
(* shrinks towards flat and the switch stays on, a flatten for good.  The  *)
(* one way out is a loss halt whose own window this very event ends: a     *)
(* daily one the day, a weekly one the week.                               *)
LossWindowEnds ==
    /\ eng.kill = "HALT_NEW"
    /\ \/ eng.killReason = "daily_loss" /\ eng'.day > eng.day
       \/ eng.killReason = "weekly_loss" /\ WeekOf(eng'.day) > WeekOf(eng.day)

HaltedNeverAddsRisk ==
    [][eng.kill # "NONE" /\ ~LossWindowEnds =>
         /\ eng'.kill \in {eng.kill, "FLATTEN_HALT"}
         /\ Abs(Position') <= Abs(Position)
         /\ Sign(Position') \in {0, Sign(Position)}]_vars

(* Size taken at a price is held back for the refill time after every fill *)
(* there: a later fill may extend the hold, nothing shortens it.           *)
HoldNeverShortens ==
    [][\A h \in eng.bookTaken : h.until > eng'.sourceClock =>
         \E k \in eng'.bookTaken : k.side = h.side /\ k.price = h.price /\ k.until >= h.until]_vars

(* No order fills on an expired quote: whatever was filled on is still a   *)
(* usable touch when the handler returns (_fill_against, _try_fill).       *)
NoFillFromExpiredQuote ==
    [][eng'.fillCount > eng.fillCount => CurrentTouch(eng)' # None]_vars

(* A stale-data halt means a gap: it never happens while a source received *)
(* before is still fresh.                                                  *)
StaleHaltNeedsGap ==
    [][eng.kill # "FLATTEN_HALT" /\ eng'.kill = "FLATTEN_HALT" /\ eng'.killReason = "stale_data"
         => \A source \in {eng.bbo, eng.trade, eng.venueMark} \ {None} :
              ~SourceIsFresh(eng', source.ns)]_vars
=============================================================================
