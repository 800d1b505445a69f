--------------------------- MODULE PaperExecution ---------------------------
(***************************************************************************)
(* Normalized quotes (paper_engine/events.py), the taker fill model and    *)
(* the linear-perp cash ledger (paper_engine/execution.py), on the integer *)
(* tick grid the venue has at BTC prices (PricePrecision).                 *)
(***************************************************************************)
EXTENDS PaperRisk

CONSTANTS
    None,             \* Python's None
    SlippagePct,      \* slippage_fraction
    TakerFeePct,      \* taker_fee_rate
    EntryBandPct,     \* entry_price_band_fraction
    ExitBandPct       \* exit_price_band_fraction

(* PaperEngineConfig.__post_init__ refuses anything else. *)
ASSUME ExecutionAssumption ==
    /\ None \notin Int
    /\ SlippagePct \in Nat
    /\ TakerFeePct \in Nat
    /\ EntryBandPct \in 1..99
    /\ ExitBandPct \in 1..99
    /\ SlippagePct < EntryBandPct
    /\ SlippagePct < ExitBandPct
    /\ SlippagePct < StopPct

CeilDiv(a, b) == (a + b - 1) \div b

(* A BboEvent: either side may be missing.  Complete only when both sides  *)
(* exist and the book is neither locked nor crossed (bbo_is_complete).     *)
BboIsComplete(bbo) ==
    /\ None \notin {bbo.bid, bbo.ask, bbo.bidSize, bbo.askSize}
    /\ bbo.ask > bbo.bid

(* bbo_mid of a complete book, as a valuation price. *)
BboMid(bbo) == (Px(bbo.bid) + Px(bbo.ask)) \div 2

(* _displayed: the price and size an order on this side takes. *)
Displayed(quote, side) ==
    IF quote.kind = "trade" THEN [price |-> quote.price, size |-> quote.size]
    ELSE IF side = "BUY" THEN [price |-> quote.ask, size |-> quote.askSize]
    ELSE [price |-> quote.bid, size |-> quote.bidSize]

(* adverse_price: a fill is never better than the venue grid. *)
AdversePrice(side, touch) ==
    IF side = "BUY" THEN CeilDiv(touch * (100 + SlippagePct), 100)
                    ELSE (touch * (100 - SlippagePct)) \div 100

(* _limit_price with protective_price: the IOC limit around the touch,     *)
(* rounded so that it never widens the band.                               *)
LimitPrice(side, reduceOnly, touch) ==
    LET band == IF reduceOnly THEN ExitBandPct ELSE EntryBandPct
    IN  IF side = "BUY" THEN (touch * (100 + band)) \div 100
                        ELSE CeilDiv(touch * (100 - band), 100)

BeyondLimit(side, price, limit) == IF side = "BUY" THEN price > limit ELSE price < limit

(* quote_taker_fill: None when there is nothing of at least one lot left.  *)
QuoteTakerFill(side, quantity, touchPrice, touchSize) ==
    LET price  == AdversePrice(side, touchPrice)
        filled == FloorSize(IF quantity < touchSize THEN quantity ELSE touchSize)
    IN  IF touchSize <= 0 \/ price <= 0 \/ filled <= 0 THEN None
        ELSE [side     |-> side,
              quantity |-> filled,
              price    |-> price,
              fee      |-> 2 * price * filled * TakerFeePct]

(* Mutant: the realized PnL of a short keeps the sign of a long. *)
ApplyFillLongPnl(book, fill) ==
    LET signed == Signed(fill.side, fill.quantity)
        after  == book.quantity + signed
        grows  == book.quantity = 0 \/ Sign(book.quantity) = Sign(signed)
        pnl    == Value(fill.quantity, Px(fill.price) - Px(book.average))
    IN  [cash     |-> book.cash - Value(signed, Px(fill.price)) - fill.fee,
         quantity |-> after,
         average  |-> IF after = 0 THEN 0 ELSE IF grows THEN fill.price ELSE book.average,
         realized |-> IF grows THEN book.realized ELSE book.realized + pnl,
         fees     |-> book.fees + fill.fee]

(* apply_fill: grow, reduce (or close) and flip.  The average is a whole   *)
(* tick price whenever a position opens from flat; PaperEngine shows that  *)
(* no other growth happens, so the division below is exact.                *)
ApplyFill(book, fill) ==
    LET signed == Signed(fill.side, fill.quantity)
        before == book.quantity
        after  == before + signed
        grows   == before = 0 \/ Sign(before) = Sign(signed)
        reduces == after = 0 \/ Sign(before) = Sign(after)
        closed  == IF reduces THEN fill.quantity ELSE Abs(before)
        pnl     == Value(closed, Px(fill.price) - Px(book.average)) * Sign(before)
    IN  [cash     |-> book.cash - Value(signed, Px(fill.price)) - fill.fee,
         quantity |-> after,
         average  |-> IF after = 0 THEN 0
                      ELSE IF grows
                        THEN (Abs(before) * book.average + fill.quantity * fill.price) \div Abs(after)
                      ELSE IF reduces THEN book.average
                      ELSE fill.price,
         realized |-> IF grows THEN book.realized ELSE book.realized + pnl,
         fees     |-> book.fees + fill.fee]
=============================================================================
