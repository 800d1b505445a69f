-------------------------- MODULE PaperEngineProofs --------------------------
(***************************************************************************)
(* Type correctness and the safety of PaperEngine, for every feed,         *)
(* strategy and configuration.                                             *)
(*                                                                         *)
(* A handler is a pipeline of methods, so the first inductive invariant    *)
(* has two layers.  Sound(e) relates the position, its stop, the stop      *)
(* exit, the working order and the order numbers; every method keeps it,   *)
(* and there is one lemma per method.  Rest(e) adds what a whole handler   *)
(* restores: no zero-latency exit is left and no entry works under a halt. *)
(* Both handlers, and the half-applied event of a strategy that raises,    *)
(* lead from Rest to Rest.                                                 *)
(*                                                                         *)
(* The second part is about money.  It says of every method what it may    *)
(* do: an idle one leaves the ledger alone, one that trades keeps LedgerOk *)
(* and only fills on a usable quote, one that marks moves the kill switch  *)
(* and the loss windows alone and leaves LimitsOk.  Stepped(f, e) is what  *)
(* all of them, and so a whole handler, have in common; the invariants of  *)
(* the ledger and the action properties follow from it.                    *)
(*                                                                         *)
(* The third part is about time, for a feed in order.  It says of every    *)
(* method what it does at its own time: Refilled, it shortens no hold on a *)
(* size taken; NoGap, it halts for no stale data (the handlers alone do).  *)
(* Timed bounds the times the engine keeps by those of the feed.           *)
(***************************************************************************)
EXTENDS PaperEngine, TLAPS

-----------------------------------------------------------------------------
(* Arithmetic the order paths rely on. *)

(* Natural numbers are closed under the operations of the ledger. *)
LEMMA NatProduct == ASSUME NEW a \in Nat, NEW b \in Nat PROVE a * b \in Nat
    OBVIOUS

(* Integers are closed under products. *)
LEMMA IntProduct == ASSUME NEW a \in Int, NEW b \in Int PROVE a * b \in Int
    OBVIOUS

(* And naturals under division by a positive number. *)
LEMMA NatQuotient == ASSUME NEW a \in Nat, NEW b \in Nat \ {0} PROVE a \div b \in Nat
    OBVIOUS

(* A product of positive numbers is positive. *)
LEMMA PositiveProduct ==
    ASSUME NEW a \in Nat \ {0}, NEW b \in Nat \ {0} PROVE a * b > 0
    OBVIOUS

(* floor_size never rounds up and never goes below zero. *)
LEMMA FloorSizeDown ==
    ASSUME NEW q \in Nat PROVE FloorSize(q) \in Nat /\ FloorSize(q) <= q
    BY RiskAssumption DEF FloorSize

(* MaxOf is the larger of two integers. *)
LEMMA MaxOfInt ==
    ASSUME NEW a \in Int, NEW b \in Int
    PROVE  MaxOf(a, b) \in Int /\ MaxOf(a, b) >= a /\ MaxOf(a, b) >= b
    BY DEF MaxOf

(* A fill or a limit price of a positive touch is a whole number of ticks. *)
LEMMA AdversePriceNat ==
    ASSUME NEW side \in Sides, NEW touch \in Prices PROVE AdversePrice(side, touch) \in Nat
<1>1. 100 + SlippagePct \in Nat /\ 100 - SlippagePct \in Nat
    BY ExecutionAssumption
<1>2. touch * (100 + SlippagePct) \in Nat /\ touch * (100 - SlippagePct) \in Nat
    BY <1>1, NatProduct DEF Prices
<1> QED
    BY <1>2 DEF AdversePrice, CeilDiv

(* So is the limit of an order. *)
LEMMA LimitPriceInt ==
    ASSUME NEW side \in Sides, NEW reduceOnly \in BOOLEAN, NEW touch \in Prices
    PROVE  LimitPrice(side, reduceOnly, touch) \in Int
<1> DEFINE band == IF reduceOnly THEN ExitBandPct ELSE EntryBandPct
<1>1. 100 + band \in Int /\ 100 - band \in Int
    BY ExecutionAssumption
<1>2. touch * (100 + band) \in Int /\ touch * (100 - band) \in Int
    BY <1>1, IntProduct DEF Prices
<1> QED
    BY <1>2 DEF LimitPrice, CeilDiv

-----------------------------------------------------------------------------
(* What the engine reads of the market. *)

Touches == TradeEvents \cup {b \in BboEvents : BboIsComplete(b)}

(* A usable touch is a print or a complete book (_current_touch_event). *)
LEMMA CurrentTouchType ==
    ASSUME NEW e \in EngineState PROVE CurrentTouch(e) \in Touches \cup {None}
    BY DEF EngineState, CurrentTouch, BookComplete, TradeFresh, Touches

(* A usable touch has a price and a size on each side (_displayed). *)
LEMMA DisplayedType ==
    ASSUME NEW quote \in Touches, NEW side
    PROVE  /\ Displayed(quote, side).price \in Prices
           /\ Displayed(quote, side).size \in Nat
<1>1. CASE quote \in TradeEvents
    BY <1>1 DEF TradeEvents, Displayed, Prices
<1>2. CASE quote \in BboEvents /\ BboIsComplete(quote)
    BY <1>2 DEF BboEvents, BboIsComplete, Displayed, Prices, MaybeNat
<1> QED
    BY <1>1, <1>2 DEF Touches

(* What PAPER took from a touch is a size (_available). *)
LEMMA TakenFromType ==
    ASSUME NEW e \in EngineState, NEW quote \in Touches, NEW side, NEW ns
    PROVE  TakenFrom(e, quote, side, ns) \in Nat
<1> DEFINE held == HeldBack(e, side, Displayed(quote, side).price, ns)
<1>1. held \subseteq Holds
    BY DEF HeldBack, EngineState
<1>2. held # {} => (CHOOSE h \in held : TRUE) \in held
    OBVIOUS
<1>3. held # {} => (CHOOSE h \in held : TRUE).quantity \in Nat
    BY <1>1, <1>2 DEF Holds
<1>4. e.tradeTaken \in Nat
    BY DEF EngineState
<1> QED
    BY <1>3, <1>4 DEF TakenFrom

(* What is left at a touch is a size (_available). *)
LEMMA AvailableType ==
    ASSUME NEW e \in EngineState, NEW quote \in Touches, NEW side, NEW ns
    PROVE  Available(e, quote, side, ns) \in Nat
<1> DEFINE t == TakenFrom(e, quote, side, ns)
           d == Displayed(quote, side).size
<1>1. t \in Nat /\ d \in Nat
    BY TakenFromType, DisplayedType
<1> HIDE DEF t, d
<1>2. MaxOf(d - t, 0) \in Nat
    BY <1>1 DEF MaxOf
<1> QED
    BY <1>2 DEF Available, t, d

(* Marks and equity are amounts, or unknown. *)
LEMMA DisplayMarkType ==
    ASSUME NEW e \in EngineState PROVE DisplayMark(e) \in Int \cup {None}
<1>1. e.venueMark # None => Px(e.venueMark.price) \in Int
    BY DEF EngineState, MarkEvents, Prices, Px
<1>2. BookComplete(e) => BboMid(e.bbo) \in Int
  <2> SUFFICES ASSUME BookComplete(e) PROVE BboMid(e.bbo) \in Int
      OBVIOUS
  <2>1. e.bbo.bid \in Int /\ e.bbo.ask \in Int
      BY DEF BookComplete, BboIsComplete, EngineState, BboEvents, Prices
  <2> QED
      BY <2>1 DEF BboMid, Px
<1> QED
    BY <1>1, <1>2 DEF DisplayMark

(* Equity is an amount, or unknown. *)
LEMMA EquityType ==
    ASSUME NEW e \in EngineState PROVE Equity(e) \in Int \cup {None}
<1>1. e.book.cash \in Int /\ e.book.quantity \in Int
    BY DEF EngineState, Books
<1>2. DisplayMark(e) \in Int \cup {None}
    BY DisplayMarkType
<1>3. DisplayMark(e) # None => Value(e.book.quantity, DisplayMark(e)) \in Int
    BY <1>1, <1>2, IntProduct DEF Value
<1> QED
    BY <1>1, <1>2, <1>3 DEF Equity, EquityAt

-----------------------------------------------------------------------------
(* The trading state: what the order and stop machinery keeps consistent.  *)

SameTrading(f, e) ==
    /\ f.book = e.book
    /\ f.working = e.working
    /\ f.nextOrder = e.nextOrder
    /\ f.orderCount = e.orderCount
    /\ f.stop = e.stop
    /\ f.stopSetTradeCount = e.stopSetTradeCount
    /\ f.stopExitPending = e.stopExitPending
    /\ f.stopLockout = e.stopLockout

SameMarket(f, e) ==
    /\ f.bbo = e.bbo
    /\ f.trade = e.trade
    /\ f.sourceClock = e.sourceClock
    /\ f.kill = e.kill

(* A usable touch depends on the market alone. *)
LEMMA SameTouch ==
    ASSUME NEW e, NEW f, SameMarket(f, e)
    PROVE  CurrentTouch(f) = CurrentTouch(e)
    BY DEF SameMarket, CurrentTouch, BookComplete, TradeFresh, SourceIsFresh

(* Moving the kill switch keeps the types. *)
LEMMA SetKillType ==
    ASSUME NEW e \in EngineState, NEW k \in KillStates, NEW r \in KillReasons
    PROVE  [e EXCEPT !.kill = k, !.killReason = r] \in EngineState
    BY DEF EngineState

(* The kill switch moves without touching orders or stops. *)
LEMMA KillSwitchType ==
    ASSUME NEW e \in EngineState, NEW reason \in KillReasons
    PROVE  /\ HaltNew(e, reason) \in EngineState /\ SameTrading(HaltNew(e, reason), e)
           /\ FlattenHalt(e, reason) \in EngineState /\ SameTrading(FlattenHalt(e, reason), e)
           /\ ReleaseHalt(e, reason) \in EngineState /\ SameTrading(ReleaseHalt(e, reason), e)
<1>1. HaltNew(e, reason) \in EngineState /\ SameTrading(HaltNew(e, reason), e)
  <2>1. HaltNew(e, reason) \in EngineState
      BY SetKillType DEF HaltNew, KillReasons, KillStates
  <2>2. SameTrading(HaltNew(e, reason), e)
      BY DEF HaltNew, EngineState, SameTrading
  <2> QED
      BY <2>1, <2>2
<1>2. FlattenHalt(e, reason) \in EngineState /\ SameTrading(FlattenHalt(e, reason), e)
  <2>1. FlattenHalt(e, reason) \in EngineState
      BY SetKillType DEF FlattenHalt, KillReasons, KillStates
  <2>2. SameTrading(FlattenHalt(e, reason), e)
      BY DEF FlattenHalt, EngineState, SameTrading
  <2> QED
      BY <2>1, <2>2
<1>3. ReleaseHalt(e, reason) \in EngineState /\ SameTrading(ReleaseHalt(e, reason), e)
  <2>1. ReleaseHalt(e, reason) \in EngineState
      BY SetKillType DEF ReleaseHalt, KillReasons, KillStates
  <2>2. SameTrading(ReleaseHalt(e, reason), e)
      BY DEF ReleaseHalt, EngineState, SameTrading
  <2> QED
      BY <2>1, <2>2
<1> QED
    BY <1>1, <1>2, <1>3

(* Leaving the trading state alone twice leaves it alone. *)
LEMMA SameTradingTransitive ==
    ASSUME NEW e, NEW f, NEW g, SameTrading(f, e), SameTrading(g, f)
    PROVE  SameTrading(g, e)
    BY DEF SameTrading

(* Rolling the loss windows leaves orders and stops alone. *)
LEMMA RollWindowsType ==
    ASSUME NEW e \in EngineState, NEW day \in Nat, NEW equity \in Int
    PROVE  RollWindows(e, day, equity) \in EngineState
           /\ SameTrading(RollWindows(e, day, equity), e)
<1> DEFINE first == [e EXCEPT !.day = day]
           begun == [first EXCEPT !.dayStart = equity]
           d == IF day > e.day THEN ReleaseHalt(begun, "daily_loss") ELSE e
           w == [d EXCEPT !.weekStart = equity]
<1>1. first \in EngineState /\ SameTrading(first, e)
    BY DEF EngineState, SameTrading, MaybeNat
<1>2. begun \in EngineState /\ SameTrading(begun, e)
  <2> HIDE DEF first
  <2>1. begun \in EngineState
      BY <1>1, SMTT(60) DEF EngineState
  <2>2. SameTrading(begun, first)
      BY <1>1, SMTT(60) DEF EngineState, SameTrading
  <2> QED
      BY <1>1, <2>1, <2>2, SameTradingTransitive
<1> HIDE DEF begun
<1>3. d \in EngineState /\ SameTrading(d, e)
  <2>1. ReleaseHalt(begun, "daily_loss") \in EngineState
        /\ SameTrading(ReleaseHalt(begun, "daily_loss"), begun)
      BY <1>2, KillSwitchType DEF KillReasons
  <2>2. SameTrading(ReleaseHalt(begun, "daily_loss"), e)
      BY <1>2, <2>1, SameTradingTransitive
  <2> QED
      BY <2>1, <2>2 DEF SameTrading
<1> HIDE DEF d
<1>4. w \in EngineState /\ SameTrading(w, e)
    BY <1>3 DEF EngineState, SameTrading
<1> HIDE DEF w
<1>5. ReleaseHalt(w, "weekly_loss") \in EngineState
      /\ SameTrading(ReleaseHalt(w, "weekly_loss"), e)
  <2>1. ReleaseHalt(w, "weekly_loss") \in EngineState
        /\ SameTrading(ReleaseHalt(w, "weekly_loss"), w)
      BY <1>4, KillSwitchType DEF KillReasons
  <2> QED
      BY <1>4, <2>1, SameTradingTransitive
<1>6. RollWindows(e, day, equity) \in {first, d, ReleaseHalt(w, "weekly_loss")}
    BY DEF RollWindows, w, d, begun
<1> QED
    BY <1>1, <1>3, <1>5, <1>6

(* So does marking the limits. *)
LEMMA MarkedPeakType ==
    ASSUME NEW e \in EngineState, NEW day \in Nat, NEW equity \in Int
    PROVE  MarkedPeak(e, day, equity) \in EngineState /\ SameTrading(MarkedPeak(e, day, equity), e)
<1> DEFINE rolled == RollWindows(e, day, equity)
           peak   == MaxOf(rolled.peak, equity)
           marked == [rolled EXCEPT !.peak = peak]
<1>1. MarkedPeak(e, day, equity) = marked
    BY DEF MarkedPeak
<1>2. rolled \in EngineState /\ SameTrading(rolled, e)
    BY RollWindowsType
<1> HIDE DEF rolled
<1>3. peak \in Nat \ {0}
  <2>1. rolled.peak \in Nat \ {0}
      BY <1>2 DEF EngineState
  <2> QED
      BY <2>1 DEF MaxOf
<1> HIDE DEF peak
<1>4. marked \in EngineState /\ SameTrading(marked, e)
    BY <1>2, <1>3 DEF EngineState, SameTrading
<1> QED
    BY <1>1, <1>4

(* So does recording the PnL of the windows. *)
LEMMA MarkedPnlType ==
    ASSUME NEW e \in EngineState, NEW equity \in Int
    PROVE  MarkedPnl(e, equity) \in EngineState /\ SameTrading(MarkedPnl(e, equity), e)
<1> DEFINE d == equity - e.dayStart
           w == equity - e.weekStart
           pnl == [e EXCEPT !.dailyPnl = d, !.weeklyPnl = w]
<1>1. MarkedPnl(e, equity) = pnl
    BY DEF MarkedPnl
<1>2. d \in Int /\ w \in Int
  <2>1. e.dayStart \in Int /\ e.weekStart \in Int
      BY DEF EngineState
  <2> QED
      BY <2>1
<1> HIDE DEF d, w
<1>3. pnl \in EngineState
    BY <1>2 DEF EngineState
<1>4. SameTrading(pnl, e)
    BY DEF EngineState, SameTrading
<1> QED
    BY <1>1, <1>3, <1>4

(* So does halting on a loss. *)
LEMMA HaltOnLossType ==
    ASSUME NEW e \in EngineState, NEW equity
    PROVE  HaltOnLoss(e, equity) \in EngineState /\ SameTrading(HaltOnLoss(e, equity), e)
<1> DEFINE daily == IF DailyLossBreached(e, equity) THEN HaltNew(e, "daily_loss") ELSE e
<1>1. daily \in EngineState /\ SameTrading(daily, e)
    BY KillSwitchType DEF KillReasons, SameTrading
<1>2. HaltOnLoss(e, equity) \in {HaltNew(daily, "weekly_loss"), daily}
    BY DEF HaltOnLoss
<1> HIDE DEF daily
<1>3. HaltNew(daily, "weekly_loss") \in EngineState /\ SameTrading(HaltNew(daily, "weekly_loss"), e)
    BY <1>1, KillSwitchType, SameTradingTransitive DEF KillReasons
<1> QED
    BY <1>1, <1>2, <1>3

(* And so does _mark_limits as a whole. *)
LEMMA MarkLimitsType ==
    ASSUME NEW e \in EngineState, NEW day \in Nat
    PROVE  MarkLimits(e, day) \in EngineState /\ SameTrading(MarkLimits(e, day), e)
<1> DEFINE equity == Equity(e)
           marked == MarkedPeak(e, day, equity)
           pnl    == MarkedPnl(marked, equity)
<1>1. equity \in Int \cup {None}
    BY EquityType
<1>2. CASE equity = None
    BY <1>2, KillSwitchType DEF MarkLimits, LimitsAt, KillReasons
<1>3. CASE equity # None
  <2> HIDE DEF equity
  <2>1. marked \in EngineState /\ SameTrading(marked, e)
      BY <1>1, <1>3, MarkedPeakType
  <2> HIDE DEF marked
  <2>2. pnl \in EngineState /\ SameTrading(pnl, e)
      BY <1>1, <1>3, <2>1, MarkedPnlType, SameTradingTransitive
  <2> HIDE DEF pnl
  <2>3. FlattenHalt(marked, "drawdown") \in EngineState
        /\ SameTrading(FlattenHalt(marked, "drawdown"), e)
      BY <2>1, KillSwitchType, SameTradingTransitive DEF KillReasons
  <2>4. HaltOnLoss(pnl, equity) \in EngineState /\ SameTrading(HaltOnLoss(pnl, equity), e)
      BY <2>2, HaltOnLossType, SameTradingTransitive
  <2> QED
      BY <1>3, <2>3, <2>4 DEF MarkLimits, LimitsAt, LimitsChecked, equity, marked, pnl
<1> QED
    BY <1>2, <1>3

-----------------------------------------------------------------------------
(* The inductive invariant, between any two methods of a handler. *)

StopOk(e) ==
    IF e.book.quantity = 0 THEN e.stop = None /\ e.stopSetTradeCount = None
    ELSE e.stop = StopFor(e.book) /\ e.stopSetTradeCount # None

ExitOwns(e) ==
    /\ e.stopExitPending <=> e.book.quantity # 0 /\ e.stopLockout # 0
    /\ e.stopExitPending => e.stopLockout = Sign(e.book.quantity)
    /\ e.stopLockout # 0 => e.working = None \/ e.working.reduceOnly

Opposes(side, position) == IF side = "BUY" THEN position < 0 ELSE position > 0

WorkOk(e) ==
    e.working # None =>
        IF e.working.reduceOnly
        THEN Opposes(e.working.side, e.book.quantity) /\ e.working.quantity <= Abs(e.book.quantity)
        ELSE e.book.quantity = 0

Counted(e) ==
    e.nextOrder - 1 = e.orderCount + (IF e.working = None THEN 0 ELSE 1)

Sound(e) ==
    /\ e \in EngineState
    /\ StopOk(e)
    /\ ExitOwns(e)
    /\ WorkOk(e)
    /\ Counted(e)

(* What leaves the trading state alone keeps it sound. *)
LEMMA SameTradingSound ==
    ASSUME NEW e, NEW f \in EngineState, Sound(e), SameTrading(f, e)
    PROVE  Sound(f)
    BY DEF Sound, SameTrading, StopOk, ExitOwns, WorkOk, Counted

(* A refusal is recorded without touching orders, stops or the market. *)
LEMMA RejectType ==
    ASSUME NEW e \in EngineState, NEW reason \in Reasons, NEW detail \in SUBSET Details,
           NEW desired \in DesiredOrders \cup {None}
    PROVE  /\ Reject(e, reason, detail, desired) \in EngineState
           /\ SameTrading(Reject(e, reason, detail, desired), e)
           /\ SameMarket(Reject(e, reason, detail, desired), e)
<1> DEFINE key == [reason |-> reason, detail |-> detail, kill |-> e.kill, desired |-> desired]
           n   == e.rejectionCount + 1
           r   == [e EXCEPT !.lastBlock = key, !.rejectionCount = n]
<1>1. key \in Blocks \cup {None}
  <2>1. e.kill \in KillStates
      BY DEF EngineState
  <2> QED
      BY <2>1 DEF Blocks
<1>2. n \in Nat
    BY DEF EngineState
<1>3. Reject(e, reason, detail, desired) \in {e, r}
    BY DEF Reject
<1> HIDE DEF key, n
<1>4. r \in EngineState
    BY <1>1, <1>2 DEF EngineState
<1>5. SameTrading(r, e) /\ SameMarket(r, e)
    BY DEF EngineState, SameTrading, SameMarket
<1> QED
    BY <1>3, <1>4, <1>5 DEF SameTrading, SameMarket

(* Canceling an order keeps the types. *)
LEMMA SetCompletedType ==
    ASSUME NEW e \in EngineState, NEW n \in Nat
    PROVE  [e EXCEPT !.working = None, !.orderCount = n] \in EngineState
    BY DEF EngineState

(* So does completing it. *)
LEMMA SetDoneType ==
    ASSUME NEW e \in EngineState, NEW n \in Nat
    PROVE  [e EXCEPT !.working = None, !.orderCount = n, !.missingFlatten = FALSE] \in EngineState
    BY DEF EngineState

(* Canceling counts the order and changes nothing else. *)
LEMMA CancelWorkingSound ==
    ASSUME NEW e, Sound(e)
    PROVE  /\ Sound(CancelWorking(e)) /\ CancelWorking(e).working = None
           /\ CancelWorking(e).book = e.book
           /\ CancelWorking(e).stopLockout = e.stopLockout
           /\ CancelWorking(e).stopExitPending = e.stopExitPending
           /\ SameMarket(CancelWorking(e), e)
<1> DEFINE n == e.orderCount + 1
           r == [e EXCEPT !.working = None, !.orderCount = n]
<1>1. n \in Nat /\ e \in EngineState
    BY DEF EngineState, Sound
<1>2. CancelWorking(e) = IF e.working = None THEN e ELSE r
    BY DEF CancelWorking
<1>3. r \in EngineState
    BY <1>1, SetCompletedType
<1>4. /\ r.book = e.book /\ r.stop = e.stop /\ r.stopSetTradeCount = e.stopSetTradeCount
      /\ r.stopExitPending = e.stopExitPending /\ r.stopLockout = e.stopLockout
      /\ r.working = None /\ r.orderCount = e.orderCount + 1 /\ r.nextOrder = e.nextOrder
    BY <1>1 DEF EngineState
<1>5. SameMarket(r, e) /\ SameMarket(e, e)
    BY <1>1 DEF EngineState, SameMarket
<1> HIDE DEF r
<1>6. e.working # None => Counted(r)
    BY <1>1, <1>4 DEF Counted, Sound, EngineState
<1>7. e.working # None => Sound(r)
    BY <1>3, <1>4, <1>6 DEF Sound, StopOk, ExitOwns, WorkOk
<1> QED
    BY <1>2, <1>4, <1>5, <1>7

-----------------------------------------------------------------------------
(* What the risk checks refuse, and what their silence guarantees. *)

(* The position check refuses with the reasons it names. *)
LEMMA PositionReasonsType ==
    ASSUME NEW position, NEW pending, NEW side, NEW quantity, NEW reduceOnly
    PROVE  PositionReasons(position, pending, side, quantity, reduceOnly) \in SUBSET GateReasons
    BY DEF PositionReasons, GateReasons

(* A reduction the position check lets pass opposes the position and is no *)
(* larger (paper_position_rejection_reasons).                              *)
LEMMA PositionReasonsAllow ==
    ASSUME NEW position \in Int, NEW pending \in Nat, NEW side \in Sides, NEW quantity \in Nat,
           NEW reduceOnly \in BOOLEAN,
           PositionReasons(position, pending, side, quantity, reduceOnly) = {}
    PROVE  reduceOnly => Opposes(side, position) /\ quantity <= Abs(position)
    BY DEF PositionReasons, Opposes, Abs, Sides

(* So do the hard limits. *)
LEMMA HardLimitReasonsType ==
    ASSUME NEW position, NEW pending, NEW equity, NEW peak, NEW dailyPnl, NEW weeklyPnl,
           NEW side, NEW quantity, NEW reduceOnly, NEW px
    PROVE  HardLimitReasons(position, pending, equity, peak, dailyPnl, weeklyPnl,
                            side, quantity, reduceOnly, px) \in SUBSET GateReasons
<1> DEFINE gates == EntryGates(position, equity, peak, dailyPnl, weeklyPnl, side, quantity, px)
<1>1. DOMAIN gates \subseteq GateReasons
    BY DEF EntryGates, GateReasons
<1> HIDE DEF gates
<1> QED
    BY <1>1, PositionReasonsType DEF HardLimitReasons, Failing, gates

(* No entry adds to an open position (no_averaging_down). *)
LEMMA HardLimitReasonsAllow ==
    ASSUME NEW position \in Int, NEW pending, NEW equity, NEW peak, NEW dailyPnl, NEW weeklyPnl,
           NEW side, NEW quantity, NEW px \in Nat \ {0},
           HardLimitReasons(position, pending, equity, peak, dailyPnl, weeklyPnl,
                            side, quantity, FALSE, px) = {}
    PROVE  position = 0
<1> DEFINE gates == EntryGates(position, equity, peak, dailyPnl, weeklyPnl, side, quantity, px)
<1>1. "no_averaging_down" \in DOMAIN gates
      /\ gates["no_averaging_down"] = (Value(Abs(position), px) > 0)
    BY DEF EntryGates
<1> HIDE DEF gates
<1>2. ~gates["no_averaging_down"]
    BY <1>1 DEF HardLimitReasons, Failing, gates
<1>3. ~(Value(Abs(position), px) > 0)
    BY <1>1, <1>2
<1>4. position # 0 => Abs(position) \in Nat \ {0}
    BY DEF Abs
<1> QED
    BY <1>3, <1>4, PositiveProduct DEF Value

(* A refusal is a record, not None. *)
LEMMA RefusalType ==
    ASSUME NEW reason \in Reasons, NEW detail \in SUBSET Details
    PROVE  [reason |-> reason, detail |-> detail] \in Refusals
           /\ [reason |-> reason, detail |-> detail] # None
    BY NoneAssumption DEF Refusals

(* _paper_risk_allows: a refusal, or none. *)
LEMMA RiskBlockType ==
    ASSUME NEW e \in EngineState, NEW side \in Sides, NEW quantity \in Nat, NEW px \in Nat \ {0},
           NEW reduceOnly \in BOOLEAN, NEW pending \in Nat
    PROVE  /\ RiskBlock(e, side, quantity, px, reduceOnly, pending) \in Refusals \cup {None}
           /\ RiskBlock(e, side, quantity, px, reduceOnly, pending) = None =>
                IF reduceOnly
                THEN Opposes(side, e.book.quantity) /\ quantity <= Abs(e.book.quantity)
                ELSE e.book.quantity = 0
<1> DEFINE position == e.book.quantity
           owned    == PositionReasons(position, pending, side, quantity, reduceOnly)
           equity   == IF reduceOnly /\ Equity(e) = None
                       THEN e.book.cash + Value(position, px) ELSE Equity(e)
           hard     == HardLimitReasons(position, pending, equity, MaxOf(e.peak, equity),
                                        e.dailyPnl, e.weeklyPnl, side, quantity, reduceOnly, px)
           block    == RiskBlock(e, side, quantity, px, reduceOnly, pending)
           r1 == [reason |-> "paper_risk", detail |-> owned]
           r2 == [reason |-> "missing_price", detail |-> {"equity"}]
           r3 == [reason |-> "non_positive_equity", detail |-> {}]
           r4 == [reason |-> "paper_risk", detail |-> hard]
<1>1. position \in Int
    BY DEF EngineState, Books
<1>2. block = IF owned # {} THEN r1
              ELSE IF equity = None THEN r2
              ELSE IF equity <= 0 THEN IF reduceOnly THEN None ELSE r3
              ELSE IF hard # {} THEN r4 ELSE None
    BY DEF RiskBlock, RiskBlockAt, RiskRefusal, RiskEquity
<1>3. owned \in SUBSET Details /\ hard \in SUBSET Details
    BY PositionReasonsType, HardLimitReasonsType DEF Details
<1>4. reduceOnly /\ owned = {} => Opposes(side, position) /\ quantity <= Abs(position)
    BY <1>1, PositionReasonsAllow
<1>5. ~reduceOnly /\ hard = {} => position = 0
    BY <1>1, HardLimitReasonsAllow
<1> HIDE DEF position, owned, equity, hard, block
<1>6. /\ r1 \in Refusals /\ r1 # None /\ r4 \in Refusals /\ r4 # None
      /\ r2 \in Refusals /\ r2 # None /\ r3 \in Refusals /\ r3 # None
    BY <1>3, RefusalType DEF Reasons, Details
<1> HIDE DEF r1, r2, r3, r4
<1>7. block \in Refusals \cup {None}
    BY <1>2, <1>6
<1>8. block = None => IF reduceOnly THEN Opposes(side, position) /\ quantity <= Abs(position)
                      ELSE position = 0
    BY <1>2, <1>4, <1>5, <1>6
<1> QED
    BY <1>7, <1>8 DEF block, position

-----------------------------------------------------------------------------
(* Submission. *)

Callers == {"target", "stop-exit", "kill-flatten"}

(* The risk-based size of a positive equity is a size. *)
LEMMA SizedQuantityNat ==
    ASSUME NEW equity \in Nat, NEW px \in Nat \ {0} PROVE SizedQuantity(equity, px) \in Nat
<1>1. equity * RiskPerTradePct \in Nat /\ StopPct * px \in Nat \ {0}
    BY RiskAssumption, NatProduct, PositiveProduct
<1>2. (equity * RiskPerTradePct) \div (StopPct * px) \in Nat
    BY <1>1, NatQuotient
<1> QED
    BY <1>2, FloorSizeDown DEF SizedQuantity

(* The price given to the hard limits is positive. *)
LEMMA RiskPricePositive ==
    ASSUME NEW touch \in Prices
    PROVE  RiskPrice(touch) \in Nat \ {0} /\ Px(touch) \in Nat \ {0}
<1>1. 2 * touch \in Nat \ {0} /\ 100 + EntryBandPct \in Nat \ {0}
    BY ExecutionAssumption DEF Prices
<1>2. (2 * touch) * (100 + EntryBandPct) \in Nat \ {0}
    BY <1>1, NatProduct, PositiveProduct
<1> QED
    BY <1>2 DEF RiskPrice, Px, Prices

(* The accepted size is whole lots and never more than was asked for. *)
LEMMA OrderQuantityType ==
    ASSUME NEW e \in EngineState, NEW desired \in DesiredOrders, NEW touch \in Prices
    PROVE  /\ OrderQuantity(e, desired, touch) \in Nat
           /\ desired.reduceOnly => OrderQuantity(e, desired, touch) = FloorSize(desired.quantity)
<1> DEFINE floor == FloorSize(desired.quantity)
           px    == RiskPrice(touch)
           sized == SizedQuantity(Equity(e), px)
<1>1. floor \in Nat
    BY FloorSizeDown DEF DesiredOrders
<1>2. px \in Nat \ {0}
    BY RiskPricePositive
<1>3. Equity(e) # None /\ ~(Equity(e) <= 0) => sized \in Nat
  <2> SUFFICES ASSUME Equity(e) # None, ~(Equity(e) <= 0) PROVE sized \in Nat
      OBVIOUS
  <2>1. Equity(e) \in Nat
      BY EquityType
  <2> QED
      BY <1>2, <2>1, SizedQuantityNat
<1> HIDE DEF floor, px, sized
<1>4. ClipEntry(floor, px, Equity(e)) \in Nat
    BY <1>1, <1>3 DEF ClipEntry, sized
<1> QED
    BY <1>1, <1>4 DEF OrderQuantity, floor, px

(* An entry that passes its checks has a size. *)
LEMMA EntryBlockType ==
    ASSUME NEW e \in EngineState, NEW desired \in DesiredOrders, NEW touch \in Prices,
           NEW quantity \in Nat
    PROVE  /\ EntryBlock(e, desired, touch, quantity) \in EntryReasons \cup {None}
           /\ EntryBlock(e, desired, touch, quantity) = None => quantity > 0
<1> DEFINE projected == Abs(e.book.quantity + Signed(desired.side, quantity))
           limit     == LimitPrice(desired.side, FALSE, touch)
           lowest    == IF touch < limit THEN touch ELSE limit
           position  == projected > MaxPosition
           notional  == Value(projected, RiskPrice(touch)) > MaxNotional
           minimum   == Value(quantity, Px(lowest)) < MinNotional
           block     == EntryBlock(e, desired, touch, quantity)
<1>1. block = IF quantity <= 0 THEN "risk_based_size"
              ELSE IF position THEN "max_position"
              ELSE IF notional THEN "max_notional"
              ELSE IF minimum THEN "min_notional" ELSE None
    BY DEF EntryBlock
<1> HIDE DEF position, notional, minimum, projected, limit, lowest, block
<1>2. block = None => ~(quantity <= 0)
    BY <1>1, NoneAssumption DEF EntryReasons
<1>3. block \in EntryReasons \cup {None}
    BY <1>1 DEF EntryReasons
<1>4. block = None => quantity > 0
    BY <1>2
<1> QED
    BY <1>3, <1>4 DEF block

(* An order is accepted only at a usable touch, with a size of at least a  *)
(* lot, as a reduction of the position or as an entry on a flat book.      *)
LEMMA SubmitBlockType ==
    ASSUME NEW e \in EngineState, NEW desired \in DesiredOrders, NEW ns \in Nat,
           NEW reason \in Callers, NEW onDecisionQuote \in BOOLEAN, e.working = None
    PROVE  LET block == SubmitBlock(e, desired, ns, reason, onDecisionQuote)
               touch == Displayed(CurrentTouch(e), desired.side).price
               quantity == OrderQuantity(e, desired, touch)
           IN  /\ block \in Refusals \cup {None}
               /\ block = None =>
                    /\ CurrentTouch(e) \in Touches
                    /\ quantity \in Nat \ {0}
                    /\ IF desired.reduceOnly
                       THEN Opposes(desired.side, e.book.quantity)
                            /\ quantity <= Abs(e.book.quantity)
                       ELSE e.book.quantity = 0 /\ e.kill = "NONE"
<1> DEFINE quote == CurrentTouch(e)
           touch == Displayed(quote, desired.side).price
           quantity == OrderQuantity(e, desired, touch)
           entry == EntryBlock(e, desired, touch, quantity)
           px    == IF desired.reduceOnly THEN Px(touch) ELSE RiskPrice(touch)
           risk  == RiskBlock(e, desired.side, quantity, px, desired.reduceOnly, 0)
           r1 == [reason |-> "halt_new", detail |-> {e.killReason}]
           r2 == [reason |-> "flatten_halt", detail |-> {e.killReason}]
           r3 == [reason |-> "missing_price", detail |-> {reason}]
           r4 == [reason |-> "touch_consumed", detail |-> {reason}]
           r5 == [reason |-> "below_increment", detail |-> {reason}]
           r6 == [reason |-> entry, detail |-> {reason}]
           block == SubmitBlock(e, desired, ns, reason, onDecisionQuote)
<1>1. block = IF e.kill = "HALT_NEW" /\ ~desired.reduceOnly THEN r1
              ELSE IF e.kill = "FLATTEN_HALT" /\ ~desired.reduceOnly THEN r2
              ELSE IF quote = None THEN r3
              ELSE IF onDecisionQuote /\ TouchUsedUp(e, desired.side, ns) THEN r4
              ELSE IF FloorSize(desired.quantity) <= 0 THEN r5
              ELSE IF ~desired.reduceOnly /\ entry # None THEN r6
              ELSE risk
    BY DEF SubmitBlock, PricedBlock, SizedBlock, TouchPrice
<1>2. quote \in Touches \cup {None}
    BY CurrentTouchType
<1>3. desired.side \in Sides /\ desired.reduceOnly \in BOOLEAN /\ desired.quantity \in Nat
    BY DEF DesiredOrders
<1>4. e.kill \in KillStates /\ e.killReason \in KillReasons
    BY DEF EngineState
<1>5. reason \in Details /\ e.killReason \in Details
    BY <1>4 DEF Callers, Details
<1>6. r1 \in Refusals /\ r1 # None /\ r2 \in Refusals /\ r2 # None
    BY <1>5, RefusalType DEF Reasons
<1>7. /\ r3 \in Refusals /\ r3 # None /\ r4 \in Refusals /\ r4 # None
      /\ r5 \in Refusals /\ r5 # None
    BY <1>5, RefusalType DEF Reasons
<1> HIDE DEF quote
<1>8. quote # None =>
        /\ entry \in EntryReasons \cup {None}
        /\ entry = None => quantity > 0
        /\ quantity \in Nat
        /\ desired.reduceOnly => quantity = FloorSize(desired.quantity)
        /\ risk \in Refusals \cup {None}
        /\ risk = None => IF desired.reduceOnly
                          THEN Opposes(desired.side, e.book.quantity)
                               /\ quantity <= Abs(e.book.quantity)
                          ELSE e.book.quantity = 0
  <2> SUFFICES ASSUME quote # None
               PROVE  /\ entry \in EntryReasons \cup {None}
                      /\ entry = None => quantity > 0
                      /\ quantity \in Nat
                      /\ desired.reduceOnly => quantity = FloorSize(desired.quantity)
                      /\ risk \in Refusals \cup {None}
                      /\ risk = None => IF desired.reduceOnly
                                        THEN Opposes(desired.side, e.book.quantity)
                                             /\ quantity <= Abs(e.book.quantity)
                                        ELSE e.book.quantity = 0
      OBVIOUS
  <2>1. touch \in Prices
      BY <1>2, DisplayedType
  <2> HIDE DEF touch
  <2>2. quantity \in Nat /\ (desired.reduceOnly => quantity = FloorSize(desired.quantity))
      BY <2>1, OrderQuantityType
  <2> HIDE DEF quantity
  <2>3. entry \in EntryReasons \cup {None} /\ (entry = None => quantity > 0)
      BY <2>1, <2>2, EntryBlockType
  <2>4. px \in Nat \ {0}
      BY <2>1, RiskPricePositive
  <2> HIDE DEF px
  <2> QED
      BY <1>3, <2>2, <2>3, <2>4, RiskBlockType
<1> HIDE DEF entry, risk, quantity, r1, r2, r3, r4, r5
<1>9. quote # None /\ entry # None => r6 \in Refusals /\ r6 # None
    BY <1>5, <1>8, RefusalType DEF Reasons
<1> HIDE DEF r6
<1>10. block \in Refusals \cup {None}
    BY <1>1, <1>6, <1>7, <1>8, <1>9
<1>11. FloorSize(desired.quantity) \in Nat
    BY <1>3, FloorSizeDown
<1>12. block = None =>
         /\ quote # None /\ quantity \in Nat \ {0}
         /\ IF desired.reduceOnly
            THEN Opposes(desired.side, e.book.quantity) /\ quantity <= Abs(e.book.quantity)
            ELSE e.book.quantity = 0 /\ e.kill = "NONE"
    BY <1>1, <1>3, <1>4, <1>6, <1>7, <1>8, <1>9, <1>11 DEF KillStates
<1> QED
    BY <1>2, <1>10, <1>12 DEF quantity, quote


(* Accepting an order keeps the types. *)
LEMMA SetAcceptedType ==
    ASSUME NEW e \in EngineState, NEW w \in WorkingOrders, NEW n \in Nat
    PROVE  [e EXCEPT !.working = w, !.nextOrder = n, !.missingFlatten = FALSE,
                     !.lastBlock = None] \in EngineState
    BY DEF EngineState

(* An accepted order takes the next number and keeps the state sound. *)
LEMMA AcceptOrderSound ==
    ASSUME NEW e, Sound(e), NEW desired \in DesiredOrders, NEW ns \in Nat, NEW immediate \in BOOLEAN,
           e.working = None,
           CurrentTouch(e) \in Touches,
           NEW quantity, quantity =
             OrderQuantity(e, desired, Displayed(CurrentTouch(e), desired.side).price),
           quantity \in Nat \ {0},
           IF desired.reduceOnly
             THEN Opposes(desired.side, e.book.quantity) /\ quantity <= Abs(e.book.quantity)
             ELSE e.book.quantity = 0 /\ e.stopLockout = 0
    PROVE  LET r == AcceptOrder(e, desired, ns, immediate)
           IN  /\ Sound(r) /\ SameMarket(r, e)
               /\ r.book = e.book /\ r.stopLockout = e.stopLockout
               /\ r.stopExitPending = e.stopExitPending
               /\ r.working \in WorkingOrders
               /\ r.working.immediate = immediate
               /\ r.working.reduceOnly = desired.reduceOnly
               /\ immediate => r.working.eligible = ns
<1> DEFINE touch == Displayed(CurrentTouch(e), desired.side).price
           limit == LimitPrice(desired.side, desired.reduceOnly, touch)
           eligible == ns + (IF immediate THEN 0 ELSE Latency)
           w == [side |-> desired.side, quantity |-> quantity, desired |-> desired.quantity,
                 reduceOnly |-> desired.reduceOnly, limit |-> limit, eligible |-> eligible,
                 immediate |-> immediate]
           n == e.nextOrder + 1
           r == [e EXCEPT !.working = w, !.nextOrder = n, !.missingFlatten = FALSE,
                          !.lastBlock = None]
<1>1. AcceptOrder(e, desired, ns, immediate) = r
    BY DEF AcceptOrder, TouchPrice
<1>2. touch \in Prices
    BY DisplayedType
<1>3. limit \in Int
    BY <1>2, LimitPriceInt DEF DesiredOrders
<1>4. eligible \in Nat /\ (immediate => eligible = ns)
    BY EngineAssumption
<1>5. n \in Nat /\ e \in EngineState
    BY DEF Sound, EngineState
<1> HIDE DEF touch, limit, eligible, n
<1>6. w \in WorkingOrders
    BY <1>3, <1>4 DEF WorkingOrders, DesiredOrders
<1>7. /\ w.side = desired.side /\ w.quantity = quantity /\ w.reduceOnly = desired.reduceOnly
      /\ w.eligible = eligible /\ w.immediate = immediate
    OBVIOUS
<1> HIDE DEF w
<1>8. r \in EngineState
    BY <1>5, <1>6, SetAcceptedType
<1>9. /\ r.book = e.book /\ r.stop = e.stop /\ r.stopSetTradeCount = e.stopSetTradeCount
      /\ r.stopExitPending = e.stopExitPending /\ r.stopLockout = e.stopLockout
      /\ r.working = w /\ r.orderCount = e.orderCount /\ r.nextOrder = n
    BY <1>5 DEF EngineState
<1>10. SameMarket(r, e)
    BY <1>5 DEF EngineState, SameMarket
<1> HIDE DEF r
<1>11. Counted(r)
  <2>1. w # None
      BY <1>6, NoneAssumption
  <2>2. e.nextOrder \in Nat /\ e.orderCount \in Nat
      BY <1>5 DEF EngineState
  <2> QED
      BY <1>9, <2>1, <2>2 DEF Counted, Sound, n
<1>12. StopOk(r) /\ ExitOwns(r) /\ WorkOk(r)
  <2>1. StopOk(r)
      BY <1>9 DEF StopOk, Sound
  <2>2. ExitOwns(r)
      BY <1>7, <1>9 DEF ExitOwns, Sound, DesiredOrders
  <2>3. WorkOk(r)
      BY <1>7, <1>9 DEF WorkOk
  <2> QED
      BY <2>1, <2>2, <2>3
<1> QED
    BY <1>1, <1>4, <1>6, <1>7, <1>8, <1>9, <1>10, <1>11, <1>12 DEF Sound

(* _submit_desired keeps the state sound; what works afterwards is nothing, *)
(* what worked before, or the order it accepted at a usable touch.          *)
Submitted(r, e, desired, ns, immediate) ==
    /\ Sound(r) /\ SameMarket(r, e)
    /\ r.book = e.book /\ r.stopLockout = e.stopLockout
    /\ r.stopExitPending = e.stopExitPending
    /\ \/ r.working \in {None, e.working}
       \/ /\ CurrentTouch(r) # None
          /\ r.working.immediate = immediate
          /\ ~r.working.reduceOnly => r.kill = "NONE"
          /\ immediate => r.working.eligible = ns

(* Every way through _submit_desired ends in Submitted. *)
LEMMA SubmitDesiredSound ==
    ASSUME NEW e, Sound(e), NEW desired \in DesiredOrders \cup {None}, NEW ns \in Nat,
           NEW reason \in Callers, NEW immediate \in BOOLEAN, NEW onDecisionQuote \in BOOLEAN,
           desired = None \/ desired.reduceOnly \/ e.stopLockout = 0
    PROVE  Submitted(SubmitDesired(e, desired, ns, reason, immediate, onDecisionQuote),
                     e, desired, ns, immediate)
<1> DEFINE r     == SubmitDesired(e, desired, ns, reason, immediate, onDecisionQuote)
           clear == [e EXCEPT !.lastBlock = None]
           free  == CancelWorking(e)
           block == SubmitBlock(free, desired, ns, reason, onDecisionQuote)
           noPrice == (free.kill = "NONE" \/ desired.reduceOnly) /\ CurrentTouch(free) = None
           flagged == IF noPrice THEN [free EXCEPT !.missingFlatten = desired.reduceOnly] ELSE free
<1>1. e \in EngineState
    BY DEF Sound
<1>2. CASE desired = None
  <2>1. r = CancelWorking(clear)
      BY <1>2 DEF SubmitDesired
  <2>2. clear \in EngineState /\ SameTrading(clear, e) /\ SameMarket(clear, e)
      BY <1>1 DEF EngineState, SameTrading, SameMarket
  <2> HIDE DEF clear
  <2>3. Sound(clear)
      BY <2>2, SameTradingSound
  <2>4. /\ Sound(r) /\ r.working = None /\ r.book = clear.book
        /\ r.stopLockout = clear.stopLockout /\ r.stopExitPending = clear.stopExitPending
        /\ SameMarket(r, clear)
      BY <2>1, <2>3, CancelWorkingSound
  <2> QED
      BY <2>2, <2>4 DEF Submitted, SameTrading, SameMarket
<1>3. CASE desired # None /\ KeepsWorking(e, desired, ns, immediate)
  <2>1. r = e
      BY <1>3 DEF SubmitDesired
  <2> QED
      BY <2>1 DEF Submitted, SameMarket
<1>4. CASE desired # None /\ ~KeepsWorking(e, desired, ns, immediate)
  <2>1. r = IF block # None THEN Reject(flagged, block.reason, block.detail, desired)
            ELSE AcceptOrder(free, desired, ns, immediate)
      BY <1>4 DEF SubmitDesired, Submit, FlagMissing
  <2>2. /\ Sound(free) /\ free.working = None /\ free.book = e.book
        /\ free.stopLockout = e.stopLockout /\ free.stopExitPending = e.stopExitPending
        /\ SameMarket(free, e)
      BY CancelWorkingSound
  <2> HIDE DEF free
  <2>3. free \in EngineState /\ desired \in DesiredOrders
      BY <1>4, <2>2 DEF Sound
  <2>4. CASE block # None
    <3>1. block \in Refusals
        BY <2>2, <2>3, <2>4, SubmitBlockType
    <3>2. block.reason \in Reasons /\ block.detail \in SUBSET Details
        BY <3>1 DEF Refusals
    <3> HIDE DEF block
    <3>3. desired.reduceOnly \in BOOLEAN
        BY <2>3 DEF DesiredOrders
    <3>4. flagged \in EngineState /\ SameTrading(flagged, free) /\ SameMarket(flagged, free)
      <4>1. [free EXCEPT !.missingFlatten = desired.reduceOnly] \in EngineState
          BY <2>3, <3>3 DEF EngineState
      <4>2. /\ SameTrading([free EXCEPT !.missingFlatten = desired.reduceOnly], free)
            /\ SameMarket([free EXCEPT !.missingFlatten = desired.reduceOnly], free)
          BY <2>3 DEF EngineState, SameTrading, SameMarket
      <4> QED
          BY <2>3, <4>1, <4>2 DEF SameTrading, SameMarket
    <3> HIDE DEF flagged
    <3>5. r \in EngineState /\ SameTrading(r, flagged) /\ SameMarket(r, flagged)
        BY <2>1, <2>4, <3>2, <3>4, RejectType
    <3> HIDE DEF r
    <3>6. Sound(flagged)
        BY <2>2, <3>4, SameTradingSound
    <3>7. Sound(r)
        BY <3>5, <3>6, SameTradingSound
    <3> QED
        BY <2>2, <3>4, <3>5, <3>7 DEF Submitted, SameTrading, SameMarket, r
  <2>5. CASE block = None
    <3> DEFINE quantity ==
                 OrderQuantity(free, desired, Displayed(CurrentTouch(free), desired.side).price)
    <3>1. /\ CurrentTouch(free) \in Touches
          /\ quantity \in Nat \ {0}
          /\ IF desired.reduceOnly
             THEN Opposes(desired.side, free.book.quantity) /\ quantity <= Abs(free.book.quantity)
             ELSE free.book.quantity = 0 /\ free.kill = "NONE"
        BY <2>2, <2>3, <2>5, SubmitBlockType
    <3>2. IF desired.reduceOnly
          THEN Opposes(desired.side, free.book.quantity) /\ quantity <= Abs(free.book.quantity)
          ELSE free.book.quantity = 0 /\ free.stopLockout = 0
        BY <1>4, <2>2, <3>1
    <3>3. r = AcceptOrder(free, desired, ns, immediate)
        BY <2>1, <2>5
    <3> HIDE DEF quantity, r, block
    <3>4. /\ Sound(r) /\ SameMarket(r, free)
          /\ r.book = free.book /\ r.stopLockout = free.stopLockout
          /\ r.stopExitPending = free.stopExitPending
          /\ r.working.immediate = immediate
          /\ r.working.reduceOnly = desired.reduceOnly
          /\ immediate => r.working.eligible = ns
        BY <2>2, <2>3, <3>1, <3>2, <3>3, AcceptOrderSound DEF quantity
    <3>5. CurrentTouch(r) # None
      <4>1. CurrentTouch(r) = CurrentTouch(free)
          BY <3>4, SameTouch
      <4> QED
          BY <3>1, <4>1, NoneAssumption DEF Touches
    <3> QED
        BY <2>2, <3>1, <3>4, <3>5 DEF Submitted, SameMarket, r
  <2> QED
      BY <2>4, <2>5
<1> QED
    BY <1>2, <1>3, <1>4

-----------------------------------------------------------------------------
(* Fills. *)

Fills == [side : Sides, quantity : Nat \ {0}, price : Nat \ {0}, fee : Nat]

(* A fill never exceeds the order (quote_taker_fill). *)
LEMMA QuoteTakerFillType ==
    ASSUME NEW side \in Sides, NEW quantity \in Nat, NEW price \in Prices, NEW size \in Nat
    PROVE  LET fill == QuoteTakerFill(side, quantity, price, size)
           IN  fill # None => /\ fill \in Fills
                              /\ fill.side = side
                              /\ fill.quantity <= quantity
<1> DEFINE at     == AdversePrice(side, price)
           least  == IF quantity < size THEN quantity ELSE size
           filled == FloorSize(least)
           fee    == 2 * at * filled * TakerFeePct
           fill   == [side |-> side, quantity |-> filled, price |-> at, fee |-> fee]
<1>1. at \in Nat
    BY AdversePriceNat
<1>2. least \in Nat /\ least <= quantity
    OBVIOUS
<1> HIDE DEF at, least
<1>3. filled \in Nat /\ filled <= quantity
  <2>1. filled \in Nat /\ filled <= least
      BY <1>2, FloorSizeDown
  <2> QED
      BY <1>2, <2>1
<1> HIDE DEF filled
<1>4. fee \in Nat
  <2>1. 2 * at \in Nat /\ TakerFeePct \in Nat
      BY <1>1, ExecutionAssumption
  <2>2. (2 * at) * filled \in Nat
      BY <1>3, <2>1, NatProduct
  <2> QED
      BY <2>1, <2>2, NatProduct
<1> HIDE DEF fee
<1>5. QuoteTakerFill(side, quantity, price, size)
        = IF size <= 0 \/ at <= 0 \/ filled <= 0 THEN None ELSE fill
    BY DEF QuoteTakerFill, at, least, filled, fee
<1>6. ~(at <= 0) /\ ~(filled <= 0) => fill \in Fills
    BY <1>1, <1>3, <1>4 DEF Fills
<1> QED
    BY <1>3, <1>5, <1>6

(* The cash ledger keeps its types, and what a fill does to the position.  *)
LEMMA ApplyFillType ==
    ASSUME NEW book \in Books, NEW fill \in Fills
    PROVE  ApplyFill(book, fill) \in Books
<1> DEFINE signed == Signed(fill.side, fill.quantity)
           before == book.quantity
           after  == before + signed
           grows   == before = 0 \/ Sign(before) = Sign(signed)
           reduces == after = 0 \/ Sign(before) = Sign(after)
           closed  == IF reduces THEN fill.quantity ELSE Abs(before)
           pnl     == Value(closed, Px(fill.price) - Px(book.average)) * Sign(before)
           cash    == book.cash - Value(signed, Px(fill.price)) - fill.fee
           mean    == (Abs(before) * book.average + fill.quantity * fill.price) \div Abs(after)
           average == IF after = 0 THEN 0
                      ELSE IF grows THEN mean
                      ELSE IF reduces THEN book.average
                      ELSE fill.price
           realized == IF grows THEN book.realized ELSE book.realized + pnl
           fees    == book.fees + fill.fee
<1>1. /\ book.cash \in Int /\ before \in Int /\ book.average \in Nat
      /\ book.realized \in Int /\ book.fees \in Nat
    BY DEF Books
<1>2. fill.quantity \in Nat \ {0} /\ fill.price \in Nat /\ fill.fee \in Nat
    BY DEF Fills
<1> HIDE DEF before
<1>3. signed \in Int
    BY <1>2 DEF Signed
<1> HIDE DEF signed
<1>4. after \in Int /\ Abs(before) \in Nat /\ Abs(after) \in Nat /\ Sign(before) \in Int
      /\ (after # 0 => Abs(after) \in Nat \ {0})
    BY <1>1, <1>3 DEF Abs, Sign
<1> HIDE DEF after
<1>5. closed \in Int /\ Px(fill.price) \in Int /\ Px(book.average) \in Int
    BY <1>1, <1>2, <1>4 DEF Px
<1> HIDE DEF closed, grows, reduces
<1>6. cash \in Int
  <2>1. Value(signed, Px(fill.price)) \in Int
      BY <1>3, <1>5, IntProduct DEF Value
  <2> QED
      BY <1>1, <1>2, <2>1
<1>7. average \in Nat
  <2>1. Abs(before) * book.average \in Nat /\ fill.quantity * fill.price \in Nat
      BY <1>1, <1>2, <1>4, NatProduct
  <2>2. Abs(before) * book.average + fill.quantity * fill.price \in Nat
      BY <2>1
  <2>3. after # 0 => mean \in Nat
      BY <1>4, <2>2, NatQuotient
  <2> HIDE DEF mean
  <2> QED
      BY <1>1, <1>2, <2>3
<1>8. realized \in Int
  <2>1. Px(fill.price) - Px(book.average) \in Int
      BY <1>5
  <2>2. Value(closed, Px(fill.price) - Px(book.average)) \in Int
      BY <1>5, <2>1, IntProduct DEF Value
  <2>3. pnl \in Int
      BY <1>4, <2>2, IntProduct
  <2> HIDE DEF pnl
  <2> QED
      BY <1>1, <2>3
<1>9. fees \in Nat
    BY <1>1, <1>2
<1>10. ApplyFill(book, fill) = [cash |-> cash, quantity |-> after, average |-> average,
                                realized |-> realized, fees |-> fees]
    BY DEF ApplyFill, before, signed, after, grows, reduces, closed
<1> HIDE DEF cash, average, realized, fees
<1> QED
    BY <1>4, <1>6, <1>7, <1>8, <1>9, <1>10 DEF Books

(* A fill moves the position by its signed quantity. *)
LEMMA ApplyFillPosition ==
    ASSUME NEW book \in Books, NEW fill \in Fills
    PROVE  ApplyFill(book, fill).quantity = book.quantity + Signed(fill.side, fill.quantity)
    BY DEF ApplyFill

(* A reduction no larger than the position never crosses zero, and keeps   *)
(* the average entry and the side of what is left.                         *)
LEMMA ApplyFillReduces ==
    ASSUME NEW book \in Books, NEW fill \in Fills,
           Opposes(fill.side, book.quantity), fill.quantity <= Abs(book.quantity)
    PROVE  LET after == ApplyFill(book, fill)
           IN  after.quantity # 0 =>
                 /\ Sign(after.quantity) = Sign(book.quantity)
                 /\ Abs(after.quantity) <= Abs(book.quantity)
                 /\ after.average = book.average
<1> DEFINE signed == Signed(fill.side, fill.quantity)
           after  == book.quantity + signed
<1>1. book.quantity \in Int /\ fill.quantity \in Nat \ {0} /\ fill.side \in Sides
    BY DEF Books, Fills
<1>2. /\ book.quantity # 0
      /\ Sign(book.quantity) # Sign(signed)
      /\ after # 0 => /\ Sign(after) = Sign(book.quantity)
                      /\ Abs(after) <= Abs(book.quantity)
    BY <1>1 DEF Opposes, Signed, Sign, Abs, Sides
<1>3. ApplyFill(book, fill).quantity = after
    BY ApplyFillPosition
<1>4. after # 0 => ApplyFill(book, fill).average = book.average
    BY <1>2 DEF ApplyFill
<1> HIDE DEF after
<1> QED
    BY <1>2, <1>3, <1>4

(* PAPER's own takes are remembered at the touch, nothing else changes.    *)
LEMMA TakeTouchType ==
    ASSUME NEW e \in EngineState, NEW quote \in Touches, NEW side \in Sides,
           NEW quantity \in Nat \ {0}, NEW ns \in Nat
    PROVE  LET r == TakeTouch(e, quote, side, quantity, ns)
           IN  r \in EngineState /\ SameTrading(r, e) /\ SameMarket(r, e)
<1> DEFINE price == Displayed(quote, side).price
           kept  == {h \in e.bookTaken : h.until > ns /\ ~(h.side = side /\ h.price = price)}
           held  == quantity + TakenFrom(e, quote, side, ns)
           until == ns + TouchRefill
           hold  == [side |-> side, price |-> price, quantity |-> held, until |-> until]
           all   == kept \cup {hold}
           taken == e.tradeTaken + quantity
           rt    == [e EXCEPT !.tradeTaken = taken]
           rb    == [e EXCEPT !.bookTaken = all]
<1>1. TakeTouch(e, quote, side, quantity, ns) = IF quote.kind = "trade" THEN rt ELSE rb
    BY DEF TakeTouch
<1>2. taken \in Nat
    BY DEF EngineState
<1>3. held \in Nat \ {0} /\ until \in Nat /\ price \in Nat
    BY TakenFromType, DisplayedType, EngineAssumption DEF Prices
<1>4. kept \subseteq Holds
    BY DEF EngineState
<1> HIDE DEF taken, held, until, price, kept
<1>5. all \subseteq Holds
    BY <1>3, <1>4 DEF Holds
<1> HIDE DEF all
<1>6. rt \in EngineState /\ SameTrading(rt, e) /\ SameMarket(rt, e)
    BY <1>2 DEF EngineState, SameTrading, SameMarket
<1>7. rb \in EngineState /\ SameTrading(rb, e) /\ SameMarket(rb, e)
    BY <1>5 DEF EngineState, SameTrading, SameMarket
<1> QED
    BY <1>1, <1>6, <1>7


(* A stop is a price. *)
LEMMA StopForNat == ASSUME NEW book \in Books PROVE StopFor(book) \in Nat
<1>1. 2 * book.average \in Nat /\ 100 - StopPct \in Nat /\ 100 + StopPct \in Nat
    BY RiskAssumption DEF Books
<1>2. (2 * book.average) * (100 - StopPct) \in Nat /\ (2 * book.average) * (100 + StopPct) \in Nat
    BY <1>1, NatProduct
<1> QED
    BY <1>2 DEF StopFor

(* Setting one field of the stop keeps the types. *)
LEMMA SetStopType ==
    ASSUME NEW e \in EngineState, NEW p \in MaybeNat
    PROVE  [e EXCEPT !.stop = p] \in EngineState
    BY DEF EngineState

LEMMA SetStopCountType ==
    ASSUME NEW e \in EngineState, NEW p \in MaybeNat
    PROVE  [e EXCEPT !.stopSetTradeCount = p] \in EngineState
    BY DEF EngineState

LEMMA ClearStopExitType ==
    ASSUME NEW e \in EngineState
    PROVE  [e EXCEPT !.stopExitPending = FALSE] \in EngineState
    BY DEF EngineState

LEMMA ClearExitWaitingType ==
    ASSUME NEW e \in EngineState
    PROVE  [e EXCEPT !.exitWaiting = FALSE] \in EngineState
    BY DEF EngineState

(* Updating the stop keeps the types and everything but the stop. *)
LEMMA UpdateStopType ==
    ASSUME NEW e \in EngineState, NEW before \in Int
    PROVE  LET r == UpdateStopAfterFill(e, before)
           IN  /\ r \in EngineState /\ SameMarket(r, e)
               /\ r.book = e.book /\ r.working = e.working
               /\ r.nextOrder = e.nextOrder /\ r.orderCount = e.orderCount
               /\ r.stopLockout = e.stopLockout
<1> DEFINE z1 == [e EXCEPT !.stop = None]
           z2 == [z1 EXCEPT !.stopSetTradeCount = None]
           z3 == [z2 EXCEPT !.stopExitPending = FALSE]
           z  == [z3 EXCEPT !.exitWaiting = FALSE]
           stop == StopFor(e.book)
           s1 == [e EXCEPT !.stop = stop]
           s  == [s1 EXCEPT !.stopSetTradeCount = e.tradeCount]
           Kept(r) == /\ SameMarket(r, e)
                      /\ r.book = e.book /\ r.working = e.working
                      /\ r.nextOrder = e.nextOrder /\ r.orderCount = e.orderCount
                      /\ r.stopLockout = e.stopLockout
<1>1. UpdateStopAfterFill(e, before) \in {z, s, e}
    BY DEF UpdateStopAfterFill
<1>2. stop \in Nat /\ e.tradeCount \in Nat
    BY StopForNat DEF EngineState
<1> HIDE DEF stop
<1> None \in MaybeNat /\ stop \in MaybeNat /\ e.tradeCount \in MaybeNat
    BY <1>2 DEF MaybeNat
<1>3. z \in EngineState
  <2>1. z1 \in EngineState
      BY SetStopType
  <2> HIDE DEF z1
  <2>2. z2 \in EngineState
      BY <2>1, SetStopCountType
  <2> HIDE DEF z2
  <2>3. z3 \in EngineState
      BY <2>2, ClearStopExitType
  <2> HIDE DEF z3
  <2> QED
      BY <2>3, ClearExitWaitingType
<1>4. s \in EngineState
  <2>1. s1 \in EngineState
      BY SetStopType
  <2> HIDE DEF s1
  <2> QED
      BY <2>1, SetStopCountType
<1>5. Kept(z)
    BY SMTT(60) DEF EngineState, SameMarket
<1>6. Kept(s)
    BY SMTT(60) DEF EngineState, SameMarket
<1>7. Kept(e)
    BY DEF SameMarket
<1> HIDE DEF z, s
<1>8. CASE UpdateStopAfterFill(e, before) = z
    BY <1>3, <1>5, <1>8
<1>9. CASE UpdateStopAfterFill(e, before) = s
    BY <1>4, <1>6, <1>9
<1>10. CASE UpdateStopAfterFill(e, before) = e
    BY <1>7, <1>10
<1> QED
    BY <1>1, <1>8, <1>9, <1>10

(* After a fill the stop fits the position again, provided that it did     *)
(* before and that the fill opened, reduced or closed the position.        *)
LEMMA UpdateStopOk ==
    ASSUME NEW e \in EngineState, NEW old, old.book \in Books, StopOk(old), ExitOwns(old),
           e.stop = old.stop, e.stopSetTradeCount = old.stopSetTradeCount,
           e.stopExitPending = old.stopExitPending, e.stopLockout = old.stopLockout,
           e.working = None,
           \/ old.book.quantity = 0 /\ old.stopLockout = 0
           \/ /\ old.book.quantity # 0
              /\ e.book.quantity # 0 => /\ Sign(e.book.quantity) = Sign(old.book.quantity)
                                        /\ Abs(e.book.quantity) <= Abs(old.book.quantity)
                                        /\ e.book.average = old.book.average
    PROVE  LET r == UpdateStopAfterFill(e, old.book.quantity)
           IN  StopOk(r) /\ ExitOwns(r)
<1> DEFINE after == e.book.quantity
           before == old.book.quantity
           stop == StopFor(e.book)
           r == UpdateStopAfterFill(e, before)
<1>1. after \in Int /\ before \in Int /\ e.tradeCount \in Nat
    BY DEF EngineState, Books
<1>2. CASE after = 0
  <2>1. /\ r.book = e.book /\ r.stop = None /\ r.stopSetTradeCount = None
        /\ r.stopExitPending = FALSE /\ r.stopLockout = e.stopLockout /\ r.working = None
      BY <1>2 DEF UpdateStopAfterFill, EngineState
  <2> QED
      BY <1>2, <2>1 DEF StopOk, ExitOwns
<1>3. CASE after # 0 /\ Abs(after) <= Abs(before) /\ Sign(after) = Sign(before)
  <2>1. r = e
      BY <1>3 DEF UpdateStopAfterFill
  <2>2. before # 0
      BY <1>1, <1>3 DEF Sign
  <2>3. (after > 0) = (before > 0)
      BY <1>1, <1>3 DEF Sign
  <2>4. StopFor(e.book) = StopFor(old.book)
      BY <1>3, <2>2, <2>3 DEF StopFor
  <2> QED
      BY <1>3, <2>1, <2>2, <2>4 DEF StopOk, ExitOwns
<1>4. CASE after # 0 /\ ~(Abs(after) <= Abs(before) /\ Sign(after) = Sign(before))
  <2>1. before = 0 /\ e.stopLockout = 0
      BY <1>4
  <2> HIDE DEF stop
  <2>2. r = [e EXCEPT !.stop = stop, !.stopSetTradeCount = e.tradeCount]
      BY <1>4 DEF UpdateStopAfterFill, stop
  <2>3. /\ r.book = e.book /\ r.stop = stop /\ r.stopSetTradeCount = e.tradeCount
        /\ r.stopExitPending = e.stopExitPending /\ r.stopLockout = e.stopLockout
        /\ r.working = None
      BY <2>2 DEF EngineState
  <2>4. e.tradeCount # None
      BY <1>1, ExecutionAssumption
  <2> HIDE DEF r
  <2>5. StopOk(r)
      BY <1>4, <2>3, <2>4 DEF StopOk, stop
  <2>6. ~e.stopExitPending
      BY <2>1 DEF ExitOwns
  <2>7. ExitOwns(r)
      BY <2>1, <2>3, <2>6 DEF ExitOwns
  <2> QED
      BY <2>5, <2>7 DEF r
<1> QED
    BY <1>2, <1>3, <1>4

(* An IOC completes: nothing works afterwards and the state is sound,      *)
(* whether it filled or not.                                               *)
Completed(r, e) == Sound(r) /\ r.working = None /\ SameMarket(r, e)

(* An order that did not fill completes soundly. *)
LEMMA CompleteUnfilledSound ==
    ASSUME NEW e, Sound(e), e.working # None, NEW unfilled
    PROVE  Completed(CompleteUnfilled(e, unfilled), e)
<1> DEFINE n == e.orderCount + 1
           done == [e EXCEPT !.working = None, !.orderCount = n]
           missing == e.working.reduceOnly /\ e.book.quantity # 0 /\ unfilled = "no_touch"
           r == [done EXCEPT !.missingFlatten = missing]
<1>1. CompleteUnfilled(e, unfilled) = r
  <2>1. e \in EngineState
      BY DEF Sound
  <2> QED
      BY <2>1 DEF CompleteUnfilled, EngineState
<1>2. e \in EngineState /\ n \in Nat
    BY DEF Sound, EngineState
<1>3. missing \in BOOLEAN
    OBVIOUS
<1> HIDE DEF missing
<1>4. done = CancelWorking(e)
    BY DEF CancelWorking
<1>5. Sound(done) /\ done.working = None /\ SameMarket(done, e)
    BY <1>4, CancelWorkingSound
<1> HIDE DEF done
<1>6. r \in EngineState /\ SameTrading(r, done) /\ SameMarket(r, done)
  <2>1. done \in EngineState
      BY <1>5 DEF Sound
  <2>2. r \in EngineState
      BY <1>3, <2>1 DEF EngineState
  <2> QED
      BY <2>1, <2>2 DEF EngineState, SameTrading, SameMarket
<1> HIDE DEF r
<1>7. Sound(r)
    BY <1>5, <1>6, SameTradingSound
<1> QED
    BY <1>1, <1>5, <1>6, <1>7 DEF Completed, SameTrading, SameMarket

(* Booking a fill keeps the types. *)
LEMMA SetFilledType ==
    ASSUME NEW e \in EngineState, NEW book \in Books, NEW n \in Nat
    PROVE  [e EXCEPT !.book = book, !.fillCount = n] \in EngineState
    BY DEF EngineState

(* An order that filled completes soundly, its stop updated. *)
LEMMA CompleteFilledSound ==
    ASSUME NEW e, Sound(e), e.working \in WorkingOrders, NEW quote \in Touches,
           NEW fill \in Fills, fill # None, fill.side = e.working.side,
           fill.quantity <= e.working.quantity, NEW ns \in Nat
    PROVE  Completed(CompleteFilled(e, quote, fill, ns), e)
<1> DEFINE before == e.book.quantity
           book   == ApplyFill(e.book, fill)
           count  == e.fillCount + 1
           paid   == [e EXCEPT !.book = book, !.fillCount = count]
           applied == TakeTouch(paid, quote, fill.side, fill.quantity, ns)
           n      == applied.orderCount + 1
           done   == [applied EXCEPT !.working = None, !.orderCount = n, !.missingFlatten = FALSE]
           stopped == UpdateStopAfterFill(done, before)
<1>1. CompleteFilled(e, quote, fill, ns) = stopped
    BY DEF CompleteFilled
<1>2. e \in EngineState /\ e.book \in Books /\ count \in Nat
    BY DEF Sound, EngineState
<1>3. book \in Books
    BY <1>2, ApplyFillType
<1> HIDE DEF book, count
<1>4. paid \in EngineState
    BY <1>2, <1>3, SetFilledType
<1>5. /\ paid.book = book /\ paid.stop = e.stop /\ paid.stopSetTradeCount = e.stopSetTradeCount
      /\ paid.stopExitPending = e.stopExitPending /\ paid.stopLockout = e.stopLockout
      /\ paid.orderCount = e.orderCount /\ paid.nextOrder = e.nextOrder
      /\ SameMarket(paid, e)
    BY <1>2 DEF EngineState, SameMarket
<1> HIDE DEF paid
<1>6. applied \in EngineState /\ SameTrading(applied, paid) /\ SameMarket(applied, paid)
    BY <1>4, TakeTouchType DEF Fills
<1> HIDE DEF applied
<1>7. n \in Nat
    BY <1>6 DEF EngineState
<1>8. done \in EngineState
    BY <1>6, <1>7, SetDoneType
<1>9. /\ done.book = applied.book /\ done.stop = applied.stop
      /\ done.stopSetTradeCount = applied.stopSetTradeCount
      /\ done.stopExitPending = applied.stopExitPending
      /\ done.stopLockout = applied.stopLockout
      /\ done.nextOrder = applied.nextOrder /\ done.orderCount = n /\ done.working = None
      /\ SameMarket(done, applied)
    BY <1>6 DEF EngineState, SameMarket
<1> HIDE DEF done
<1>10. /\ done.book = book /\ done.stop = e.stop /\ done.stopSetTradeCount = e.stopSetTradeCount
       /\ done.stopExitPending = e.stopExitPending /\ done.stopLockout = e.stopLockout
       /\ done.nextOrder = e.nextOrder /\ done.orderCount = e.orderCount + 1
       /\ SameMarket(done, e)
    BY <1>5, <1>6, <1>9 DEF SameTrading, SameMarket, n
<1>11. \/ before = 0 /\ e.stopLockout = 0
       \/ /\ before # 0
          /\ book.quantity # 0 => /\ Sign(book.quantity) = Sign(before)
                                  /\ Abs(book.quantity) <= Abs(before)
                                  /\ book.average = e.book.average
  <2>1. e.working # None
      BY NoneAssumption
  <2>2. CASE ~e.working.reduceOnly
      BY <2>1, <2>2 DEF Sound, WorkOk, ExitOwns
  <2>3. CASE e.working.reduceOnly
    <3>1. Opposes(fill.side, before) /\ e.working.quantity <= Abs(before)
        BY <2>1, <2>3 DEF Sound, WorkOk
    <3>2. before \in Int /\ fill.quantity \in Nat /\ e.working.quantity \in Nat
        BY <1>2 DEF Books, Fills, WorkingOrders
    <3>3. fill.quantity <= Abs(before)
        BY <3>1, <3>2 DEF Abs
    <3>4. before # 0
        BY <3>1, <3>2 DEF Opposes
    <3> QED
        BY <1>2, <3>1, <3>3, <3>4, ApplyFillReduces DEF book
  <2> QED
      BY <2>2, <2>3
<1>12. StopOk(stopped) /\ ExitOwns(stopped)
    BY <1>2, <1>8, <1>9, <1>10, <1>11, UpdateStopOk DEF Sound
<1>13. /\ stopped \in EngineState /\ SameMarket(stopped, done)
       /\ stopped.book = done.book /\ stopped.working = done.working
       /\ stopped.nextOrder = done.nextOrder /\ stopped.orderCount = done.orderCount
  <2>1. before \in Int
      BY <1>2 DEF Books
  <2> QED
      BY <1>8, <2>1, UpdateStopType
<1> HIDE DEF stopped
<1>14. Sound(stopped)
  <2>1. WorkOk(stopped)
      BY <1>9, <1>13 DEF WorkOk
  <2>2. e.working # None
      BY NoneAssumption
  <2>3. e.nextOrder \in Nat /\ e.orderCount \in Nat
      BY <1>2 DEF EngineState
  <2>4. Counted(stopped)
      BY <1>9, <1>10, <1>13, <2>2, <2>3 DEF Sound, Counted
  <2> QED
      BY <1>12, <1>13, <2>1, <2>4 DEF Sound
<1> QED
    BY <1>1, <1>9, <1>10, <1>13, <1>14 DEF Completed, SameMarket

(* _fill_against: every way out completes the order. *)
LEMMA FillAgainstSound ==
    ASSUME NEW e, Sound(e), e.working # None, NEW ns \in Nat,
           NEW quote, quote \in Touches \/ (quote.kind = "bbo" /\ ~BboIsComplete(quote))
    PROVE  Completed(FillAgainst(e, quote, ns), e)
<1> DEFINE w     == e.working
           touch == Displayed(quote, w.side)
           left  == Available(e, quote, w.side, ns)
           fill  == QuoteTakerFill(w.side, w.quantity, touch.price, left)
           block == FillBlock(e, fill)
           asked == [side |-> w.side, reduceOnly |-> w.reduceOnly, quantity |-> w.desired]
           refused == Reject(e, block.reason, block.detail, asked)
           r == FillAgainst(e, quote, ns)
<1>1. e \in EngineState /\ w \in WorkingOrders
    BY DEF Sound, EngineState
<1>2. \A unfilled : Completed(CompleteUnfilled(e, unfilled), e)
    BY CompleteUnfilledSound
<1>3. CASE ~SourceIsFresh(e, quote.ns)
    BY <1>2, <1>3 DEF FillAgainst
<1>4. CASE SourceIsFresh(e, quote.ns) /\ quote.kind = "bbo" /\ ~BboIsComplete(quote)
    BY <1>2, <1>4 DEF FillAgainst
<1>5. CASE SourceIsFresh(e, quote.ns) /\ ~(quote.kind = "bbo" /\ ~BboIsComplete(quote))
  <2>1. quote \in Touches
      BY <1>5
  <2>2. touch.price \in Prices /\ left \in Nat
      BY <1>1, <2>1, DisplayedType, AvailableType
  <2>3. w.side \in Sides /\ w.quantity \in Nat /\ w.reduceOnly \in BOOLEAN /\ w.desired \in Nat \ {0}
      BY <1>1 DEF WorkingOrders
  <2> HIDE DEF w, touch, left
  <2>4. fill # None => fill \in Fills /\ fill.side = w.side /\ fill.quantity <= w.quantity
      BY <2>2, <2>3, QuoteTakerFillType
  <2> HIDE DEF fill
  <2>5. ASSUME fill # None, block # None
        PROVE  Completed(CompleteUnfilled(refused, "risk_rejected"), e)
    <3>1. fill.side \in Sides /\ fill.quantity \in Nat /\ Px(fill.price) \in Nat \ {0}
        BY <2>4, <2>5 DEF Fills, Px
    <3>2. RiskBlock(e, fill.side, w.quantity, Px(fill.price), TRUE, 0) \in Refusals \cup {None}
        BY <1>1, <2>3, <3>1, RiskBlockType
    <3>3. RiskBlock(e, fill.side, fill.quantity, Px(fill.price), FALSE, 0) \in Refusals \cup {None}
        BY <1>1, <3>1, RiskBlockType
    <3>4. /\ [reason |-> "max_position", detail |-> {"entry fill"}] \in Refusals
          /\ [reason |-> "max_notional", detail |-> {"entry fill"}] \in Refusals
        BY DEF Refusals, Reasons, EntryReasons, Details
    <3>5. EntryFillBlock(e, fill) \in Refusals \cup {None}
        BY <3>3, <3>4 DEF EntryFillBlock
    <3>6. block \in Refusals
        BY <2>5, <3>2, <3>5 DEF FillBlock, w
    <3>7. block.reason \in Reasons /\ block.detail \in SUBSET Details
        BY <3>6 DEF Refusals
    <3> HIDE DEF block
    <3>8. asked \in DesiredOrders
        BY <2>3 DEF DesiredOrders
    <3> HIDE DEF asked
    <3>9. refused \in EngineState /\ SameTrading(refused, e) /\ SameMarket(refused, e)
        BY <1>1, <3>7, <3>8, RejectType
    <3> HIDE DEF refused
    <3>10. Sound(refused) /\ refused.working # None
        BY <3>9, SameTradingSound DEF SameTrading
    <3>11. Completed(CompleteUnfilled(refused, "risk_rejected"), refused)
        BY <3>10, CompleteUnfilledSound
    <3> QED
        BY <3>9, <3>11 DEF Completed, SameMarket
  <2>6. ASSUME fill # None PROVE Completed(CompleteFilled(e, quote, fill, ns), e)
      BY <1>1, <2>1, <2>4, <2>6, CompleteFilledSound DEF w
  <2>7. r = IF QuoteUsedUp(e, quote, w.side, ns) THEN CompleteUnfilled(e, "touch_consumed")
            ELSE IF fill = None THEN CompleteUnfilled(e, "no_touch")
            ELSE IF BeyondLimit(w.side, fill.price, w.limit)
              THEN CompleteUnfilled(e, "price_band")
            ELSE IF block # None THEN CompleteUnfilled(refused, "risk_rejected")
            ELSE CompleteFilled(e, quote, fill, ns)
      BY <1>5 DEF FillAgainst, FillAtQuote, QuotedFill, FillOrRefuse, w, touch, left, fill
  <2> HIDE DEF r, block, refused
  <2>8. Completed(r, e)
      BY <1>2, <2>5, <2>6, <2>7
  <2> QED
      BY <2>8 DEF r
<1> QED
    BY <1>3, <1>4, <1>5

(* Filling keeps the state sound and leaves at most the same order working. *)
StepsTo(r, e) == Sound(r) /\ r.working \in {None, e.working} /\ SameMarket(r, e)

(* _fill_working_from_book, which fills what is due. *)
LEMMA FillWorkingFromBookSound ==
    ASSUME NEW e, Sound(e), NEW ns \in Nat
    PROVE  /\ StepsTo(FillWorkingFromBook(e, ns), e)
           /\ e.working # None /\ ns >= e.working.eligible /\ CurrentTouch(e) # None
                => FillWorkingFromBook(e, ns).working = None
<1> DEFINE r == FillWorkingFromBook(e, ns)
<1>1. e \in EngineState
    BY DEF Sound
<1>2. CASE e.working = None \/ ns < e.working.eligible
  <2>1. r = e
      BY <1>2 DEF FillWorkingFromBook
  <2>2. e.working # None => e.working.eligible \in Nat
      BY <1>1 DEF EngineState, WorkingOrders
  <2> QED
      BY <1>2, <2>1, <2>2 DEF StepsTo, SameMarket
<1>3. CASE ~(e.working = None \/ ns < e.working.eligible) /\ CurrentTouch(e) = None
  <2> DEFINE missing == e.working.reduceOnly /\ e.book.quantity # 0
             m == [e EXCEPT !.missingFlatten = missing]
  <2>1. r = m
      BY <1>3 DEF FillWorkingFromBook
  <2>2. missing \in BOOLEAN
      OBVIOUS
  <2> HIDE DEF missing, r
  <2>3. m \in EngineState /\ SameTrading(m, e) /\ SameMarket(m, e)
    <3>1. m \in EngineState
        BY <1>1, <2>2 DEF EngineState
    <3> QED
        BY <1>1, <3>1 DEF EngineState, SameTrading, SameMarket
  <2>4. Sound(m)
      BY <2>3, SameTradingSound
  <2> QED
      BY <1>3, <2>1, <2>3, <2>4 DEF StepsTo, SameTrading, r
<1>4. CASE ~(e.working = None \/ ns < e.working.eligible) /\ CurrentTouch(e) # None
  <2>1. CurrentTouch(e) \in Touches
      BY <1>1, <1>4, CurrentTouchType
  <2>2. Completed(FillAgainst(e, CurrentTouch(e), ns), e)
      BY <1>4, <2>1, FillAgainstSound
  <2>3. r = FillAgainst(e, CurrentTouch(e), ns)
      BY <1>4 DEF FillWorkingFromBook
  <2> QED
      BY <2>2, <2>3 DEF Completed, StepsTo
<1> QED
    BY <1>2, <1>3, <1>4

MarketEvents ==
    BboEvents \cup TradeEvents \cup [kind : {"mark"}, ns : Nat, price : Prices \cup {None}]
              \cup [kind : {"bar"}, ns : Nat]

(* _try_fill, on whatever event arrives. *)
LEMMA TryFillSound ==
    ASSUME NEW e, Sound(e), NEW ev \in MarketEvents
    PROVE  StepsTo(TryFill(e, ev), e)
<1> DEFINE tries == /\ e.working # None
                    /\ ev.ns >= e.working.eligible
                    /\ ev.kind = "bbo" \/ (ev.kind = "trade" /\ ~BookComplete(e))
<1>1. ev.ns \in Nat
    BY DEF MarketEvents, BboEvents, TradeEvents
<1>2. CASE tries
  <2>1. ev \in BboEvents \/ ev \in TradeEvents
      BY <1>2 DEF MarketEvents
  <2>2. ev \in BboEvents => ev.kind = "bbo"
      BY DEF BboEvents
  <2>3. ev \in Touches \/ (ev.kind = "bbo" /\ ~BboIsComplete(ev))
      BY <2>1, <2>2 DEF Touches
  <2>4. Completed(FillAgainst(e, ev, ev.ns), e)
      BY <1>1, <1>2, <2>3, FillAgainstSound
  <2> QED
      BY <1>2, <2>4 DEF TryFill, Completed, StepsTo
<1>3. CASE ~tries
    BY <1>3 DEF TryFill, StepsTo, SameMarket
<1> QED
    BY <1>2, <1>3

-----------------------------------------------------------------------------
(* Exits, the kill switch and the strategy.                                *)

(* Between methods no zero-latency exit is left working. *)
NoneImmediate(e) == e.working # None => ~e.working.immediate

(* At rest no entry works once the kill switch is on. *)
QuietOnHalt(e) == e.working # None /\ ~e.working.reduceOnly => e.kill = "NONE"

Rest(e) == Sound(e) /\ NoneImmediate(e) /\ QuietOnHalt(e)

(* Two such steps make one. *)
LEMMA StepsToTransitive ==
    ASSUME NEW e, NEW f, NEW g, StepsTo(f, e), StepsTo(g, f)
    PROVE  StepsTo(g, e)
    BY DEF StepsTo, SameMarket

(* Such a step leaves no zero-latency exit that was not there. *)
LEMMA StepsToNoneImmediate ==
    ASSUME NEW e, NEW f, StepsTo(f, e), NoneImmediate(e)
    PROVE  NoneImmediate(f)
    BY DEF StepsTo, NoneImmediate

(* The waiting flag is independent of the trading state. *)
LEMMA SetExitWaiting ==
    ASSUME NEW e, Sound(e), NEW b \in BOOLEAN
    PROVE  LET f == [e EXCEPT !.exitWaiting = b]
           IN  Sound(f) /\ f.working = e.working /\ f.book = e.book /\ SameMarket(f, e)
<1> DEFINE f == [e EXCEPT !.exitWaiting = b]
<1>1. e \in EngineState
    BY DEF Sound
<1>2. f \in EngineState
    BY <1>1 DEF EngineState
<1>3. SameTrading(f, e) /\ SameMarket(f, e)
    BY <1>1 DEF EngineState, SameTrading, SameMarket
<1> HIDE DEF f
<1>4. Sound(f)
    BY <1>2, <1>3, SameTradingSound
<1> QED
    BY <1>3, <1>4 DEF SameTrading, f

(* And so is the blocked-exit flag. *)
LEMMA SetMissingFlatten ==
    ASSUME NEW e, Sound(e), NEW b \in BOOLEAN
    PROVE  LET f == [e EXCEPT !.missingFlatten = b]
           IN  Sound(f) /\ f.working = e.working /\ SameMarket(f, e)
<1> DEFINE f == [e EXCEPT !.missingFlatten = b]
<1>1. e \in EngineState
    BY DEF Sound
<1>2. f \in EngineState
    BY <1>1 DEF EngineState
<1>3. SameTrading(f, e) /\ SameMarket(f, e)
    BY <1>1 DEF EngineState, SameTrading, SameMarket
<1> HIDE DEF f
<1>4. Sound(f)
    BY <1>2, <1>3, SameTradingSound
<1> QED
    BY <1>3, <1>4 DEF SameTrading, f

(* An immediate exit fills, is refused or waits; it never keeps working.   *)
LEMMA AttemptImmediateExitSound ==
    ASSUME NEW e, Sound(e), NoneImmediate(e), e.book.quantity # 0, NEW ns \in Nat,
           NEW reason \in Callers
    PROVE  StepsTo(AttemptImmediateExit(e, ns, reason), e)
<1> DEFINE desired == FlattenDesired(e.book.quantity)
           waiting == [e EXCEPT !.exitWaiting = TRUE]
           trying  == [e EXCEPT !.exitWaiting = FALSE]
           sent    == SubmitDesired(trying, desired, ns, reason, TRUE, FALSE)
           filled  == FillWorkingFromBook(sent, ns)
           r       == AttemptImmediateExit(e, ns, reason)
<1>1. e.book.quantity \in Int
    BY DEF Sound, EngineState, Books
<1>2. desired \in DesiredOrders /\ desired.reduceOnly
    BY <1>1 DEF FlattenDesired, DesiredOrders, Abs, Sides
<1>3. /\ Sound(waiting) /\ waiting.working = e.working /\ SameMarket(waiting, e)
      /\ Sound(trying) /\ trying.working = e.working /\ SameMarket(trying, e)
    BY SetExitWaiting
<1>4. r \in {CancelWorking(waiting), waiting, filled}
    BY DEF AttemptImmediateExit
<1> HIDE DEF desired, waiting, trying
<1>5. StepsTo(waiting, e)
    BY <1>3 DEF StepsTo
<1>6. StepsTo(CancelWorking(waiting), e)
    BY <1>3, CancelWorkingSound DEF StepsTo, SameMarket
<1>7. Submitted(sent, trying, desired, ns, TRUE)
    BY <1>2, <1>3, SubmitDesiredSound
<1> HIDE DEF sent
<1>8. /\ StepsTo(filled, sent)
      /\ sent.working # None /\ ns >= sent.working.eligible /\ CurrentTouch(sent) # None
           => filled.working = None
    BY <1>7, FillWorkingFromBookSound DEF Submitted
<1> HIDE DEF filled
<1>9. StepsTo(filled, e)
  <2>1. Sound(filled) /\ SameMarket(filled, e)
      BY <1>3, <1>7, <1>8 DEF StepsTo, Submitted, SameMarket
  <2>2. CASE sent.working \in {None, trying.working}
      BY <1>3, <1>8, <2>1, <2>2 DEF StepsTo
  <2>3. CASE CurrentTouch(sent) # None /\ sent.working.eligible = ns
    <3>1. filled.working = None
        BY <1>8, <2>3 DEF StepsTo
    <3> QED
        BY <2>1, <3>1 DEF StepsTo
  <2> QED
      BY <1>7, <2>2, <2>3 DEF Submitted
<1> QED
    BY <1>4, <1>5, <1>6, <1>9

(* Arming the stop exit of an open position keeps the state sound. *)
LEMMA TriggerSound ==
    ASSUME NEW e, Sound(e), e.book.quantity # 0, ~e.stopExitPending
    PROVE  LET f == [e EXCEPT !.stopExitPending = TRUE, !.stopLockout = Sign(e.book.quantity)]
           IN  Sound(f) /\ f.working = e.working /\ f.book = e.book /\ SameMarket(f, e)
<1> DEFINE sign == Sign(e.book.quantity)
           f == [e EXCEPT !.stopExitPending = TRUE, !.stopLockout = sign]
<1>1. e \in EngineState /\ e.book.quantity \in Int
    BY DEF Sound, EngineState, Books
<1>2. sign \in {-1, 1}
    BY <1>1 DEF Sign
<1>3. /\ sign # 0
      /\ sign = Sign(e.book.quantity)
    BY <1>2
<1> HIDE DEF sign
<1>4. f \in EngineState
    BY <1>1, <1>2 DEF EngineState
<1>5. /\ f.book = e.book /\ f.working = e.working /\ f.nextOrder = e.nextOrder
      /\ f.orderCount = e.orderCount /\ f.stop = e.stop
      /\ f.stopSetTradeCount = e.stopSetTradeCount
      /\ f.stopExitPending = TRUE /\ f.stopLockout = sign /\ SameMarket(f, e)
    BY <1>1 DEF EngineState, SameMarket
<1> HIDE DEF f
<1>6. ExitOwns(f)
    BY <1>3, <1>5 DEF Sound, WorkOk, ExitOwns
<1>7. StopOk(f) /\ WorkOk(f) /\ Counted(f)
    BY <1>5 DEF Sound, StopOk, WorkOk, Counted
<1> QED
    BY <1>4, <1>5, <1>6, <1>7 DEF Sound, f, sign

(* _check_stop keeps the state sound. *)
LEMMA CheckStopSound ==
    ASSUME NEW e, Sound(e), NoneImmediate(e), NEW ns \in Nat
    PROVE  StepsTo(CheckStop(e, ns), e)
<1> DEFINE armed == [e EXCEPT !.stopExitPending = TRUE, !.stopLockout = Sign(e.book.quantity)]
           triggered == IF e.stopExitPending THEN e ELSE armed
<1>1. CASE e.book.quantity = 0 \/ e.stop = None \/ (~e.stopExitPending /\ ~StopCrossed(e))
    BY <1>1 DEF CheckStop, StepsTo, SameMarket
<1>2. CASE ~(e.book.quantity = 0 \/ e.stop = None \/ (~e.stopExitPending /\ ~StopCrossed(e)))
  <2>1. /\ Sound(triggered) /\ triggered.working = e.working /\ triggered.book = e.book
        /\ SameMarket(triggered, e)
    <3>1. ~e.stopExitPending => /\ Sound(armed) /\ armed.working = e.working
                                /\ armed.book = e.book /\ SameMarket(armed, e)
        BY <1>2, TriggerSound
    <3> HIDE DEF armed
    <3> QED
        BY <3>1 DEF SameMarket
  <2>2. CheckStop(e, ns) = IF e.kill = "FLATTEN_HALT" THEN triggered
                           ELSE AttemptImmediateExit(triggered, ns, "stop-exit")
      BY <1>2 DEF CheckStop
  <2> HIDE DEF triggered
  <2>3. StepsTo(triggered, e)
      BY <2>1 DEF StepsTo
  <2>4. StepsTo(AttemptImmediateExit(triggered, ns, "stop-exit"), triggered)
      BY <1>2, <2>1, AttemptImmediateExitSound DEF NoneImmediate, Callers
  <2> QED
      BY <2>2, <2>3, <2>4, StepsToTransitive
<1> QED
    BY <1>1, <1>2

(* _enforce_flat brings the state to rest. *)
LEMMA EnforceFlatSound ==
    ASSUME NEW e, Sound(e), NoneImmediate(e), NEW ns \in Nat
    PROVE  StepsTo(EnforceFlat(e, ns), e) /\ Rest(EnforceFlat(e, ns))
<1> DEFINE entryOnHalt == e.kill # "NONE" /\ e.working # None /\ ~e.working.reduceOnly
           quiet == IF entryOnHalt THEN CancelWorking(e) ELSE e
           none  == CancelWorking(quiet)
           clean == [none EXCEPT !.missingFlatten = FALSE]
           exit  == AttemptImmediateExit(quiet, ns, "kill-flatten")
           r     == EnforceFlat(e, ns)
<1>1. r = IF e.kill # "FLATTEN_HALT" THEN quiet
          ELSE IF quiet.book.quantity = 0 THEN clean ELSE exit
    BY DEF EnforceFlat
<1>2. StepsTo(quiet, e) /\ NoneImmediate(quiet) /\ QuietOnHalt(quiet)
  <2>1. StepsTo(CancelWorking(e), e) /\ CancelWorking(e).working = None
      BY CancelWorkingSound DEF StepsTo
  <2>2. StepsTo(e, e)
      BY DEF StepsTo, SameMarket
  <2> QED
      BY <2>1, <2>2 DEF NoneImmediate, QuietOnHalt
<1> HIDE DEF quiet
<1>3. StepsTo(clean, quiet)
  <2>1. Sound(none) /\ none.working = None /\ SameMarket(none, quiet)
      BY <1>2, CancelWorkingSound DEF StepsTo
  <2> HIDE DEF none
  <2>2. Sound(clean) /\ clean.working = none.working /\ SameMarket(clean, none)
      BY <2>1, SetMissingFlatten
  <2> QED
      BY <2>1, <2>2 DEF StepsTo, SameMarket
<1>4. quiet.book.quantity # 0 => StepsTo(exit, quiet)
    BY <1>2, AttemptImmediateExitSound DEF StepsTo, Callers
<1> HIDE DEF clean, exit, r
<1>5. StepsTo(r, quiet)
  <2>1. StepsTo(quiet, quiet)
      BY <1>2 DEF StepsTo, SameMarket
  <2> QED
      BY <1>1, <1>3, <1>4, <2>1
<1>6. StepsTo(r, e)
    BY <1>2, <1>5, StepsToTransitive
<1>7. NoneImmediate(r) /\ QuietOnHalt(r)
    BY <1>2, <1>5 DEF StepsTo, NoneImmediate, QuietOnHalt, SameMarket
<1> QED
    BY <1>6, <1>7 DEF Rest, StepsTo, r


(* A target becomes an order of positive size, or none (_desired_order). *)
LEMMA DesiredOrderType ==
    ASSUME NEW position \in Int, NEW target \in Int
    PROVE  DesiredOrder(position, target) \in DesiredOrders \cup {None}
<1> DEFINE delta == target - position
           side  == IF delta > 0 THEN "BUY" ELSE "SELL"
           reduces == position # 0 /\ Sign(delta) = -Sign(position)
           quantity == IF reduces /\ Abs(delta) > Abs(position) THEN Abs(position) ELSE Abs(delta)
<1>1. delta # 0 => quantity \in Nat \ {0}
    BY DEF Abs
<1>2. side \in Sides /\ reduces \in BOOLEAN
    BY DEF Sides
<1>3. DesiredOrder(position, target)
        = IF delta = 0 THEN None
          ELSE [side |-> side, reduceOnly |-> reduces, quantity |-> quantity]
    BY DEF DesiredOrder
<1> HIDE DEF delta, side, reduces, quantity
<1> QED
    BY <1>1, <1>2, <1>3 DEF DesiredOrders

(* Releasing the lockout keeps a state without a pending exit sound. *)
LEMMA UnlockSound ==
    ASSUME NEW e, Sound(e), ~e.stopExitPending
    PROVE  LET f == [e EXCEPT !.stopLockout = 0]
           IN  Sound(f) /\ f.working = e.working /\ f.stopLockout = 0
<1> DEFINE f == [e EXCEPT !.stopLockout = 0]
<1>1. e \in EngineState
    BY DEF Sound
<1>2. f \in EngineState
    BY <1>1 DEF EngineState
<1>3. /\ f.book = e.book /\ f.working = e.working /\ f.nextOrder = e.nextOrder
      /\ f.orderCount = e.orderCount /\ f.stop = e.stop
      /\ f.stopSetTradeCount = e.stopSetTradeCount
      /\ f.stopExitPending = e.stopExitPending /\ f.stopLockout = 0
    BY <1>1 DEF EngineState
<1> HIDE DEF f
<1>4. StopOk(f) /\ WorkOk(f) /\ Counted(f)
    BY <1>3 DEF Sound, StopOk, WorkOk, Counted
<1>5. ExitOwns(f)
    BY <1>3 DEF ExitOwns
<1> QED
    BY <1>2, <1>3, <1>4, <1>5 DEF Sound, f

(* The strategy's turn keeps the state sound, whatever it answers. *)
LEMMA ApplyStrategySound ==
    ASSUME NEW e, Sound(e), NoneImmediate(e), NEW ev \in MarketEvents,
           NEW answer \in StrategyAnswers
    PROVE  Sound(ApplyStrategy(e, ev, answer)) /\ NoneImmediate(ApplyStrategy(e, ev, answer))
<1> DEFINE desired == DesiredOrder(e.book.quantity, answer)
           touch   == CurrentTouch(e)
           free    == [e EXCEPT !.stopLockout = 0]
           onDecisionQuote == Latency = 0 /\ touch # None /\ touch.kind = ev.kind
           mismatch == Reject(e, "instrument_mismatch", {"target"}, None)
           locked  == Reject(e, "stop_lockout", {"target"}, desired)
           sent    == SubmitDesired(free, desired, ev.ns, "target", FALSE, onDecisionQuote)
<1>1. e \in EngineState /\ e.book.quantity \in Int /\ ev.ns \in Nat
    BY DEF Sound, EngineState, Books, MarketEvents, BboEvents, TradeEvents
<1>2. \A r \in EngineState : SameTrading(r, e) => Sound(r) /\ NoneImmediate(r)
    BY SameTradingSound DEF SameTrading, NoneImmediate
<1>3. CASE answer = NoTarget
    BY <1>3 DEF ApplyStrategy
<1>4. CASE answer # NoTarget /\ answer = WrongInstrument
  <2>1. mismatch \in EngineState /\ SameTrading(mismatch, e)
      BY <1>1, RejectType DEF Reasons, Details
  <2> HIDE DEF mismatch
  <2>2. ApplyStrategy(e, ev, answer) = mismatch
      BY <1>4 DEF ApplyStrategy, mismatch
  <2> QED
      BY <1>2, <2>1, <2>2
<1>5. CASE answer # NoTarget /\ answer # WrongInstrument /\ e.stopExitPending
    BY <1>5 DEF ApplyStrategy
<1>6. CASE answer # NoTarget /\ answer # WrongInstrument /\ ~e.stopExitPending
  <2>1. answer \in Int
      BY <1>6, EngineAssumption DEF StrategyAnswers
  <2>2. desired \in DesiredOrders \cup {None}
      BY <1>1, <2>1, DesiredOrderType
  <2>3. onDecisionQuote \in BOOLEAN
      OBVIOUS
  <2>4. ApplyStrategy(e, ev, answer) \in {locked, sent}
      BY <1>6 DEF ApplyStrategy
  <2>5. Sound(free) /\ free.working = e.working /\ free.stopLockout = 0
      BY <1>6, UnlockSound
  <2> HIDE DEF desired, onDecisionQuote, free
  <2>6. locked \in EngineState /\ SameTrading(locked, e)
      BY <1>1, <2>2, RejectType DEF Reasons, Details
  <2>7. Submitted(sent, free, desired, ev.ns, FALSE)
      BY <1>1, <2>2, <2>3, <2>5, SubmitDesiredSound DEF Callers
  <2> HIDE DEF locked, sent
  <2>8. Sound(sent) /\ NoneImmediate(sent)
      BY <2>5, <2>7 DEF Submitted, NoneImmediate
  <2> QED
      BY <1>2, <2>4, <2>6, <2>8
<1> QED
    BY <1>3, <1>4, <1>5, <1>6

-----------------------------------------------------------------------------
(* Handlers.                                                               *)

(* The source clock is independent of the trading state. *)
LEMMA AdvanceSourceClockSound ==
    ASSUME NEW e, Rest(e), NEW ns \in Nat
    PROVE  LET f == AdvanceSourceClock(e, ns)
           IN  Rest(f) /\ SameTrading(f, e) /\ f.kill = e.kill
<1> DEFINE clock == MaxOf(e.sourceClock, ns)
           f == [e EXCEPT !.sourceClock = clock]
<1>1. AdvanceSourceClock(e, ns) = f
    BY DEF AdvanceSourceClock
<1>2. e \in EngineState
    BY DEF Rest, Sound
<1>3. clock \in Nat
    BY <1>2 DEF EngineState, MaxOf
<1> HIDE DEF clock
<1>4. f \in EngineState
    BY <1>2, <1>3 DEF EngineState
<1>5. SameTrading(f, e) /\ f.kill = e.kill
    BY <1>2 DEF EngineState, SameTrading
<1> HIDE DEF f
<1>6. Sound(f)
    BY <1>4, <1>5, SameTradingSound DEF Rest
<1> QED
    BY <1>1, <1>5, <1>6 DEF Rest, SameTrading, NoneImmediate, QuietOnHalt

(* The caches take the event; orders and stops do not notice. *)
LEMMA ArriveSound ==
    ASSUME NEW e, Sound(e), NoneImmediate(e), NEW ev \in MarketEvents, NEW day \in Nat
    PROVE  Sound(Arrive(e, ev, day)) /\ NoneImmediate(Arrive(e, ev, day))
<1> DEFINE dated == [e EXCEPT !.lastData = ev.ns]
           stamped == [dated EXCEPT !.lastDay = day]
           r == Arrive(e, ev, day)
<1>1. e \in EngineState /\ ev.ns \in Nat
    BY DEF Sound, MarketEvents, BboEvents, TradeEvents
<1>2. stamped \in EngineState
  <2>1. dated \in EngineState
      BY <1>1, SMTT(60) DEF EngineState, MaybeNat
  <2> HIDE DEF dated
  <2> QED
      BY <2>1, SMTT(60) DEF EngineState, MaybeNat
<1>3. SameTrading(stamped, e)
    BY <1>1, SMTT(60) DEF EngineState, SameTrading
<1>4. r = UpdateMarket(stamped, ev)
    BY DEF Arrive
<1> HIDE DEF stamped, r
<1>5. r \in EngineState /\ SameTrading(r, stamped)
  <2>1. CASE ev \in BboEvents
    <3>1. ev.kind = "bbo"
        BY <2>1 DEF BboEvents
    <3>2. r = [stamped EXCEPT !.bbo = ev]
        BY <1>4, <3>1 DEF UpdateMarket
    <3> QED
        BY <1>2, <2>1, <3>2 DEF EngineState, SameTrading
  <2>2. CASE ev \in TradeEvents
    <3> DEFINE n == stamped.tradeCount + 1
    <3>1. ev.kind = "trade"
        BY <2>2 DEF TradeEvents
    <3>2. r = [stamped EXCEPT !.trade = ev, !.tradeCount = n, !.tradeTaken = 0]
        BY <1>4, <3>1 DEF UpdateMarket
    <3>3. n \in Nat
        BY <1>2 DEF EngineState
    <3> HIDE DEF n
    <3>4. r \in EngineState
        BY <1>2, <2>2, <3>2, <3>3 DEF EngineState
    <3> QED
        BY <1>2, <3>2, <3>4 DEF EngineState, SameTrading
  <2>3. CASE ev \in [kind : {"mark"}, ns : Nat, price : Prices \cup {None}]
    <3> DEFINE mark == IF ev.price = None THEN None ELSE ev
    <3>1. r = [stamped EXCEPT !.venueMark = mark]
        BY <1>4, <2>3 DEF UpdateMarket
    <3>2. mark \in MarkEvents \cup {None}
        BY <2>3 DEF MarkEvents
    <3> HIDE DEF mark
    <3> QED
        BY <1>2, <3>1, <3>2 DEF EngineState, SameTrading
  <2>4. CASE ev \in [kind : {"bar"}, ns : Nat]
    <3>1. r = stamped
        BY <1>4, <2>4 DEF UpdateMarket
    <3> QED
        BY <1>2, <3>1 DEF SameTrading
  <2> QED
      BY <2>1, <2>2, <2>3, <2>4 DEF MarketEvents
<1>6. SameTrading(r, e)
    BY <1>3, <1>5, SameTradingTransitive
<1>7. Sound(r)
    BY <1>5, <1>6, SameTradingSound
<1> QED
    BY <1>6, <1>7 DEF SameTrading, NoneImmediate, r

(* _mark_limits keeps the state sound. *)
LEMMA MarkLimitsSound ==
    ASSUME NEW e, Sound(e), NoneImmediate(e), NEW day \in Nat
    PROVE  /\ Sound(MarkLimits(e, day)) /\ NoneImmediate(MarkLimits(e, day))
           /\ MarkLimits(e, day).working = e.working
<1>1. MarkLimits(e, day) \in EngineState /\ SameTrading(MarkLimits(e, day), e)
    BY MarkLimitsType DEF Sound
<1> QED
    BY <1>1, SameTradingSound DEF SameTrading, NoneImmediate

(* The part of _advance before, and the part after, the strategy.          *)
LEMMA BeforeStrategyRest ==
    ASSUME NEW e, Sound(e), NoneImmediate(e), NEW ev \in MarketEvents, NEW day \in Nat
    PROVE  Rest(BeforeStrategy(e, ev, day))
<1> DEFINE arrived == Arrive(e, ev, day)
           filled  == TryFill(arrived, ev)
           exited  == CheckStop(filled, ev.ns)
           marked  == MarkLimits(exited, day)
<1>1. ev.ns \in Nat
    BY DEF MarketEvents, BboEvents, TradeEvents
<1>2. Sound(arrived) /\ NoneImmediate(arrived)
    BY ArriveSound
<1> HIDE DEF arrived
<1>3. Sound(filled) /\ NoneImmediate(filled)
    BY <1>2, TryFillSound, StepsToNoneImmediate DEF StepsTo
<1> HIDE DEF filled
<1>4. Sound(exited) /\ NoneImmediate(exited)
    BY <1>1, <1>3, CheckStopSound, StepsToNoneImmediate DEF StepsTo
<1> HIDE DEF exited
<1>5. Sound(marked) /\ NoneImmediate(marked)
    BY <1>4, MarkLimitsSound
<1> HIDE DEF marked
<1>6. Rest(EnforceFlat(marked, ev.ns))
    BY <1>1, <1>5, EnforceFlatSound
<1> QED
    BY <1>6 DEF BeforeStrategy, marked, exited, filled, arrived

(* The second half, after the strategy answered. *)
LEMMA AfterStrategyRest ==
    ASSUME NEW e, Sound(e), NoneImmediate(e), NEW ev \in MarketEvents, NEW day \in Nat
    PROVE  Rest(AfterStrategy(e, ev, day))
<1> DEFINE filled  == TryFill(e, ev)
           exited  == CheckStop(filled, ev.ns)
           marked  == MarkLimits(exited, day)
<1>1. ev.ns \in Nat
    BY DEF MarketEvents, BboEvents, TradeEvents
<1>2. Sound(filled) /\ NoneImmediate(filled)
    BY TryFillSound, StepsToNoneImmediate DEF StepsTo
<1> HIDE DEF filled
<1>3. Sound(exited) /\ NoneImmediate(exited)
    BY <1>1, <1>2, CheckStopSound, StepsToNoneImmediate DEF StepsTo
<1> HIDE DEF exited
<1>4. Sound(marked) /\ NoneImmediate(marked)
    BY <1>3, MarkLimitsSound
<1> HIDE DEF marked
<1>5. Rest(EnforceFlat(marked, ev.ns))
    BY <1>1, <1>4, EnforceFlatSound
<1> QED
    BY <1>5 DEF AfterStrategy, marked, exited, filled

(* on_event returns to rest. *)
LEMMA AdvanceRest ==
    ASSUME NEW e0, Rest(e0), NEW ev \in MarketEvents, NEW day \in Nat,
           NEW answer \in StrategyAnswers
    PROVE  Rest(Advance(e0, ev, day, answer))
<1> DEFINE e == AdvanceSourceClock(e0, ev.ns)
           halted == FlattenHalt(e, "stale_data")
           arrived == Arrive(halted, ev, day)
           b == BeforeStrategy(e, ev, day)
           marked == MarkLimits(b, day)
           asked == ApplyStrategy(b, ev, answer)
<1>1. ev.ns \in Nat
    BY DEF MarketEvents, BboEvents, TradeEvents
<1>2. Rest(e)
    BY <1>1, AdvanceSourceClockSound
<1> HIDE DEF e
<1>3. Rest(EnforceFlat(arrived, ev.ns))
  <2>1. halted \in EngineState /\ SameTrading(halted, e)
      BY <1>2, KillSwitchType DEF Rest, Sound, KillReasons
  <2> HIDE DEF halted
  <2>2. Sound(halted) /\ NoneImmediate(halted)
      BY <1>2, <2>1, SameTradingSound DEF Rest, SameTrading, NoneImmediate
  <2>3. Sound(arrived) /\ NoneImmediate(arrived)
      BY <2>2, ArriveSound
  <2> HIDE DEF arrived
  <2> QED
      BY <1>1, <2>3, EnforceFlatSound
<1>4. Rest(b)
    BY <1>2, BeforeStrategyRest DEF Rest
<1> HIDE DEF b
<1>5. Rest(EnforceFlat(marked, ev.ns))
  <2>1. Sound(marked) /\ NoneImmediate(marked)
      BY <1>4, MarkLimitsSound DEF Rest
  <2> HIDE DEF marked
  <2> QED
      BY <1>1, <2>1, EnforceFlatSound
<1>6. Rest(AfterStrategy(asked, ev, day))
  <2>1. Sound(asked) /\ NoneImmediate(asked)
      BY <1>4, ApplyStrategySound DEF Rest
  <2> HIDE DEF asked
  <2> QED
      BY <2>1, AfterStrategyRest
<1> QED
    BY <1>3, <1>5, <1>6 DEF Advance, StrategyTurn, arrived, halted, marked, asked, b, e

(* on_clock returns to rest. *)
LEMMA TickRest ==
    ASSUME NEW e0, Rest(e0), NEW now \in Nat
    PROVE  Rest(Tick(e0, now))
<1> DEFINE e       == AdvanceSourceClock(e0, now)
           stale   == now - ClockAnchor(e0) > StaleAfter
           touched == CurrentTouch(e) # CurrentTouch(e0)
           checks  == ~e.stopExitPending \/ e.exitWaiting \/ touched
           stopped == IF stale THEN FlattenHalt(e, "stale_data")
                      ELSE IF checks THEN CheckStop(e, now) ELSE e
           marked  == IF stopped.lastDay = None THEN stopped ELSE MarkLimits(stopped, stopped.lastDay)
           forced  == stale \/ marked.exitWaiting \/ touched \/ marked.kill # e0.kill
           flat    == IF forced THEN EnforceFlat(marked, now) ELSE marked
           again   == MarkLimits(flat, flat.lastDay)
<1>1. Rest(e) /\ e.working = e0.working
    BY AdvanceSourceClockSound DEF SameTrading
<1> HIDE DEF e, checks, touched, stale
<1>2. e \in EngineState
    BY <1>1 DEF Rest, Sound
<1>3. Sound(stopped) /\ stopped.working \in {None, e.working}
  <2>1. FlattenHalt(e, "stale_data") \in EngineState /\ SameTrading(FlattenHalt(e, "stale_data"), e)
      BY <1>2, KillSwitchType DEF KillReasons
  <2>2. Sound(FlattenHalt(e, "stale_data")) /\ FlattenHalt(e, "stale_data").working = e.working
      BY <1>1, <2>1, SameTradingSound DEF Rest, SameTrading
  <2>3. StepsTo(CheckStop(e, now), e)
      BY <1>1, CheckStopSound DEF Rest
  <2> QED
      BY <1>1, <2>2, <2>3 DEF StepsTo, Rest
<1>4. NoneImmediate(stopped)
    BY <1>1, <1>3 DEF Rest, NoneImmediate
<1> HIDE DEF stopped
<1>5. Sound(marked) /\ NoneImmediate(marked) /\ marked.working = stopped.working
  <2>1. stopped.lastDay # None => stopped.lastDay \in Nat
      BY <1>3 DEF Sound, EngineState, MaybeNat
  <2> QED
      BY <1>3, <1>4, <2>1, MarkLimitsSound
<1> HIDE DEF marked
<1>6. Rest(flat)
  <2>1. CASE forced
      BY <1>5, <2>1, EnforceFlatSound
  <2>2. CASE ~forced
    <3>1. marked.kill = e0.kill
        BY <2>2
    <3>2. marked.working \in {None, e0.working}
        BY <1>1, <1>3, <1>5
    <3>3. QuietOnHalt(marked)
        BY <3>1, <3>2 DEF Rest, QuietOnHalt
    <3> QED
        BY <1>5, <2>2, <3>3 DEF Rest
  <2> QED
      BY <2>1, <2>2
<1> HIDE DEF flat
<1>7. flat.lastDay # None => Rest(EnforceFlat(again, now))
  <2> SUFFICES ASSUME flat.lastDay # None PROVE Rest(EnforceFlat(again, now))
      OBVIOUS
  <2>1. flat.lastDay \in Nat
      BY <1>6 DEF Rest, Sound, EngineState, MaybeNat
  <2>2. Sound(again) /\ NoneImmediate(again)
      BY <1>6, <2>1, MarkLimitsSound DEF Rest
  <2> HIDE DEF again
  <2> QED
      BY <2>2, EnforceFlatSound
<1>8. Tick(e0, now) = IF flat.fillCount # e0.fillCount /\ flat.lastDay # None
                      THEN EnforceFlat(again, now) ELSE flat
    BY DEF Tick, TickStops, TickMarks, TickFlattens, TickRemarks, flat, forced, marked, stopped, checks, touched, stale, e
<1> QED
    BY <1>6, <1>7, <1>8

-----------------------------------------------------------------------------
(* The specification.                                                      *)

EngineInv == Rest(eng) /\ failed \in BOOLEAN /\ calls \in Nat

(* A new engine is at rest. *)
LEMMA InitRest == Init => EngineInv
<1> SUFFICES ASSUME Init PROVE EngineInv
    OBVIOUS
<1>1. eng = NewEngine
    BY DEF Init
<1>2. FlatBook \in Books
    BY EngineAssumption DEF FlatBook, Books
<1>3. NewEngine \in EngineState
    BY <1>2, EngineAssumption DEF NewEngine, EngineState, MaybeNat, KillStates, KillReasons
<1>4. /\ NewEngine.book.quantity = 0 /\ NewEngine.working = None /\ NewEngine.stop = None
      /\ NewEngine.stopSetTradeCount = None /\ NewEngine.stopExitPending = FALSE
      /\ NewEngine.stopLockout = 0 /\ NewEngine.nextOrder = 1 /\ NewEngine.orderCount = 0
    BY DEF NewEngine, FlatBook
<1>5. Rest(eng)
    BY <1>1, <1>3, <1>4 DEF Rest, Sound, StopOk, ExitOwns, WorkOk, Counted, NoneImmediate, QuietOnHalt
<1> QED
    BY <1>5 DEF Init, EngineInv

(* The feed stamps natural numbers. *)
LEMMA ReceiveTimesNat == EngineInv => ReceiveTimes \subseteq Nat
<1> SUFFICES ASSUME EngineInv, NEW o \in Offsets, eng.sourceClock + o >= 0
             PROVE  eng.sourceClock + o \in Nat
    BY DEF ReceiveTimes
<1>1. eng.sourceClock \in Nat
    BY DEF EngineInv, Rest, Sound, EngineState
<1>2. o \in Int
    BY EngineAssumption
<1> QED
    BY <1>1, <1>2

(* The feed sends the events the engine normalizes. *)
LEMMA EventsType == EngineInv => Events \subseteq MarketEvents
<1> SUFFICES ASSUME EngineInv, NEW ev \in Events PROVE ev \in MarketEvents
    OBVIOUS
<1>1. ReceiveTimes \subseteq Nat
    BY ReceiveTimesNat
<1> HIDE DEF EngineInv, ReceiveTimes
<1>2. CASE \E b \in Bbos, t \in ReceiveTimes :
             ev = [kind |-> "bbo", ns |-> t, bid |-> b.bid, bidSize |-> b.bidSize,
                   ask |-> b.ask, askSize |-> b.askSize]
    BY <1>1, <1>2, EngineAssumption DEF MarketEvents, BboEvents, Prices, MaybeNat
<1>3. CASE \E p \in Trades, t \in ReceiveTimes :
             ev = [kind |-> "trade", ns |-> t, price |-> p.price, size |-> p.size]
  <2>1. PICK p \in Trades, t \in ReceiveTimes :
               ev = [kind |-> "trade", ns |-> t, price |-> p.price, size |-> p.size]
      BY <1>3
  <2>2. t \in Nat /\ p.price \in Prices /\ p.size \in Prices
      BY <1>1, EngineAssumption DEF Prices
  <2>3. ev \in TradeEvents
      BY <2>1, <2>2 DEF TradeEvents
  <2> QED
      BY <2>3 DEF MarketEvents
<1>4. CASE \E m \in Marks, t \in ReceiveTimes : ev = [kind |-> "mark", ns |-> t, price |-> m]
    BY <1>1, <1>4, EngineAssumption DEF MarketEvents, Prices
<1>5. CASE \E t \in ReceiveTimes : ev = [kind |-> "bar", ns |-> t]
  <2>1. PICK t \in ReceiveTimes : ev = [kind |-> "bar", ns |-> t]
      BY <1>5
  <2>2. ev \in [kind : {"bar"}, ns : Nat]
      BY <1>1, <2>1
  <2> QED
      BY <2>2 DEF MarketEvents
<1> QED
    BY <1>2, <1>3, <1>4, <1>5 DEF Events

(* Every handler call leads from rest to rest. *)
LEMMA NextRest == EngineInv /\ [Next]_vars => EngineInv'
<1> SUFFICES ASSUME EngineInv, [Next]_vars PROVE EngineInv'
    OBVIOUS
<1>1. Rest(eng) /\ failed \in BOOLEAN /\ calls \in Nat
    BY DEF EngineInv
<1>2. Events \subseteq MarketEvents /\ ReceiveTimes \subseteq Nat /\ Days \subseteq Nat
    BY EventsType, ReceiveTimesNat, EngineAssumption
<1>3. ASSUME NEW ev \in Events, NEW day \in Days, NEW answer \in StrategyAnswers,
             OnEvent(ev, day, answer)
      PROVE  EngineInv'
  <2>1. Rest(Advance(eng, ev, day, answer))
      BY <1>1, <1>2, AdvanceRest
  <2> QED
      BY <1>1, <1>3, <2>1 DEF OnEvent, EngineInv
<1>4. ASSUME NEW ev \in Events, NEW day \in Days, OnEventStrategyRaises(ev, day)
      PROVE  EngineInv'
  <2> DEFINE e == AdvanceSourceClock(eng, ev.ns)
  <2>1. ev \in MarketEvents /\ day \in Nat
      BY <1>2
  <2>2. ev.ns \in Nat
      BY <2>1 DEF MarketEvents, BboEvents, TradeEvents
  <2>3. Rest(e)
      BY <1>1, <2>2, AdvanceSourceClockSound
  <2> HIDE DEF e
  <2>4. Rest(BeforeStrategy(e, ev, day))
      BY <2>1, <2>3, BeforeStrategyRest DEF Rest
  <2> QED
      BY <1>1, <1>4, <2>4 DEF OnEventStrategyRaises, EngineInv, e
<1>5. ASSUME NEW now \in ReceiveTimes, OnClock(now)
      PROVE  EngineInv'
  <2>1. Rest(Tick(eng, now))
      BY <1>1, <1>2, TickRest
  <2> QED
      BY <1>1, <1>5, <2>1 DEF OnClock, EngineInv
<1>6. CASE UNCHANGED vars
    BY <1>1, <1>6 DEF vars, EngineInv
<1> QED
    BY <1>3, <1>4, <1>5, <1>6 DEF Next

(* Between any two handler calls the engine is at rest. *)
THEOREM EngineAtRest == Spec => []EngineInv
<1> QED
    BY InitRest, NextRest, PTL DEF Spec

(* The fields of the engine object keep their types, for every feed, every *)
(* strategy and every configuration PaperEngineConfig accepts.             *)
THEOREM EngineTypeCorrect == Spec => []TypeOK
<1>1. EngineInv => TypeOK
    BY DEF EngineInv, Rest, Sound, TypeOK
<1> QED
    BY <1>1, EngineAtRest, PTL

(* Every open position carries the stop its size assumed and a flat book   *)
(* carries none, through entries, partial exits, closes and a strategy     *)
(* that raises (_update_stop_after_fill).                                  *)
THEOREM StopAlwaysMatches == Spec => []StopMatchesPosition
<1>1. EngineInv => StopMatchesPosition
    BY DEF EngineInv, Rest, Sound, StopOk, StopMatchesPosition, Position
<1> QED
    BY <1>1, EngineAtRest, PTL

(* A pending stop exit owns the position until it is flat, and no entry    *)
(* works while its direction is locked (_check_stop, _apply_strategy).     *)
THEOREM StopExitAlwaysOwns == Spec => []StopExitOwnsPosition
<1>1. EngineInv => StopExitOwnsPosition
    BY DEF EngineInv, Rest, Sound, ExitOwns, StopExitOwnsPosition, Position
<1> QED
    BY <1>1, EngineAtRest, PTL

(* A working reduction opposes the position and is no larger, an entry     *)
(* works only on a flat book with the kill switch off, and no zero-latency *)
(* exit outlives its handler (_submit_desired, _enforce_flat).             *)
THEOREM WorkingAlwaysSound == Spec => []WorkingOrderSound
<1>1. EngineInv => WorkingOrderSound
  <2> SUFFICES ASSUME EngineInv, eng.working # None
               PROVE  /\ ~eng.working.immediate
                      /\ IF eng.working.reduceOnly
                         THEN /\ Sign(Signed(eng.working.side, 1)) = -Sign(Position)
                              /\ eng.working.quantity <= Abs(Position)
                         ELSE Position = 0 /\ eng.kill = "NONE"
      BY DEF WorkingOrderSound
  <2>1. Sound(eng) /\ NoneImmediate(eng) /\ QuietOnHalt(eng)
      BY DEF EngineInv, Rest
  <2>2. Position \in Int /\ eng.working.side \in Sides
      BY <2>1 DEF Sound, EngineState, Books, WorkingOrders, Position
  <2>3. eng.working.reduceOnly =>
          Opposes(eng.working.side, Position) /\ eng.working.quantity <= Abs(Position)
      BY <2>1 DEF Sound, WorkOk, Position
  <2>4. eng.working.reduceOnly => Sign(Signed(eng.working.side, 1)) = -Sign(Position)
      BY <2>2, <2>3 DEF Opposes, Sides, Sign, Signed
  <2> QED
      BY <2>1, <2>3, <2>4 DEF Sound, WorkOk, NoneImmediate, QuietOnHalt, Position
<1> QED
    BY <1>1, EngineAtRest, PTL

(* Every accepted order number is completed, canceled or working, once     *)
(* (_next_order, _complete_ioc and _cancel_working).                       *)
THEOREM OrdersAlwaysAccounted == Spec => []OrdersAccounted
<1>1. EngineInv => OrdersAccounted
    BY DEF EngineInv, Rest, Sound, Counted, OrdersAccounted
<1> QED
    BY <1>1, EngineAtRest, PTL

-----------------------------------------------------------------------------
(* The ledger: the book, what PAPER took from the quotes it has seen, and  *)
(* the caches they are read from.                                          *)

SameCache(f, e) ==
    /\ f.bbo = e.bbo
    /\ f.trade = e.trade
    /\ f.venueMark = e.venueMark
    /\ f.tradeCount = e.tradeCount
    /\ f.sourceClock = e.sourceClock
    /\ f.lastData = e.lastData
    /\ f.lastDay = e.lastDay

SameLedger(f, e) ==
    /\ f.book = e.book
    /\ f.fillCount = e.fillCount
    /\ f.bookTaken = e.bookTaken
    /\ f.tradeTaken = e.tradeTaken

(* The kill switch and the loss windows. *)
SameWindows(f, e) ==
    /\ f.kill = e.kill
    /\ f.killReason = e.killReason
    /\ f.day = e.day
    /\ f.dayStart = e.dayStart
    /\ f.weekStart = e.weekStart
    /\ f.peak = e.peak

(* What a method that neither trades nor marks leaves alone. *)
Idle(f, e) == SameCache(f, e) /\ SameLedger(f, e) /\ SameWindows(f, e)

(* Two such methods make one. *)
LEMMA IdleTransitive ==
    ASSUME NEW e, NEW f, NEW g, Idle(f, e), Idle(g, f)
    PROVE  Idle(g, e)
    BY DEF Idle, SameCache, SameLedger, SameWindows

(* And so does doing nothing. *)
LEMMA IdleReflexive == ASSUME NEW e PROVE Idle(e, e)
    BY DEF Idle, SameCache, SameLedger, SameWindows

(* The usable touch, the mark and the stop trigger depend on the caches.   *)
LEMMA SameCacheReads ==
    ASSUME NEW e, NEW f, SameCache(f, e)
    PROVE  /\ CurrentTouch(f) = CurrentTouch(e)
           /\ DisplayMark(f) = DisplayMark(e)
           /\ f.book = e.book => Equity(f) = Equity(e)
           /\ f.book = e.book /\ f.stop = e.stop /\ f.stopSetTradeCount = e.stopSetTradeCount
                => (StopCrossed(f) <=> StopCrossed(e))
<1>1. (BookComplete(f) <=> BookComplete(e)) /\ (TradeFresh(f) <=> TradeFresh(e))
    BY DEF SameCache, BookComplete, TradeFresh, SourceIsFresh
<1>2. CurrentTouch(f) = CurrentTouch(e)
    BY <1>1 DEF SameCache, CurrentTouch
<1>3. DisplayMark(f) = DisplayMark(e)
    BY <1>1 DEF SameCache, DisplayMark, SourceIsFresh
<1>4. f.book = e.book => Equity(f) = Equity(e)
    BY <1>3 DEF Equity
<1>5. f.book = e.book /\ f.stop = e.stop /\ f.stopSetTradeCount = e.stopSetTradeCount
        => (StopCrossed(f) <=> StopCrossed(e))
    BY <1>1, <1>3 DEF SameCache, StopCrossed, Crosses, StopTriggerPrice
<1> QED
    BY <1>2, <1>3, <1>4, <1>5

(* Recording a refusal is idle. *)
LEMMA RejectIdle ==
    ASSUME NEW e \in EngineState, NEW reason, NEW detail, NEW desired
    PROVE  Idle(Reject(e, reason, detail, desired), e)
    BY DEF Reject, EngineState, Idle, SameCache, SameLedger, SameWindows

(* So is canceling an order. *)
LEMMA CancelWorkingIdle ==
    ASSUME NEW e \in EngineState
    PROVE  Idle(CancelWorking(e), e)
    BY DEF CancelWorking, EngineState, Idle, SameCache, SameLedger, SameWindows

(* So is completing one without a fill. *)
LEMMA CompleteUnfilledIdle ==
    ASSUME NEW e \in EngineState, NEW unfilled
    PROVE  Idle(CompleteUnfilled(e, unfilled), e)
           /\ CompleteUnfilled(e, unfilled).stopLockout = e.stopLockout
<1> DEFINE missing == e.working.reduceOnly /\ e.book.quantity # 0 /\ unfilled = "no_touch"
           n == e.orderCount + 1
           r == [e EXCEPT !.working = None, !.orderCount = n, !.missingFlatten = missing]
<1>1. CompleteUnfilled(e, unfilled) = r
    BY DEF CompleteUnfilled
<1> HIDE DEF missing, n
<1>2. Idle(r, e) /\ r.stopLockout = e.stopLockout
    BY DEF EngineState, Idle, SameCache, SameLedger, SameWindows
<1> QED
    BY <1>1, <1>2

(* So is accepting one. *)
LEMMA AcceptOrderIdle ==
    ASSUME NEW e \in EngineState, NEW desired, NEW ns, NEW immediate
    PROVE  Idle(AcceptOrder(e, desired, ns, immediate), e)
    BY DEF AcceptOrder, EngineState, Idle, SameCache, SameLedger, SameWindows

(* And so are the flags of a waiting or blocked exit, of the stop exit and *)
(* of its lockout.                                                         *)
LEMMA FlagsIdle ==
    ASSUME NEW e \in EngineState, NEW b
    PROVE  /\ Idle([e EXCEPT !.missingFlatten = b], e)
           /\ Idle([e EXCEPT !.exitWaiting = b], e)
           /\ Idle([e EXCEPT !.stopLockout = b], e)
           /\ Idle([e EXCEPT !.lastBlock = b], e)
           /\ Idle([e EXCEPT !.stopExitPending = TRUE, !.stopLockout = b], e)
<1>1. Idle([e EXCEPT !.missingFlatten = b], e) /\ Idle([e EXCEPT !.exitWaiting = b], e)
    BY DEF EngineState, Idle, SameCache, SameLedger, SameWindows
<1>2. Idle([e EXCEPT !.stopLockout = b], e) /\ Idle([e EXCEPT !.lastBlock = b], e)
    BY DEF EngineState, Idle, SameCache, SameLedger, SameWindows
<1>3. Idle([e EXCEPT !.stopExitPending = TRUE, !.stopLockout = b], e)
    BY DEF EngineState, Idle, SameCache, SameLedger, SameWindows
<1> QED
    BY <1>1, <1>2, <1>3

(* _submit_desired is idle: whatever it decides, nothing trades. *)
LEMMA SubmitDesiredIdle ==
    ASSUME NEW e, Sound(e), NEW desired \in DesiredOrders \cup {None}, NEW ns, NEW reason,
           NEW immediate, NEW onDecisionQuote
    PROVE  Idle(SubmitDesired(e, desired, ns, reason, immediate, onDecisionQuote), e)
<1> DEFINE r     == SubmitDesired(e, desired, ns, reason, immediate, onDecisionQuote)
           clear == [e EXCEPT !.lastBlock = None]
           free  == CancelWorking(e)
           block == SubmitBlock(free, desired, ns, reason, onDecisionQuote)
           flagged == FlagMissing(free, desired)
<1>1. e \in EngineState
    BY DEF Sound
<1>2. CASE desired = None
  <2>1. r = CancelWorking(clear)
      BY <1>2 DEF SubmitDesired
  <2>2. clear \in EngineState
      BY <1>1 DEF EngineState
  <2>3. Idle(clear, e)
      BY <1>1, FlagsIdle
  <2> HIDE DEF clear
  <2> QED
      BY <2>1, <2>2, <2>3, CancelWorkingIdle, IdleTransitive
<1>3. CASE desired # None
  <2>1. free \in EngineState /\ Idle(free, e)
      BY <1>1, CancelWorkingIdle, CancelWorkingSound DEF Sound
  <2>2. r \in {e, Reject(flagged, block.reason, block.detail, desired),
               AcceptOrder(free, desired, ns, immediate)}
      BY <1>3 DEF SubmitDesired, Submit
  <2> HIDE DEF free, block
  <2>3. flagged \in EngineState /\ Idle(flagged, free)
    <3>1. desired.reduceOnly \in BOOLEAN
        BY <1>3 DEF DesiredOrders
    <3>2. [free EXCEPT !.missingFlatten = desired.reduceOnly] \in EngineState
        BY <2>1, <3>1 DEF EngineState
    <3>3. Idle([free EXCEPT !.missingFlatten = desired.reduceOnly], free)
        BY <2>1, FlagsIdle
    <3> QED
        BY <2>1, <3>2, <3>3, IdleReflexive DEF FlagMissing
  <2> HIDE DEF flagged
  <2>4. Idle(Reject(flagged, block.reason, block.detail, desired), e)
      BY <2>1, <2>3, RejectIdle, IdleTransitive
  <2>5. Idle(AcceptOrder(free, desired, ns, immediate), e)
      BY <2>1, AcceptOrderIdle, IdleTransitive
  <2> QED
      BY <2>2, <2>4, <2>5, IdleReflexive
<1> QED
    BY <1>2, <1>3

-----------------------------------------------------------------------------
(* Marking: the loss windows roll, the limits are read, the switch moves.  *)

LossReasons == {"daily_loss", "weekly_loss"}

(* A loss halt names a window that has begun. *)
HaltDated(e) == e.killReason \in LossReasons => e.day # None

(* The switch stays as tight as it was. *)
SwitchKept(f, e) ==
    e.kill # "NONE" => /\ f.kill \in {e.kill, "FLATTEN_HALT"}
                       /\ f.kill = e.kill => f.killReason = e.killReason

(* The window a loss halt is about ended: its day, or its week. *)
Ends(reason, from, to) ==
    \/ reason = "daily_loss" /\ to > from
    \/ reason = "weekly_loss" /\ WeekOf(to) > WeekOf(from)
WindowEnded(f, e) == e.kill = "HALT_NEW" /\ Ends(e.killReason, e.day, f.day)

(* How the switch and the day may move. *)
Switched(f, e) ==
    /\ e.day # None => f.day # None /\ f.day >= e.day
    /\ SwitchKept(f, e) \/ WindowEnded(f, e)
    /\ HaltDated(f)

(* What moves the switch and the windows alone. *)
Marked(f, e) == SameCache(f, e) /\ SameLedger(f, e) /\ Switched(f, e)

(* Whole weeks do not run backwards. *)
LEMMA WeekMonotone ==
    ASSUME NEW a \in Nat, NEW b \in Nat, a <= b
    PROVE  WeekOf(a) \in Nat /\ WeekOf(b) \in Nat /\ WeekOf(a) <= WeekOf(b)
    BY EngineAssumption DEF WeekOf

(* A window that ends between two days ends between an earlier and a later *)
(* one, and only a later day ends it.                                      *)
LEMMA EndsLater ==
    ASSUME NEW a \in Nat, NEW b \in Nat, NEW c \in Nat, NEW d \in Nat, NEW reason,
           a <= b, c <= d, Ends(reason, b, c)
    PROVE  Ends(reason, a, d) /\ b < c
<1>1. WeekOf(a) \in Nat /\ WeekOf(b) \in Nat /\ WeekOf(a) <= WeekOf(b)
    BY WeekMonotone
<1>2. WeekOf(c) \in Nat /\ WeekOf(d) \in Nat /\ WeekOf(c) <= WeekOf(d)
    BY WeekMonotone
<1>3. c <= b => WeekOf(c) <= WeekOf(b)
    BY WeekMonotone
<1> QED
    BY <1>1, <1>2, <1>3 DEF Ends

(* Two such movements make one. *)
LEMMA SwitchedTransitive ==
    ASSUME NEW e \in EngineState, NEW f \in EngineState, NEW g \in EngineState,
           HaltDated(e), Switched(f, e), Switched(g, f)
    PROVE  Switched(g, e)
<1>1. /\ e.day # None => e.day \in Nat
      /\ f.day # None => f.day \in Nat
      /\ g.day # None => g.day \in Nat
    BY DEF EngineState, MaybeNat
<1>2. e.day # None => g.day # None /\ g.day >= e.day
    BY <1>1 DEF Switched
<1>3. CASE SwitchKept(f, e) /\ SwitchKept(g, f)
    BY <1>2, <1>3 DEF Switched, SwitchKept
<1>4. CASE WindowEnded(f, e)
  <2>1. e.day # None
      BY <1>4 DEF WindowEnded, Ends, HaltDated, LossReasons
  <2>2. /\ e.day \in Nat /\ f.day \in Nat /\ g.day \in Nat
        /\ e.day <= e.day /\ f.day <= g.day
      BY <1>1, <1>2, <2>1 DEF Switched
  <2>3. Ends(e.killReason, e.day, g.day)
      BY <1>4, <2>2, EndsLater DEF WindowEnded
  <2> QED
      BY <1>2, <1>4, <2>3 DEF Switched, WindowEnded
<1>5. CASE SwitchKept(f, e) /\ WindowEnded(g, f)
  <2>1. CASE e.kill = "NONE"
      BY <1>2, <2>1 DEF Switched, SwitchKept
  <2>2. CASE e.kill # "NONE"
    <3>1. /\ e.kill = "HALT_NEW" /\ e.killReason = f.killReason
          /\ Ends(f.killReason, f.day, g.day)
        BY <1>5, <2>2 DEF SwitchKept, WindowEnded, EngineState, KillStates
    <3>2. e.day # None
        BY <3>1 DEF Ends, HaltDated, LossReasons
    <3>3. /\ e.day \in Nat /\ f.day \in Nat /\ g.day \in Nat
          /\ e.day <= f.day /\ g.day <= g.day
        BY <1>1, <1>2, <3>2 DEF Switched
    <3>4. Ends(e.killReason, e.day, g.day)
        BY <3>1, <3>3, EndsLater
    <3> QED
        BY <1>2, <3>1, <3>4 DEF Switched, WindowEnded
  <2> QED
      BY <2>1, <2>2
<1> QED
    BY <1>3, <1>4, <1>5 DEF Switched

(* The three ways the switch moves. *)
LEMMA KillSwitchMarks ==
    ASSUME NEW e \in EngineState, NEW reason,
           NEW f \in {HaltNew(e, reason), FlattenHalt(e, reason), ReleaseHalt(e, reason)}
    PROVE  /\ SameCache(f, e) /\ SameLedger(f, e)
           /\ f.day = e.day /\ f.dayStart = e.dayStart /\ f.weekStart = e.weekStart
           /\ f.peak = e.peak
           /\ f.killReason \in {e.killReason, reason, "none"}
<1>1. \/ f = e
      \/ f = [e EXCEPT !.kill = "HALT_NEW", !.killReason = reason]
      \/ f = [e EXCEPT !.kill = "FLATTEN_HALT", !.killReason = reason]
      \/ f = [e EXCEPT !.kill = "NONE", !.killReason = "none"]
    BY DEF HaltNew, FlattenHalt, ReleaseHalt
<1>2. CASE f = e
    BY <1>2 DEF SameCache, SameLedger
<1>3. CASE f = [e EXCEPT !.kill = "HALT_NEW", !.killReason = reason]
    BY <1>3 DEF EngineState, SameCache, SameLedger
<1>4. CASE f = [e EXCEPT !.kill = "FLATTEN_HALT", !.killReason = reason]
    BY <1>4 DEF EngineState, SameCache, SameLedger
<1>5. CASE f = [e EXCEPT !.kill = "NONE", !.killReason = "none"]
    BY <1>5 DEF EngineState, SameCache, SameLedger
<1> QED
    BY <1>1, <1>2, <1>3, <1>4, <1>5

(* Halting and flattening never loosen the switch. *)
LEMMA HaltKeeps ==
    ASSUME NEW e \in EngineState, NEW reason
    PROVE  /\ SwitchKept(HaltNew(e, reason), e)
           /\ HaltNew(e, reason).kill # "NONE"
           /\ SwitchKept(FlattenHalt(e, reason), e)
           /\ FlattenHalt(e, reason).kill = "FLATTEN_HALT"
<1>1. SwitchKept(HaltNew(e, reason), e) /\ HaltNew(e, reason).kill # "NONE"
    BY DEF HaltNew, SwitchKept, EngineState
<1>2. SwitchKept(FlattenHalt(e, reason), e) /\ FlattenHalt(e, reason).kill = "FLATTEN_HALT"
    BY DEF FlattenHalt, SwitchKept, EngineState
<1> QED
    BY <1>1, <1>2

(* A release ends a halt for the reason it names, and nothing else. *)
LEMMA ReleaseLoosens ==
    ASSUME NEW e \in EngineState, NEW reason
    PROVE  LET f == ReleaseHalt(e, reason)
           IN  SwitchKept(f, e) \/ (e.kill = "HALT_NEW" /\ e.killReason = reason)
    BY DEF ReleaseHalt, SwitchKept, EngineState

(* Setting the week or the peak moves nothing else. *)
LEMMA SetWeekOrPeak ==
    ASSUME NEW e \in EngineState, NEW v, NEW f,
           f = [e EXCEPT !.weekStart = v] \/ f = [e EXCEPT !.peak = v]
    PROVE  /\ SameCache(f, e) /\ SameLedger(f, e) /\ f.day = e.day
           /\ f.kill = e.kill /\ f.killReason = e.killReason
    BY DEF EngineState, SameCache, SameLedger

(* Nor does recording the PnL of the windows. *)
LEMMA MarkedPnlMarks ==
    ASSUME NEW e \in EngineState, NEW equity, NEW f, f = MarkedPnl(e, equity)
    PROVE  SameCache(f, e) /\ SameLedger(f, e) /\ SameWindows(f, e)
    BY DEF MarkedPnl, EngineState, SameCache, SameLedger, SameWindows

(* _roll_windows sets the day and releases a halt only when its window     *)
(* ended.                                                                  *)
LEMMA RollWindowsMarks ==
    ASSUME NEW e \in EngineState, HaltDated(e), NEW day \in Nat, NEW equity \in Int
    PROVE  LET f == RollWindows(e, day, equity)
           IN  Marked(f, e) /\ f.day # None
<1> DEFINE first == [e EXCEPT !.day = day]
           begun == [e EXCEPT !.day = day, !.dayStart = equity]
           d == IF day > e.day THEN ReleaseHalt(begun, "daily_loss") ELSE e
           w == [d EXCEPT !.weekStart = equity]
           rolled == ReleaseHalt(w, "weekly_loss")
           f == RollWindows(e, day, equity)
<1>1. day # None /\ (e.day # None => e.day \in Nat)
    BY ExecutionAssumption DEF EngineState, MaybeNat
<1>2. CASE e.day = None
  <2>1. f = first
      BY <1>2 DEF RollWindows
  <2>2. /\ SameCache(first, e) /\ SameLedger(first, e) /\ first.day = day
        /\ first.kill = e.kill /\ first.killReason = e.killReason
      BY DEF EngineState, SameCache, SameLedger
  <2> HIDE DEF first
  <2> QED
      BY <1>1, <1>2, <2>1, <2>2 DEF Marked, Switched, SwitchKept, HaltDated
<1>3. CASE e.day # None
  <2>1. begun \in EngineState
      BY <1>3 DEF EngineState, MaybeNat
  <2>2. /\ SameCache(begun, e) /\ SameLedger(begun, e) /\ begun.day = day
        /\ begun.kill = e.kill /\ begun.killReason = e.killReason
      BY DEF EngineState, SameCache, SameLedger
  <2> HIDE DEF begun
  <2>3. /\ d \in EngineState /\ SameCache(d, e) /\ SameLedger(d, e)
        /\ d.day \in Nat /\ d.day >= e.day
        /\ day > e.day => d.day = day
        /\ SwitchKept(d, e) \/ WindowEnded(d, e)
    <3>1. CASE day > e.day
      <4>1. d = ReleaseHalt(begun, "daily_loss")
          BY <3>1
      <4>2. d \in EngineState
          BY <2>1, <4>1, KillSwitchType DEF KillReasons
      <4>3. SameCache(d, begun) /\ SameLedger(d, begun) /\ d.day = begun.day
          BY <2>1, <4>1, KillSwitchMarks
      <4>4. SwitchKept(d, begun) \/ (begun.kill = "HALT_NEW" /\ begun.killReason = "daily_loss")
          BY <2>1, <4>1, ReleaseLoosens
      <4> HIDE DEF d
      <4>5. d.day = day
          BY <2>2, <4>3
      <4>6. SwitchKept(d, e) \/ WindowEnded(d, e)
          BY <2>2, <3>1, <4>4, <4>5 DEF SwitchKept, WindowEnded, Ends
      <4> QED
          BY <1>1, <1>3, <2>2, <3>1, <4>2, <4>3, <4>5, <4>6 DEF SameCache, SameLedger
    <3>2. CASE ~(day > e.day)
      <4>1. d = e
          BY <3>2
      <4> QED
          BY <1>1, <1>3, <3>2, <4>1 DEF SameCache, SameLedger, SwitchKept
    <3> QED
        BY <3>1, <3>2
  <2> HIDE DEF d
  <2>4. CASE WeekOf(day) > WeekOf(e.day)
    <3>1. f = rolled
        BY <1>3, <2>4 DEF RollWindows, rolled, w, d, begun
    <3>2. w \in EngineState
        BY <2>3 DEF EngineState
    <3>3. /\ SameCache(w, d) /\ SameLedger(w, d) /\ w.day = d.day
          /\ w.kill = d.kill /\ w.killReason = d.killReason
        BY <2>3, SetWeekOrPeak
    <3> HIDE DEF w
    <3>4. SameCache(rolled, w) /\ SameLedger(rolled, w) /\ rolled.day = w.day
        BY <3>2, KillSwitchMarks
    <3>5. SwitchKept(rolled, w) \/ (w.kill = "HALT_NEW" /\ w.killReason = "weekly_loss")
        BY <3>2, ReleaseLoosens
    <3> HIDE DEF rolled
    <3>6. day > e.day
        BY <1>1, <1>3, <2>4, WeekMonotone
    <3>7. rolled.day = d.day
        BY <3>3, <3>4
    <3>8. SwitchKept(rolled, e) \/ WindowEnded(rolled, e)
      <4>1. CASE WindowEnded(d, e)
          BY <3>7, <4>1 DEF WindowEnded, Ends
      <4>2. CASE SwitchKept(d, e) /\ SwitchKept(rolled, w)
          BY <3>3, <4>2 DEF SwitchKept
      <4>3. CASE SwitchKept(d, e) /\ w.kill = "HALT_NEW" /\ w.killReason = "weekly_loss"
        <5>1. CASE e.kill = "NONE"
            BY <5>1 DEF SwitchKept
        <5>2. CASE e.kill # "NONE"
          <6>1. e.kill = "HALT_NEW" /\ e.killReason = "weekly_loss"
              BY <3>3, <4>3, <5>2 DEF SwitchKept
          <6> QED
              BY <2>3, <2>4, <3>6, <3>7, <6>1 DEF WindowEnded, Ends
        <5> QED
            BY <5>1, <5>2
      <4> QED
          BY <2>3, <3>5, <4>1, <4>2, <4>3
    <3>9. rolled.day # None
        BY <2>3, <3>7, ExecutionAssumption
    <3> QED
        BY <2>3, <3>1, <3>3, <3>4, <3>7, <3>8, <3>9
        DEF Marked, Switched, HaltDated, SameCache, SameLedger
  <2>5. CASE ~(WeekOf(day) > WeekOf(e.day))
    <3>1. f = d
        BY <1>3, <2>5 DEF RollWindows, d, begun
    <3>2. d.day # None
        BY <2>3, ExecutionAssumption
    <3> QED
        BY <2>3, <3>1, <3>2 DEF Marked, Switched, HaltDated
  <2> QED
      BY <2>4, <2>5
<1> QED
    BY <1>2, <1>3

(* What _mark_limits establishes. *)
LimitsOk(e) ==
    LET equity == Equity(e)
    IN  /\ e.kill = "NONE" => /\ equity # None
                              /\ ~DailyLossBreached(e, equity)
                              /\ ~WeeklyLossBreached(e, equity)
        /\ e.kill # "FLATTEN_HALT" /\ equity # None => ~DrawdownBreached(e, equity)

(* A breach depends on the windows alone. *)
LEMMA SameBreaches ==
    ASSUME NEW e, NEW f, NEW equity,
           f.dayStart = e.dayStart, f.weekStart = e.weekStart, f.peak = e.peak
    PROVE  /\ DailyLossBreached(f, equity) <=> DailyLossBreached(e, equity)
           /\ WeeklyLossBreached(f, equity) <=> WeeklyLossBreached(e, equity)
           /\ DrawdownBreached(f, equity) <=> DrawdownBreached(e, equity)
    BY DEF DailyLossBreached, WeeklyLossBreached, DrawdownBreached

(* Halting on a loss leaves no breach with the switch off. *)
LEMMA HaltOnLossMarks ==
    ASSUME NEW e \in EngineState, e.day # None, NEW equity
    PROVE  LET f == HaltOnLoss(e, equity)
           IN  /\ Marked(f, e)
               /\ f.peak = e.peak
               /\ f.kill = "NONE" => /\ ~DailyLossBreached(f, equity)
                                     /\ ~WeeklyLossBreached(f, equity)
<1> DEFINE daily == IF DailyLossBreached(e, equity) THEN HaltNew(e, "daily_loss") ELSE e
           f == IF WeeklyLossBreached(e, equity) THEN HaltNew(daily, "weekly_loss") ELSE daily
<1>1. f = HaltOnLoss(e, equity)
    BY DEF HaltOnLoss
<1>2. /\ daily \in EngineState /\ SameCache(daily, e) /\ SameLedger(daily, e)
      /\ daily.day = e.day /\ daily.dayStart = e.dayStart /\ daily.weekStart = e.weekStart
      /\ daily.peak = e.peak
  <2>1. HaltNew(e, "daily_loss") \in EngineState
      BY KillSwitchType DEF KillReasons
  <2> DEFINE h == HaltNew(e, "daily_loss")
  <2>2. /\ SameCache(h, e) /\ SameLedger(h, e)
        /\ h.day = e.day /\ h.dayStart = e.dayStart /\ h.weekStart = e.weekStart
        /\ h.peak = e.peak
      BY KillSwitchMarks
  <2> HIDE DEF h
  <2> QED
      BY <2>1, <2>2 DEF SameCache, SameLedger, h
<1>3. SwitchKept(daily, e) /\ (daily.kill = "NONE" => ~DailyLossBreached(e, equity))
    BY HaltKeeps DEF SwitchKept
<1> HIDE DEF daily
<1>4. /\ SameCache(f, daily) /\ SameLedger(f, daily)
      /\ f.day = daily.day /\ f.dayStart = daily.dayStart /\ f.weekStart = daily.weekStart
      /\ f.peak = daily.peak
  <2> DEFINE h == HaltNew(daily, "weekly_loss")
  <2>1. /\ SameCache(h, daily) /\ SameLedger(h, daily)
        /\ h.day = daily.day /\ h.dayStart = daily.dayStart /\ h.weekStart = daily.weekStart
        /\ h.peak = daily.peak
      BY <1>2, KillSwitchMarks
  <2> HIDE DEF h
  <2> QED
      BY <2>1 DEF SameCache, SameLedger, h
<1>5. /\ SwitchKept(f, daily)
      /\ f.kill = "NONE" => daily.kill = "NONE" /\ ~WeeklyLossBreached(e, equity)
    BY <1>2, HaltKeeps DEF SwitchKept
<1> HIDE DEF f
<1>6. Switched(f, e)
  <2>1. f.day = e.day /\ (e.day # None => e.day \in Nat)
      BY <1>2, <1>4 DEF EngineState, MaybeNat
  <2>2. SwitchKept(f, e)
      BY <1>3, <1>5 DEF SwitchKept
  <2> QED
      BY <2>1, <2>2 DEF Switched, HaltDated
<1>7. SameCache(f, e) /\ SameLedger(f, e)
    BY <1>2, <1>4 DEF SameCache, SameLedger
<1>8. f.kill = "NONE" => ~DailyLossBreached(f, equity) /\ ~WeeklyLossBreached(f, equity)
    BY <1>2, <1>3, <1>4, <1>5, SameBreaches
<1> QED
    BY <1>1, <1>2, <1>4, <1>6, <1>7, <1>8 DEF Marked

(* _mark_limits leaves no breach behind, and never loosens the switch      *)
(* unless a window ended.                                                  *)
LEMMA MarkLimitsMarks ==
    ASSUME NEW e \in EngineState, HaltDated(e), NEW day \in Nat
    PROVE  Marked(MarkLimits(e, day), e) /\ LimitsOk(MarkLimits(e, day))
<1> DEFINE equity == Equity(e)
           rolled == RollWindows(e, day, equity)
           m == MarkedPeak(e, day, equity)
           p == MarkedPnl(m, equity)
           r == MarkLimits(e, day)
<1>1. equity \in Int \cup {None}
    BY EquityType
<1>2. CASE equity = None
  <2>1. r = HaltNew(e, "missing_price")
      BY <1>2 DEF MarkLimits, LimitsAt
  <2>2. /\ SameCache(r, e) /\ SameLedger(r, e) /\ r.day = e.day
        /\ r.killReason \in {e.killReason, "missing_price", "none"}
      BY <2>1, KillSwitchMarks
  <2>3. SwitchKept(r, e) /\ r.kill # "NONE"
      BY <2>1, HaltKeeps
  <2> HIDE DEF r
  <2>4. Equity(r) = None
      BY <1>2, <2>2, SameCacheReads DEF SameLedger
  <2>5. e.day # None => e.day \in Nat
      BY DEF EngineState, MaybeNat
  <2>6. HaltDated(r)
      BY <2>2 DEF HaltDated, LossReasons
  <2> QED
      BY <2>2, <2>3, <2>4, <2>5, <2>6 DEF Marked, Switched, LimitsOk, r
<1>3. CASE equity # None
  <2>1. equity \in Int
      BY <1>1, <1>3
  <2>2. rolled \in EngineState /\ Marked(rolled, e) /\ rolled.day # None
      BY <2>1, RollWindowsType, RollWindowsMarks
  <2>3. m \in EngineState
      BY <2>1, MarkedPeakType
  <2>4. /\ SameCache(m, rolled) /\ SameLedger(m, rolled) /\ m.day = rolled.day
        /\ m.kill = rolled.kill /\ m.killReason = rolled.killReason
    <3> DEFINE peak == MaxOf(rolled.peak, equity)
    <3>1. m = [rolled EXCEPT !.peak = peak]
        BY DEF MarkedPeak
    <3> HIDE DEF rolled, peak, m
    <3> QED
        BY <2>2, <3>1 DEF EngineState, SameCache, SameLedger
  <2>5. Marked(m, e) /\ m.day # None
    <3> HIDE DEF rolled, m
    <3> QED
        BY <2>2, <2>4 DEF Marked, Switched, SwitchKept, WindowEnded, HaltDated, SameCache, SameLedger
  <2> HIDE DEF rolled, m
  <2>6. p \in EngineState
      BY <2>1, <2>3, MarkedPnlType
  <2>7. SameCache(p, m) /\ SameLedger(p, m) /\ SameWindows(p, m)
      BY <2>3, MarkedPnlMarks
  <2> HIDE DEF p
  <2>8. r = IF DrawdownBreached(m, equity) THEN FlattenHalt(m, "drawdown")
            ELSE HaltOnLoss(p, equity)
      BY <1>3 DEF MarkLimits, LimitsAt, LimitsChecked, m, p
  <2>9. m.day \in Nat /\ (e.day # None => e.day \in Nat)
      BY <2>3, <2>5 DEF EngineState, MaybeNat
  <2>10. CASE DrawdownBreached(m, equity)
    <3>1. r = FlattenHalt(m, "drawdown")
        BY <2>8, <2>10
    <3>2. SameCache(r, m) /\ SameLedger(r, m) /\ r.day = m.day
        BY <2>3, <3>1, KillSwitchMarks
    <3>3. SwitchKept(r, m) /\ r.kill = "FLATTEN_HALT"
        BY <2>3, <3>1, HaltKeeps
    <3>4. r \in EngineState
        BY <2>3, <3>1, KillSwitchType DEF KillReasons
    <3> HIDE DEF r
    <3>5. Switched(r, m)
        BY <2>5, <2>9, <3>2, <3>3 DEF Switched, HaltDated
    <3>6. Switched(r, e)
        BY <2>3, <2>5, <3>4, <3>5, SwitchedTransitive DEF Marked
    <3>7. SameCache(r, e) /\ SameLedger(r, e)
        BY <2>5, <3>2 DEF Marked, SameCache, SameLedger
    <3> QED
        BY <3>3, <3>6, <3>7 DEF Marked, LimitsOk, r
  <2>11. CASE ~DrawdownBreached(m, equity)
    <3>1. r = HaltOnLoss(p, equity)
        BY <2>8, <2>11
    <3>2. p.day # None
        BY <2>5, <2>7 DEF SameWindows
    <3>3. /\ Marked(r, p) /\ r.peak = p.peak
          /\ r.kill = "NONE" => ~DailyLossBreached(r, equity) /\ ~WeeklyLossBreached(r, equity)
        BY <2>6, <3>1, <3>2, HaltOnLossMarks
    <3>4. r \in EngineState
        BY <2>6, <3>1, HaltOnLossType
    <3> HIDE DEF r
    <3>5. Switched(r, m)
        BY <2>7, <3>3 DEF Marked, Switched, SwitchKept, WindowEnded, SameWindows
    <3>6. Switched(r, e)
        BY <2>3, <2>5, <3>4, <3>5, SwitchedTransitive DEF Marked
    <3>7. SameCache(r, e) /\ SameLedger(r, e)
        BY <2>5, <2>7, <3>3 DEF Marked, SameCache, SameLedger
    <3>8. Equity(r) = equity
        BY <3>7, SameCacheReads DEF SameLedger
    <3>9. ~DrawdownBreached(r, equity)
        BY <2>7, <2>11, <3>3 DEF DrawdownBreached, SameWindows
    <3>10. LimitsOk(r)
      <4> HIDE DEF equity
      <4> QED
          BY <1>3, <3>3, <3>8, <3>9 DEF LimitsOk
    <3> QED
        BY <3>6, <3>7, <3>10 DEF Marked, r
  <2> QED
      BY <2>10, <2>11
<1> QED
    BY <1>2, <1>3

-----------------------------------------------------------------------------
(* The book over entries, partial exits and closes (apply_fill).           *)

(* A product distributes over a sum, and takes a sign out. *)
LEMMA Distributes ==
    ASSUME NEW a \in Int, NEW b \in Int, NEW c \in Int
    PROVE  (a + b) * c = a * c + b * c /\ a * (b - c) = a * b - a * c /\ (-a) * b = -(a * b)
    OBVIOUS

(* Dividing a product by a factor gives the other one. *)
LEMMA ExactQuotient ==
    ASSUME NEW a \in Nat \ {0}, NEW b \in Nat PROVE (a * b) \div a = b
    OBVIOUS

(* A product grows with its factor. *)
LEMMA ProductGrows ==
    ASSUME NEW a \in Nat, NEW b \in Nat, NEW c \in Nat, a <= b PROVE a * c <= b * c
    OBVIOUS

CashOk(book) ==
    book.cash + Value(book.quantity, Px(book.average)) = StartingCash + book.realized - book.fees

AverageOk(book) == book.quantity = 0 <=> book.average = 0

WithinLimits(book) ==
    /\ Abs(book.quantity) <= MaxPosition
    /\ Value(Abs(book.quantity), Px(book.average)) <= MaxNotional

Shrunk(after, before) == Abs(after) <= Abs(before) /\ Sign(after) \in {0, Sign(before)}

(* From flat a fill opens a position at its own price. *)
LEMMA ApplyFillOpens ==
    ASSUME NEW book \in Books, NEW fill \in Fills, book.quantity = 0
    PROVE  LET after == ApplyFill(book, fill)
           IN  /\ after.quantity # 0 /\ Abs(after.quantity) = fill.quantity
               /\ after.average = fill.price
               /\ AverageOk(after)
               /\ CashOk(book) => CashOk(after)
<1> DEFINE signed == Signed(fill.side, fill.quantity)
           P == Px(fill.price)
           after == ApplyFill(book, fill)
<1>1. /\ fill.quantity \in Nat \ {0} /\ fill.price \in Nat \ {0} /\ fill.fee \in Nat
      /\ book.cash \in Int /\ book.realized \in Int /\ book.fees \in Nat /\ book.average \in Nat
    BY DEF Fills, Books
<1>2. signed \in Int /\ signed # 0 /\ Abs(signed) = fill.quantity
    BY <1>1 DEF Signed, Abs
<1>3. P \in Int /\ Px(book.average) \in Int
    BY <1>1 DEF Px
<1>4. after.quantity = signed
    BY <1>2, ApplyFillPosition
<1>5. after.average = (Abs(0) * book.average + fill.quantity * fill.price) \div Abs(signed)
    BY <1>2 DEF ApplyFill
<1>6. after.average = fill.price
  <2>1. Abs(0) * book.average = 0 /\ fill.quantity * fill.price \in Nat
      BY <1>1, NatProduct DEF Abs
  <2>2. Abs(0) * book.average + fill.quantity * fill.price = fill.quantity * fill.price
      BY <2>1
  <2> QED
      BY <1>1, <1>2, <1>5, <2>2, ExactQuotient
<1>7. /\ after.cash = book.cash - Value(signed, P) - fill.fee
      /\ after.realized = book.realized
      /\ after.fees = book.fees + fill.fee
    BY DEF ApplyFill
<1> HIDE DEF after, signed
<1>8. CashOk(book) => CashOk(after)
  <2>1. Value(signed, P) \in Int
      BY <1>2, <1>3, IntProduct DEF Value
  <2>2. Value(book.quantity, Px(book.average)) = 0
      BY <1>3 DEF Value
  <2>3. Value(after.quantity, Px(after.average)) = Value(signed, P)
      BY <1>4, <1>6
  <2> HIDE DEF P
  <2> QED
      BY <1>1, <1>7, <2>1, <2>2, <2>3, EngineAssumption DEF CashOk
<1> QED
    BY <1>1, <1>2, <1>4, <1>6, <1>8 DEF AverageOk, after

(* A reduction no larger than the position keeps the books reconciled and  *)
(* within every limit they were within.                                    *)
LEMMA ApplyFillExits ==
    ASSUME NEW book \in Books, NEW fill \in Fills,
           Opposes(fill.side, book.quantity), fill.quantity <= Abs(book.quantity)
    PROVE  LET after == ApplyFill(book, fill)
           IN  /\ Shrunk(after.quantity, book.quantity)
               /\ AverageOk(book) => AverageOk(after)
               /\ CashOk(book) => CashOk(after)
               /\ WithinLimits(book) => WithinLimits(after)
<1> DEFINE signed == Signed(fill.side, fill.quantity)
           before == book.quantity
           left == before + signed
           P == Px(fill.price)
           A == Px(book.average)
           n == fill.quantity
           after == ApplyFill(book, fill)
<1>1. /\ n \in Nat \ {0} /\ fill.price \in Nat \ {0} /\ fill.fee \in Nat /\ fill.side \in Sides
      /\ book.cash \in Int /\ book.realized \in Int /\ book.fees \in Nat /\ book.average \in Nat
      /\ before \in Int
    BY DEF Fills, Books
<1>2. /\ before # 0
      /\ signed \in Int
      /\ signed = -(n * Sign(before))
      /\ Sign(before) # Sign(signed)
      /\ left = 0 \/ Sign(before) = Sign(left)
      /\ Shrunk(left, before)
    BY <1>1 DEF Opposes, Signed, Sign, Abs, Sides, Shrunk
<1>3. P \in Int /\ A \in Int /\ Sign(before) \in Int
    BY <1>1 DEF Px, Sign
<1>4. /\ after.quantity = left
      /\ after.cash = book.cash - Value(signed, P) - fill.fee
      /\ after.average = IF left = 0 THEN 0 ELSE book.average
      /\ after.realized = book.realized + Value(n, P - A) * Sign(before)
      /\ after.fees = book.fees + fill.fee
    BY <1>2 DEF ApplyFill
<1> HIDE DEF after
<1>5. left \in Int /\ Abs(left) \in Nat /\ Abs(before) \in Nat
    BY <1>1, <1>2 DEF Abs
<1>6. CashOk(book) => CashOk(after)
  <2> DEFINE s == Sign(before)
             gain == Value(n, P - A) * s
  <2>1. gain = signed * A - signed * P
    <3> HIDE DEF P, A, n, before, signed
    <3>1. CASE s = 1
      <4>1. gain = n * P - n * A
          BY <1>1, <1>3, <3>1, Distributes DEF Value
      <4>2. signed = -n
          BY <1>1, <1>2, <3>1
      <4>3. signed * A = -(n * A) /\ signed * P = -(n * P)
          BY <1>1, <1>3, <4>2, Distributes
      <4> QED
          BY <1>1, <1>3, <4>1, <4>3, IntProduct
    <3>2. CASE s = -1
      <4>1. n * (P - A) = n * P - n * A /\ n * P \in Int /\ n * A \in Int
          BY <1>1, <1>3, Distributes, IntProduct
      <4>2. gain = -(n * (P - A))
          BY <1>1, <1>3, <3>2 DEF Value
      <4>3. signed = n
          BY <1>1, <1>2, <3>2
      <4> QED
          BY <4>1, <4>2, <4>3
    <3> QED
        BY <1>1, <1>2, <3>1, <3>2 DEF Sign
  <2>2. signed * P \in Int /\ signed * A \in Int /\ before * A \in Int
      BY <1>1, <1>2, <1>3, IntProduct
  <2>3. Value(left, Px(after.average)) = before * A + signed * A
    <3>1. left * A = before * A + signed * A
        BY <1>1, <1>2, <1>3, Distributes
    <3>2. CASE left # 0
        BY <1>4, <3>1, <3>2 DEF Value
    <3>3. CASE left = 0
      <4>1. left * A = 0
          BY <1>3, <3>3
      <4>2. Value(left, Px(after.average)) = 0
          BY <1>4, <3>3 DEF Value, Px
      <4> QED
          BY <3>1, <4>1, <4>2
    <3> QED
        BY <3>2, <3>3
  <2> HIDE DEF gain
  <2>4. after.realized = book.realized + (signed * A - signed * P)
      BY <1>4, <2>1 DEF gain
  <2>5. after.cash = book.cash - signed * P - fill.fee
      BY <1>4 DEF Value
  <2>6. book.cash + before * A = StartingCash + book.realized - book.fees <=> CashOk(book)
      BY DEF CashOk, Value
  <2>7. after.cash + (before * A + signed * A) = StartingCash + after.realized - after.fees
          <=> CashOk(after)
      BY <1>4, <2>3 DEF CashOk
  <2> HIDE DEF P, A, n, before, signed, left
  <2> QED
      BY <1>1, <1>4, <2>2, <2>4, <2>5, <2>6, <2>7, EngineAssumption
<1>7. AverageOk(book) => AverageOk(after)
    BY <1>2, <1>4 DEF AverageOk
<1>8. WithinLimits(book) => WithinLimits(after)
  <2>1. Abs(left) <= Abs(before)
      BY <1>2 DEF Shrunk
  <2>2. A \in Nat
      BY <1>1 DEF Px
  <2>3. Abs(left) * A <= Abs(before) * A /\ Abs(left) * A \in Nat /\ Abs(before) * A \in Nat
      BY <1>5, <2>1, <2>2, ProductGrows, NatProduct
  <2>4. Value(Abs(left), Px(after.average)) <= Abs(left) * A
    <3>1. CASE left = 0
      <4>1. Value(Abs(left), Px(after.average)) = 0
          BY <1>4, <3>1 DEF Value, Px, Abs
      <4> QED
          BY <2>3, <4>1
    <3>2. CASE left # 0
      <4>1. Value(Abs(left), Px(after.average)) = Abs(left) * A
          BY <1>4, <3>2 DEF Value
      <4> QED
          BY <2>3, <4>1
    <3> QED
        BY <3>1, <3>2
  <2>5. Value(Abs(left), Px(after.average)) \in Int
    <3>1. Px(after.average) \in Int
        BY <1>1, <1>4 DEF Px
    <3> QED
        BY <1>5, <3>1, IntProduct DEF Value
  <2>6. MaxPosition \in Nat /\ MaxNotional \in Nat
      BY EngineAssumption
  <2> HIDE DEF A, left, before
  <2>7. WithinLimits(book) => Abs(before) <= MaxPosition /\ Abs(before) * A <= MaxNotional
      BY DEF WithinLimits, Value, A, before
  <2>8. WithinLimits(book) => Abs(left) <= MaxPosition
      BY <1>5, <2>1, <2>6, <2>7
  <2>9. WithinLimits(book) => Value(Abs(left), Px(after.average)) <= MaxNotional
      BY <2>3, <2>4, <2>5, <2>6, <2>7
  <2> QED
      BY <1>4, <2>8, <2>9 DEF WithinLimits
<1> QED
    BY <1>2, <1>4, <1>6, <1>7, <1>8 DEF after

-----------------------------------------------------------------------------
(* Trading: the invariant of the ledger, and what any method may do to it. *)

(* What a quote of the feed displays. *)
Offered(b, side) ==
    Displayed([kind |-> "bbo", bid |-> b.bid, bidSize |-> b.bidSize,
               ask |-> b.ask, askSize |-> b.askSize], side)

(* The feed shows this book. *)
Shown(quote) ==
    \E b \in Bbos : /\ quote.bid = b.bid /\ quote.bidSize = b.bidSize
                    /\ quote.ask = b.ask /\ quote.askSize = b.askSize

(* The cached book is one the feed showed. *)
QuoteSeen(e) == e.bbo # None => Shown(e.bbo)

(* No level and no print gave more than it displayed. *)
TakesOk(e) ==
    /\ \A h \in e.bookTaken :
         \E b \in Bbos : Offered(b, h.side).price = h.price /\ h.quantity <= Offered(b, h.side).size
    /\ e.tradeTaken > 0 => e.trade # None /\ e.tradeTaken <= e.trade.size

LedgerOk(e) ==
    /\ CashOk(e.book)
    /\ AverageOk(e.book)
    /\ WithinLimits(e.book)
    /\ QuoteSeen(e)
    /\ TakesOk(e)

(* What an IOC may fill on: a quote that is in the caches. *)
Known(e, quote) ==
    /\ quote.kind = "bbo" => quote = e.bbo
    /\ quote.kind = "trade" => quote = e.trade

(* No entry is working. *)
Entryless(e) == e.working # None => e.working.reduceOnly

(* The loss at the stop is within the risk budget of this cash. *)
WithinRisk(book, cash) ==
    Value(Abs(book.quantity), Abs(Px(book.average) - StopFor(book))) * 100 <= RiskPerTradePct * cash

(* What fills do to the book: none is made without a usable touch, and one *)
(* that opens a position opens it within its risk.                         *)
Booked(f, e) ==
    /\ f.fillCount >= e.fillCount
    /\ f.fillCount = e.fillCount => f.book = e.book
    /\ f.fillCount = e.fillCount + 1 /\ e.book.quantity = 0 /\ f.book.quantity # 0
         => WithinRisk(f.book, e.book.cash)
    /\ f.fillCount # e.fillCount => CurrentTouch(f) # None
    /\ LedgerOk(e) => LedgerOk(f)

(* What a method that may trade does to the engine. *)
Traded(f, e) ==
    /\ SameCache(f, e) /\ SameWindows(f, e) /\ Booked(f, e)
    /\ Entryless(e) => Entryless(f) /\ Shrunk(f.book.quantity, e.book.quantity)

(* A position that stays shrinks, and shrinking twice is shrinking. *)
LEMMA ShrunkTransitive ==
    ASSUME NEW a \in Int, NEW b \in Int, NEW c \in Int
    PROVE  /\ Shrunk(a, a)
           /\ Shrunk(b, a) /\ Shrunk(c, b) => Shrunk(c, a)
    BY DEF Shrunk, Abs, Sign

(* The ledger does not look at anything an idle method changes. *)
LEMMA IdleLedger ==
    ASSUME NEW e, NEW f, SameCache(f, e), SameLedger(f, e), LedgerOk(e)
    PROVE  LedgerOk(f)
    BY DEF SameCache, SameLedger, LedgerOk, QuoteSeen, TakesOk

(* An idle method trades nothing. *)
LEMMA IdleTraded ==
    ASSUME NEW e \in EngineState, NEW f, Idle(f, e), Entryless(e) => Entryless(f)
    PROVE  Traded(f, e)
<1>1. e.book.quantity \in Int /\ e.fillCount \in Nat
    BY DEF EngineState, Books
<1>2. f.book = e.book /\ f.fillCount = e.fillCount /\ SameCache(f, e) /\ SameWindows(f, e)
    BY DEF Idle, SameLedger
<1>3. LedgerOk(e) => LedgerOk(f)
    BY IdleLedger DEF Idle
<1>4. Shrunk(f.book.quantity, e.book.quantity)
    BY <1>1, <1>2, ShrunkTransitive
<1> QED
    BY <1>1, <1>2, <1>3, <1>4 DEF Traded, Booked

(* Two such bookings make one while the caches stay, or when only the      *)
(* second may fill.                                                        *)
LEMMA BookedTransitive ==
    ASSUME NEW e \in EngineState, NEW f \in EngineState, NEW g \in EngineState,
           Booked(f, e), Booked(g, f), SameCache(g, f) \/ f.fillCount = e.fillCount
    PROVE  Booked(g, e)
<1>1. /\ e.fillCount \in Nat /\ f.fillCount \in Nat /\ g.fillCount \in Nat
    BY DEF EngineState
<1>2. /\ g.fillCount >= e.fillCount
      /\ g.fillCount = e.fillCount => g.book = e.book
    BY <1>1 DEF Booked
<1>3. ASSUME g.fillCount = e.fillCount + 1, e.book.quantity = 0, g.book.quantity # 0
      PROVE  WithinRisk(g.book, e.book.cash)
  <2>1. f.fillCount = e.fillCount \/ g.fillCount = f.fillCount
      BY <1>1, <1>3 DEF Booked
  <2>2. CASE f.fillCount = e.fillCount
      BY <1>3, <2>2 DEF Booked
  <2>3. CASE g.fillCount = f.fillCount
      BY <1>3, <2>3 DEF Booked
  <2> QED
      BY <2>1, <2>2, <2>3
<1>4. g.fillCount # e.fillCount => CurrentTouch(g) # None
  <2>1. SameCache(g, f) => CurrentTouch(g) = CurrentTouch(f)
      BY SameCacheReads
  <2> QED
      BY <2>1 DEF Booked
<1>5. LedgerOk(e) => LedgerOk(g)
    BY DEF Booked
<1> QED
    BY <1>2, <1>3, <1>4, <1>5 DEF Booked

(* Two methods that may trade make one. *)
LEMMA TradedTransitive ==
    ASSUME NEW e \in EngineState, NEW f \in EngineState, NEW g \in EngineState,
           Traded(f, e), Traded(g, f)
    PROVE  Traded(g, e)
<1>1. e.book.quantity \in Int /\ f.book.quantity \in Int /\ g.book.quantity \in Int
    BY DEF EngineState, Books
<1>2. SameCache(g, e) /\ SameWindows(g, e)
    BY DEF Traded, SameCache, SameWindows
<1>3. Booked(g, e)
    BY BookedTransitive DEF Traded
<1>4. Entryless(e) => Entryless(g) /\ Shrunk(g.book.quantity, e.book.quantity)
    BY <1>1, ShrunkTransitive DEF Traded
<1> QED
    BY <1>2, <1>3, <1>4 DEF Traded

(* Updating the stop is idle. *)
LEMMA UpdateStopIdle ==
    ASSUME NEW e \in EngineState, NEW before
    PROVE  Idle(UpdateStopAfterFill(e, before), e)
<1> DEFINE stop == StopFor(e.book)
           z == [e EXCEPT !.stop = None, !.stopSetTradeCount = None,
                          !.stopExitPending = FALSE, !.exitWaiting = FALSE]
           s == [e EXCEPT !.stop = stop, !.stopSetTradeCount = e.tradeCount]
<1>1. UpdateStopAfterFill(e, before) \in {z, s, e}
    BY DEF UpdateStopAfterFill
<1> HIDE DEF stop
<1>2. Idle(z, e)
    BY DEF EngineState, Idle, SameCache, SameLedger, SameWindows
<1>3. Idle(s, e)
    BY DEF EngineState, Idle, SameCache, SameLedger, SameWindows
<1> HIDE DEF z, s
<1> QED
    BY <1>1, <1>2, <1>3, IdleReflexive

(* Every field a fill writes. *)
LEMMA CompleteFilledFields ==
    ASSUME NEW e \in EngineState, NEW quote \in Touches, NEW fill \in Fills, NEW ns \in Nat
    PROVE  LET r    == CompleteFilled(e, quote, fill, ns)
               hold == [side |-> fill.side, price |-> Displayed(quote, fill.side).price,
                        quantity |-> fill.quantity + TakenFrom(e, quote, fill.side, ns),
                        until |-> ns + TouchRefill]
           IN  /\ SameCache(r, e) /\ SameWindows(r, e)
               /\ r.book = ApplyFill(e.book, fill) /\ r.fillCount = e.fillCount + 1
               /\ r.stopLockout = e.stopLockout /\ r.working = None
               /\ quote.kind = "trade" => /\ r.tradeTaken = e.tradeTaken + fill.quantity
                                          /\ r.bookTaken = e.bookTaken
               /\ quote.kind # "trade" => /\ r.tradeTaken = e.tradeTaken
                                          /\ r.bookTaken \subseteq e.bookTaken \cup {hold}
                                          /\ hold \in r.bookTaken
                                          /\ \A h \in e.bookTaken \ r.bookTaken :
                                               \/ h.until <= ns
                                               \/ h.side = hold.side /\ h.price = hold.price
<1> DEFINE book   == ApplyFill(e.book, fill)
           count  == e.fillCount + 1
           paid   == [e EXCEPT !.book = book, !.fillCount = count]
           price  == Displayed(quote, fill.side).price
           hold   == [side |-> fill.side, price |-> price,
                      quantity |-> fill.quantity + TakenFrom(e, quote, fill.side, ns),
                      until |-> ns + TouchRefill]
           applied == TakeTouch(paid, quote, fill.side, fill.quantity, ns)
           n      == applied.orderCount + 1
           done   == [applied EXCEPT !.working = None, !.orderCount = n, !.missingFlatten = FALSE]
           r      == UpdateStopAfterFill(done, e.book.quantity)
<1>1. CompleteFilled(e, quote, fill, ns) = r
    BY DEF CompleteFilled
<1>2. book \in Books /\ count \in Nat
    BY ApplyFillType DEF EngineState
<1> HIDE DEF book, count
<1>3. paid \in EngineState
    BY <1>2, SetFilledType
<1>4. /\ SameCache(paid, e) /\ SameWindows(paid, e)
      /\ paid.book = book /\ paid.fillCount = count
      /\ paid.tradeTaken = e.tradeTaken /\ paid.bookTaken = e.bookTaken
      /\ paid.stopLockout = e.stopLockout
    BY DEF EngineState, SameCache, SameWindows
<1> HIDE DEF paid
<1>5. TakenFrom(paid, quote, fill.side, ns) = TakenFrom(e, quote, fill.side, ns)
    BY <1>4 DEF TakenFrom, HeldBack
<1>6. applied \in EngineState
    BY <1>3, TakeTouchType DEF Fills
<1>7. /\ SameCache(applied, paid) /\ SameWindows(applied, paid)
      /\ applied.book = paid.book /\ applied.fillCount = paid.fillCount
      /\ applied.stopLockout = paid.stopLockout
      /\ quote.kind = "trade" => /\ applied.tradeTaken = paid.tradeTaken + fill.quantity
                                 /\ applied.bookTaken = paid.bookTaken
      /\ quote.kind # "trade" => /\ applied.tradeTaken = paid.tradeTaken
                                 /\ applied.bookTaken \subseteq paid.bookTaken \cup {hold}
                                 /\ hold \in applied.bookTaken
                                 /\ \A h \in paid.bookTaken \ applied.bookTaken :
                                      \/ h.until <= ns
                                      \/ h.side = hold.side /\ h.price = hold.price
  <2> DEFINE kept == {h \in paid.bookTaken :
                        h.until > ns /\ ~(h.side = fill.side /\ h.price = price)}
             all  == kept \cup {hold}
             taken == paid.tradeTaken + fill.quantity
  <2>1. applied = IF quote.kind = "trade" THEN [paid EXCEPT !.tradeTaken = taken]
                  ELSE [paid EXCEPT !.bookTaken = all]
      BY <1>5 DEF TakeTouch
  <2>2. /\ all \subseteq paid.bookTaken \cup {hold} /\ hold \in all
        /\ \A h \in paid.bookTaken \ all :
             h.until <= ns \/ (h.side = hold.side /\ h.price = hold.price)
    <3>1. \A h \in paid.bookTaken : h.until \in Nat
        BY <1>3 DEF EngineState, Holds
    <3> QED
        BY <3>1
  <2> HIDE DEF all, taken, hold, applied
  <2>3. CASE quote.kind = "trade"
    <3>1. applied = [paid EXCEPT !.tradeTaken = taken]
        BY <2>1, <2>3
    <3> QED
        BY <1>3, <2>3, <3>1 DEF EngineState, SameCache, SameWindows, taken
  <2>4. CASE quote.kind # "trade"
    <3>1. applied = [paid EXCEPT !.bookTaken = all]
        BY <2>1, <2>4
    <3> QED
        BY <1>3, <2>2, <2>4, <3>1 DEF EngineState, SameCache, SameWindows
  <2> QED
      BY <2>3, <2>4
<1> HIDE DEF applied, hold
<1>8. n \in Nat
    BY <1>6 DEF EngineState
<1>9. done \in EngineState
    BY <1>6, <1>8, SetDoneType
<1>10. /\ SameCache(done, applied) /\ SameWindows(done, applied) /\ SameLedger(done, applied)
       /\ done.stopLockout = applied.stopLockout /\ done.working = None
    BY <1>6 DEF EngineState, SameCache, SameWindows, SameLedger
<1> HIDE DEF done
<1>11. Idle(r, done) /\ r.stopLockout = done.stopLockout /\ r.working = done.working
  <2>1. e.book.quantity \in Int
      BY DEF EngineState, Books
  <2> QED
      BY <1>9, <2>1, UpdateStopIdle, UpdateStopType
<1> HIDE DEF r
<1>12. SameCache(r, e) /\ SameWindows(r, e)
    BY <1>4, <1>7, <1>10, <1>11 DEF Idle, SameCache, SameWindows
<1>13. SameLedger(r, applied) /\ r.stopLockout = e.stopLockout /\ r.working = None
    BY <1>4, <1>7, <1>10, <1>11 DEF Idle, SameLedger
<1> QED
    BY <1>1, <1>4, <1>7, <1>12, <1>13 DEF SameLedger, book, count, hold

(* The loss at the stop is the notional times the stop distance. *)
LEMMA LossAtStop ==
    ASSUME NEW book \in Books
    PROVE  Value(Abs(book.quantity), Abs(Px(book.average) - StopFor(book))) * 100
             = Value(Abs(book.quantity), Px(book.average)) * StopPct
<1> DEFINE p == book.average
           q == Abs(book.quantity)
           d == Abs(Px(p) - StopFor(book))
<1>1. p \in Nat /\ q \in Nat /\ StopPct \in Nat
    BY RiskAssumption DEF Books, Abs
<1>2. p * StopPct \in Nat
    BY <1>1, NatProduct
<1>3. StopFor(book) = 200 * p - 2 * (p * StopPct) \/ StopFor(book) = 200 * p + 2 * (p * StopPct)
  <2> HIDE DEF p
  <2>1. 2 * p * (100 - StopPct) = 200 * p - 2 * (p * StopPct)
      BY <1>1
  <2>2. 2 * p * (100 + StopPct) = 200 * p + 2 * (p * StopPct)
      BY <1>1
  <2> QED
      BY <2>1, <2>2 DEF StopFor, p
<1>4. d = 2 * (p * StopPct)
  <2> DEFINE x == p * StopPct
             y == 200 * p
  <2>1. Px(p) = y /\ x \in Nat /\ y \in Nat
      BY <1>1, <1>2 DEF Px
  <2>2. StopFor(book) = y - 2 * x \/ StopFor(book) = y + 2 * x
      BY <1>3
  <2> HIDE DEF x, y
  <2>3. d = 2 * x
      BY <2>1, <2>2 DEF Abs
  <2> QED
      BY <2>3 DEF x
<1> HIDE DEF d
<1>5. (q * (2 * (p * StopPct))) * 100 = (q * (200 * p)) * StopPct
  <2> HIDE DEF p, q
  <2> QED
      BY <1>1
<1> QED
    BY <1>4, <1>5 DEF Value, Px, d

(* An entry the risk check lets pass on a flat book risks no more at its   *)
(* stop than the budget of the cash (risk_based_size).                     *)
LEMMA RiskBlockEntry ==
    ASSUME NEW e \in EngineState, e.book.quantity = 0, NEW side \in Sides,
           NEW quantity \in Nat, NEW px \in Nat \ {0},
           RiskBlock(e, side, quantity, px, FALSE, 0) = None
    PROVE  Value(quantity, px) * StopPct <= e.book.cash * RiskPerTradePct
<1> DEFINE position == e.book.quantity
           owned    == PositionReasons(position, 0, side, quantity, FALSE)
           equity   == RiskEquity(e, px, FALSE)
           peak     == MaxOf(e.peak, equity)
           hard     == HardLimitReasons(position, 0, equity, peak, e.dailyPnl, e.weeklyPnl,
                                        side, quantity, FALSE, px)
           gates    == EntryGates(position, equity, peak, e.dailyPnl, e.weeklyPnl,
                                  side, quantity, px)
           r1 == [reason |-> "paper_risk", detail |-> owned]
           r2 == [reason |-> "missing_price", detail |-> {"equity"}]
           r3 == [reason |-> "non_positive_equity", detail |-> {}]
           r4 == [reason |-> "paper_risk", detail |-> hard]
<1>1. equity = e.book.cash
    BY DEF RiskEquity, Equity, EquityAt
<1>2. owned \in SUBSET Details /\ hard \in SUBSET Details
    BY PositionReasonsType, HardLimitReasonsType DEF Details
<1>3. RiskBlock(e, side, quantity, px, FALSE, 0)
        = IF owned # {} THEN r1
          ELSE IF equity = None THEN r2
          ELSE IF equity <= 0 THEN r3
          ELSE IF hard # {} THEN r4 ELSE None
    BY DEF RiskBlock, RiskBlockAt, RiskRefusal
<1>4. /\ "risk_based_size" \in DOMAIN gates
      /\ gates["risk_based_size"] = (Value(quantity, px) * StopPct > equity * RiskPerTradePct)
    BY DEF EntryGates
<1>5. hard = {} => ~gates["risk_based_size"]
  <2> HIDE DEF gates, equity, peak
  <2> QED
      BY <1>4 DEF HardLimitReasons, Failing, gates
<1> HIDE DEF owned, equity, hard, gates
<1>6. r1 # None /\ r2 # None /\ r3 # None /\ r4 # None
    BY <1>2, RefusalType DEF Reasons, Details
<1> HIDE DEF r1, r2, r3, r4
<1>7. hard = {}
    BY <1>3, <1>6
<1>8. ~(Value(quantity, px) * StopPct > equity * RiskPerTradePct)
    BY <1>4, <1>5, <1>7
<1>9. Value(quantity, px) * StopPct \in Int /\ e.book.cash * RiskPerTradePct \in Int
  <2>1. e.book.cash \in Int /\ RiskPerTradePct \in Int /\ StopPct \in Int
      BY RiskAssumption DEF EngineState, Books
  <2>2. Value(quantity, px) \in Int
      BY IntProduct DEF Value
  <2> QED
      BY <2>1, <2>2, IntProduct
<1> QED
    BY <1>1, <1>8, <1>9

(* An entry that passes the checks at its fill opens a position within the *)
(* hard limits and the risk budget (_entry_fill_allows).                   *)
LEMMA EntryFillWithin ==
    ASSUME NEW e \in EngineState, e.book.quantity = 0, NEW fill \in Fills,
           EntryFillBlock(e, fill) = None
    PROVE  LET after == ApplyFill(e.book, fill)
           IN  WithinLimits(after) /\ WithinRisk(after, e.book.cash)
<1> DEFINE signed == Signed(fill.side, fill.quantity)
           after == ApplyFill(e.book, fill)
           P == Px(fill.price)
           r1 == [reason |-> "max_position", detail |-> {"entry fill"}]
           r2 == [reason |-> "max_notional", detail |-> {"entry fill"}]
           risk == RiskBlock(e, fill.side, fill.quantity, P, FALSE, 0)
<1>1. fill.quantity \in Nat \ {0} /\ fill.price \in Nat \ {0} /\ fill.side \in Sides
      /\ e.book \in Books
    BY DEF Fills, EngineState
<1>2. P \in Nat \ {0}
    BY <1>1 DEF Px
<1>3. Abs(e.book.quantity + signed) = fill.quantity
    BY <1>1 DEF Signed, Abs
<1>4. EntryFillBlock(e, fill) = IF fill.quantity > MaxPosition THEN r1
                                ELSE IF Value(fill.quantity, P) > MaxNotional THEN r2
                                ELSE risk
    BY <1>3 DEF EntryFillBlock
<1>5. r1 # None /\ r2 # None
    BY RefusalType DEF Reasons, EntryReasons, Details
<1> HIDE DEF r1, r2, risk
<1>6. ~(fill.quantity > MaxPosition) /\ ~(Value(fill.quantity, P) > MaxNotional) /\ risk = None
    BY <1>4, <1>5
<1>7. Abs(after.quantity) = fill.quantity /\ after.average = fill.price /\ after \in Books
    BY <1>1, ApplyFillOpens, ApplyFillType
<1> HIDE DEF after
<1>8. Value(fill.quantity, P) \in Nat /\ MaxNotional \in Nat /\ MaxPosition \in Nat
    BY <1>1, <1>2, NatProduct, EngineAssumption DEF Value
<1>9. WithinLimits(after)
    BY <1>1, <1>6, <1>7, <1>8 DEF WithinLimits
<1>10. Value(fill.quantity, P) * StopPct <= e.book.cash * RiskPerTradePct
    BY <1>1, <1>2, <1>6, RiskBlockEntry DEF risk
<1>11. e.book.cash * RiskPerTradePct = RiskPerTradePct * e.book.cash
    BY <1>1, RiskAssumption DEF Books
<1>12. WithinRisk(after, e.book.cash)
    BY <1>7, <1>10, <1>11, LossAtStop DEF WithinRisk
<1> QED
    BY <1>9, <1>12 DEF after

(* A method that may trade leaves the stop's lockout alone. *)
Dealt(f, e) == Traded(f, e) /\ f.stopLockout = e.stopLockout

(* An idle method that keeps the lockout deals in nothing. *)
LEMMA IdleDealt ==
    ASSUME NEW e \in EngineState, NEW f, Idle(f, e), Entryless(e) => Entryless(f),
           f.stopLockout = e.stopLockout
    PROVE  Dealt(f, e)
    BY IdleTraded DEF Dealt

(* Two dealings make one. *)
LEMMA DealtTransitive ==
    ASSUME NEW e \in EngineState, NEW f \in EngineState, NEW g \in EngineState,
           Dealt(f, e), Dealt(g, f)
    PROVE  Dealt(g, e)
    BY TradedTransitive DEF Dealt

(* A fill never takes more than the size it is quoted (quote_taker_fill).  *)
LEMMA FillWithinSize ==
    ASSUME NEW side \in Sides, NEW quantity \in Nat, NEW price \in Prices, NEW size \in Nat,
           QuoteTakerFill(side, quantity, price, size) # None
    PROVE  QuoteTakerFill(side, quantity, price, size).quantity <= size
<1> DEFINE room == IF quantity < size THEN quantity ELSE size
<1>1. room \in Nat /\ room <= size
    OBVIOUS
<1>2. FloorSize(room) <= room /\ FloorSize(room) \in Nat
    BY <1>1, FloorSizeDown
<1>3. QuoteTakerFill(side, quantity, price, size).quantity = FloorSize(room)
    BY DEF QuoteTakerFill
<1> HIDE DEF room
<1> QED
    BY <1>1, <1>2, <1>3

(* A known fresh touch is still a touch after the fill. *)
LEMMA KnownTouch ==
    ASSUME NEW e \in EngineState, NEW quote \in Touches, Known(e, quote),
           SourceIsFresh(e, quote.ns)
    PROVE  CurrentTouch(e) # None
<1>1. e.bbo # None <=> e.bbo \in BboEvents
    BY NoneAssumption DEF EngineState
<1>2. e.trade # None <=> e.trade \in TradeEvents
    BY NoneAssumption DEF EngineState
<1>3. CASE quote \in TradeEvents
  <2>1. quote.kind = "trade"
      BY <1>3 DEF TradeEvents
  <2>2. TradeFresh(e) /\ e.trade # None
      BY <1>2, <1>3, <2>1 DEF Known, TradeFresh
  <2> QED
      BY <2>2 DEF CurrentTouch, BookComplete
<1>4. CASE quote \in BboEvents /\ BboIsComplete(quote)
  <2>1. quote.kind = "bbo"
      BY <1>4 DEF BboEvents
  <2>2. BookComplete(e) /\ e.bbo # None
      BY <1>1, <1>4, <2>1 DEF Known, BookComplete
  <2> QED
      BY <2>2 DEF CurrentTouch
<1> QED
    BY <1>3, <1>4 DEF Touches

(* What a fill takes was displayed and not yet taken. *)
LEMMA FillTakesOk ==
    ASSUME NEW e \in EngineState, NEW quote \in Touches, Known(e, quote), NEW fill \in Fills,
           NEW ns \in Nat, fill.quantity <= Available(e, quote, fill.side, ns),
           QuoteSeen(e), TakesOk(e)
    PROVE  TakesOk(CompleteFilled(e, quote, fill, ns))
<1> DEFINE r     == CompleteFilled(e, quote, fill, ns)
           d     == Displayed(quote, fill.side)
           taken == TakenFrom(e, quote, fill.side, ns)
           hold  == [side |-> fill.side, price |-> d.price,
                     quantity |-> fill.quantity + taken, until |-> ns + TouchRefill]
<1>1. fill.quantity \in Nat \ {0} /\ d.size \in Nat /\ taken \in Nat
    BY DisplayedType, TakenFromType DEF Fills
<1>2. fill.quantity + taken <= d.size
  <2>1. fill.quantity <= MaxOf(d.size - taken, 0)
      BY DEF Available
  <2> HIDE DEF d, taken
  <2> QED
      BY <1>1, <2>1 DEF MaxOf
<1>3. /\ SameCache(r, e)
      /\ quote.kind = "trade" => /\ r.tradeTaken = e.tradeTaken + fill.quantity
                                 /\ r.bookTaken = e.bookTaken
      /\ quote.kind # "trade" => /\ r.tradeTaken = e.tradeTaken
                                 /\ r.bookTaken \subseteq e.bookTaken \cup {hold}
    BY CompleteFilledFields
<1> HIDE DEF r
<1>4. CASE quote \in TradeEvents
  <2>1. quote.kind = "trade" /\ quote # None
      BY <1>4, NoneAssumption DEF TradeEvents
  <2>2. taken = e.tradeTaken /\ d.size = quote.size
      BY <2>1 DEF TakenFrom, Displayed
  <2>3. r.trade = quote /\ r.tradeTaken <= quote.size /\ r.bookTaken = e.bookTaken
      BY <1>1, <1>2, <1>3, <2>1, <2>2 DEF Known, SameCache
  <2> QED
      BY <2>1, <2>3 DEF TakesOk, r
<1>5. CASE quote \in BboEvents
  <2>1. quote.kind = "bbo" /\ quote # None
      BY <1>5, NoneAssumption DEF BboEvents
  <2>2. PICK b \in Bbos : /\ quote.bid = b.bid /\ quote.bidSize = b.bidSize
                          /\ quote.ask = b.ask /\ quote.askSize = b.askSize
      BY <2>1 DEF QuoteSeen, Shown, Known
  <2>3. Offered(b, fill.side) = d
      BY <2>1, <2>2 DEF Offered, Displayed
  <2>4. hold.side = fill.side /\ hold.price = d.price /\ hold.quantity = fill.quantity + taken
      OBVIOUS
  <2>5. r.tradeTaken = e.tradeTaken /\ r.trade = e.trade
        /\ r.bookTaken \subseteq e.bookTaken \cup {hold}
      BY <1>3, <2>1 DEF SameCache
  <2> HIDE DEF hold, d, taken
  <2>6. Offered(b, hold.side).price = hold.price /\ hold.quantity <= Offered(b, hold.side).size
      BY <1>2, <2>3, <2>4
  <2> QED
      BY <2>5, <2>6 DEF TakesOk, r
<1> QED
    BY <1>4, <1>5 DEF Touches

(* A fill keeps the ledger, opens a position within its risk and the hard  *)
(* limits, and an exit only shrinks the position (_complete_ioc).          *)
LEMMA CompleteFilledDealt ==
    ASSUME NEW e, Sound(e), e.working \in WorkingOrders, NEW quote \in Touches,
           Known(e, quote), SourceIsFresh(e, quote.ns),
           NEW fill \in Fills, fill.side = e.working.side, fill.quantity <= e.working.quantity,
           NEW ns \in Nat, fill.quantity <= Available(e, quote, fill.side, ns),
           FillBlock(e, fill) = None
    PROVE  Dealt(CompleteFilled(e, quote, fill, ns), e)
<1> DEFINE r == CompleteFilled(e, quote, fill, ns)
           after == ApplyFill(e.book, fill)
<1>1. e \in EngineState /\ e.book \in Books /\ e.fillCount \in Nat
    BY DEF Sound, EngineState
<1>2. e.book.quantity \in Int /\ fill.quantity \in Nat \ {0} /\ e.working # None
      /\ e.working.quantity \in Nat /\ e.working.reduceOnly \in BOOLEAN
    BY <1>1, NoneAssumption DEF Books, Fills, WorkingOrders
<1>3. /\ SameCache(r, e) /\ SameWindows(r, e)
      /\ r.book = after /\ r.fillCount = e.fillCount + 1
      /\ r.stopLockout = e.stopLockout /\ r.working = None
    BY <1>1, CompleteFilledFields
<1>4. CurrentTouch(r) # None
  <2>1. CurrentTouch(r) = CurrentTouch(e)
      BY <1>3, SameCacheReads
  <2> QED
      BY <1>1, <2>1, KnownTouch
<1>5. e.working.reduceOnly => Opposes(fill.side, e.book.quantity)
                              /\ fill.quantity <= Abs(e.book.quantity)
  <2>1. Abs(e.book.quantity) \in Nat
      BY <1>2 DEF Abs
  <2> QED
      BY <1>2, <2>1 DEF Sound, WorkOk
<1>6. e.working.reduceOnly => /\ Shrunk(after.quantity, e.book.quantity)
                              /\ AverageOk(e.book) => AverageOk(after)
                              /\ CashOk(e.book) => CashOk(after)
                              /\ WithinLimits(e.book) => WithinLimits(after)
    BY <1>1, <1>5, ApplyFillExits
<1>7. ~e.working.reduceOnly => /\ e.book.quantity = 0
                               /\ AverageOk(after)
                               /\ CashOk(e.book) => CashOk(after)
                               /\ WithinLimits(after) /\ WithinRisk(after, e.book.cash)
  <2>1. ~e.working.reduceOnly => e.book.quantity = 0 /\ EntryFillBlock(e, fill) = None
      BY <1>2 DEF Sound, WorkOk, FillBlock
  <2> QED
      BY <1>1, <2>1, ApplyFillOpens, EntryFillWithin
<1>8. e.book.quantity = 0 => WithinRisk(after, e.book.cash)
  <2>1. e.working.reduceOnly => e.book.quantity # 0
      BY <1>2, <1>5 DEF Opposes
  <2> QED
      BY <1>7, <2>1
<1>9. LedgerOk(e) => LedgerOk(r)
  <2>1. LedgerOk(e) => TakesOk(r)
      BY <1>1, FillTakesOk DEF LedgerOk
  <2>2. LedgerOk(e) => QuoteSeen(r)
      BY <1>3 DEF LedgerOk, QuoteSeen, SameCache
  <2>3. LedgerOk(e) => CashOk(after) /\ AverageOk(after) /\ WithinLimits(after)
      BY <1>2, <1>6, <1>7 DEF LedgerOk
  <2> HIDE DEF r, after
  <2> QED
      BY <1>3, <2>1, <2>2, <2>3 DEF LedgerOk
<1> HIDE DEF r, after
<1>10. Entryless(e) => Entryless(r) /\ Shrunk(r.book.quantity, e.book.quantity)
    BY <1>2, <1>3, <1>6 DEF Entryless
<1>11. Traded(r, e)
    BY <1>1, <1>3, <1>4, <1>8, <1>9, <1>10 DEF Traded, Booked
<1> QED
    BY <1>3, <1>11 DEF Dealt, r

(* The risk check of a fill answers a refusal, or nothing (_quote). *)
LEMMA FillBlockType ==
    ASSUME NEW e \in EngineState, e.working \in WorkingOrders, NEW fill \in Fills
    PROVE  FillBlock(e, fill) \in Refusals \cup {None}
<1>1. /\ fill.side \in Sides /\ fill.quantity \in Nat /\ Px(fill.price) \in Nat \ {0}
      /\ e.working.quantity \in Nat
    BY DEF Fills, Px, WorkingOrders
<1>2. RiskBlock(e, fill.side, e.working.quantity, Px(fill.price), TRUE, 0) \in Refusals \cup {None}
    BY <1>1, RiskBlockType
<1>3. RiskBlock(e, fill.side, fill.quantity, Px(fill.price), FALSE, 0) \in Refusals \cup {None}
    BY <1>1, RiskBlockType
<1>4. /\ [reason |-> "max_position", detail |-> {"entry fill"}] \in Refusals
      /\ [reason |-> "max_notional", detail |-> {"entry fill"}] \in Refusals
    BY DEF Refusals, Reasons, EntryReasons, Details
<1>5. EntryFillBlock(e, fill) \in Refusals \cup {None}
    BY <1>3, <1>4 DEF EntryFillBlock
<1> QED
    BY <1>2, <1>5 DEF FillBlock

(* A completed order that did not fill deals in nothing. *)
LEMMA CompleteUnfilledDealt ==
    ASSUME NEW e \in EngineState, NEW unfilled
    PROVE  Dealt(CompleteUnfilled(e, unfilled), e)
<1>1. CompleteUnfilled(e, unfilled).working = None
    BY DEF CompleteUnfilled, EngineState
<1> QED
    BY <1>1, CompleteUnfilledIdle, IdleDealt DEF Entryless

(* _fill_against trades at most what the known quote still shows. *)
LEMMA FillAgainstDealt ==
    ASSUME NEW e, Sound(e), e.working # None, NEW ns \in Nat,
           NEW quote, quote \in Touches \/ (quote.kind = "bbo" /\ ~BboIsComplete(quote)),
           Known(e, quote)
    PROVE  Dealt(FillAgainst(e, quote, ns), e)
<1> DEFINE w     == e.working
           touch == Displayed(quote, w.side)
           left  == Available(e, quote, w.side, ns)
           fill  == QuoteTakerFill(w.side, w.quantity, touch.price, left)
           block == FillBlock(e, fill)
           asked == [side |-> w.side, reduceOnly |-> w.reduceOnly, quantity |-> w.desired]
           refused == Reject(e, block.reason, block.detail, asked)
           r == FillAgainst(e, quote, ns)
<1>1. e \in EngineState /\ w \in WorkingOrders
    BY DEF Sound, EngineState
<1>2. \A unfilled : Dealt(CompleteUnfilled(e, unfilled), e)
    BY <1>1, CompleteUnfilledDealt
<1>3. CASE ~SourceIsFresh(e, quote.ns)
    BY <1>2, <1>3 DEF FillAgainst
<1>4. CASE SourceIsFresh(e, quote.ns) /\ quote.kind = "bbo" /\ ~BboIsComplete(quote)
    BY <1>2, <1>4 DEF FillAgainst
<1>5. CASE SourceIsFresh(e, quote.ns) /\ ~(quote.kind = "bbo" /\ ~BboIsComplete(quote))
  <2>1. quote \in Touches
      BY <1>5
  <2>2. touch.price \in Prices /\ left \in Nat
      BY <1>1, <2>1, DisplayedType, AvailableType
  <2>3. w.side \in Sides /\ w.quantity \in Nat /\ w.reduceOnly \in BOOLEAN /\ w.desired \in Nat \ {0}
      BY <1>1 DEF WorkingOrders
  <2> HIDE DEF w, touch, left
  <2>4. fill # None => /\ fill \in Fills /\ fill.side = w.side
                       /\ fill.quantity <= w.quantity /\ fill.quantity <= left
      BY <2>2, <2>3, QuoteTakerFillType, FillWithinSize
  <2> HIDE DEF fill
  <2>5. ASSUME fill # None, block # None
        PROVE  Dealt(CompleteUnfilled(refused, "risk_rejected"), e)
    <3>1. block \in Refusals
        BY <1>1, <2>4, <2>5, FillBlockType DEF w
    <3>2. block.reason \in Reasons /\ block.detail \in SUBSET Details
        BY <3>1 DEF Refusals
    <3> HIDE DEF block
    <3>3. asked \in DesiredOrders
        BY <2>3 DEF DesiredOrders
    <3> HIDE DEF asked
    <3>4. /\ refused \in EngineState /\ Idle(refused, e)
          /\ refused.working = e.working /\ refused.stopLockout = e.stopLockout
        BY <1>1, <3>2, <3>3, RejectType, RejectIdle DEF SameTrading
    <3> HIDE DEF refused
    <3>5. Dealt(refused, e)
        BY <1>1, <3>4, IdleDealt DEF Entryless
    <3>6. Dealt(CompleteUnfilled(refused, "risk_rejected"), refused)
        BY <3>4, CompleteUnfilledDealt
    <3>7. CompleteUnfilled(refused, "risk_rejected") \in EngineState
      <4>1. Sound(refused) /\ refused.working # None
        <5>1. SameTrading(Reject(e, block.reason, block.detail, asked), e)
            BY <1>1, <3>2, <3>3, RejectType
        <5> QED
            BY <3>4, <5>1, SameTradingSound DEF refused
      <4> QED
          BY <4>1, CompleteUnfilledSound DEF Completed, Sound
    <3> QED
        BY <1>1, <3>4, <3>5, <3>6, <3>7, DealtTransitive
  <2>6. ASSUME fill # None, block = None PROVE Dealt(CompleteFilled(e, quote, fill, ns), e)
      BY <1>1, <1>5, <2>1, <2>4, <2>6, CompleteFilledDealt DEF w, left, block
  <2>7. r = IF QuoteUsedUp(e, quote, w.side, ns) THEN CompleteUnfilled(e, "touch_consumed")
            ELSE IF fill = None THEN CompleteUnfilled(e, "no_touch")
            ELSE IF BeyondLimit(w.side, fill.price, w.limit)
              THEN CompleteUnfilled(e, "price_band")
            ELSE IF block # None THEN CompleteUnfilled(refused, "risk_rejected")
            ELSE CompleteFilled(e, quote, fill, ns)
      BY <1>5 DEF FillAgainst, FillAtQuote, QuotedFill, FillOrRefuse, w, touch, left, fill
  <2> HIDE DEF r, block, refused
  <2>8. Dealt(r, e)
      BY <1>2, <2>5, <2>6, <2>7
  <2> QED
      BY <2>8 DEF r
<1> QED
    BY <1>3, <1>4, <1>5

(* The usable touch is one of the cached quotes. *)
LEMMA CurrentTouchKnown ==
    ASSUME NEW e \in EngineState, CurrentTouch(e) # None
    PROVE  Known(e, CurrentTouch(e))
<1>1. BookComplete(e) => e.bbo.kind = "bbo"
    BY DEF BookComplete, EngineState, BboEvents
<1>2. TradeFresh(e) => e.trade.kind = "trade"
    BY DEF TradeFresh, EngineState, TradeEvents
<1> QED
    BY <1>1, <1>2 DEF CurrentTouch, Known

(* _fill_working_from_book. *)
LEMMA FillWorkingFromBookDealt ==
    ASSUME NEW e, Sound(e), NEW ns \in Nat
    PROVE  Dealt(FillWorkingFromBook(e, ns), e)
<1> DEFINE missing == e.working.reduceOnly /\ e.book.quantity # 0
           m == [e EXCEPT !.missingFlatten = missing]
           r == FillWorkingFromBook(e, ns)
<1>1. e \in EngineState
    BY DEF Sound
<1>2. CASE e.working = None \/ ns < e.working.eligible
  <2>1. r = e
      BY <1>2 DEF FillWorkingFromBook
  <2> QED
      BY <1>1, <2>1, IdleReflexive, IdleDealt
<1>3. CASE ~(e.working = None \/ ns < e.working.eligible) /\ CurrentTouch(e) = None
  <2>1. r = m
      BY <1>3 DEF FillWorkingFromBook
  <2> HIDE DEF missing, r
  <2>2. Idle(m, e) /\ m.working = e.working /\ m.stopLockout = e.stopLockout
      BY <1>1, FlagsIdle DEF EngineState
  <2> HIDE DEF m
  <2>3. Dealt(m, e)
      BY <1>1, <2>2, IdleDealt DEF Entryless
  <2> QED
      BY <2>1, <2>3 DEF r
<1>4. CASE ~(e.working = None \/ ns < e.working.eligible) /\ CurrentTouch(e) # None
  <2>1. CurrentTouch(e) \in Touches /\ Known(e, CurrentTouch(e))
      BY <1>1, <1>4, CurrentTouchType, CurrentTouchKnown
  <2>2. r = FillAgainst(e, CurrentTouch(e), ns)
      BY <1>4 DEF FillWorkingFromBook
  <2> QED
      BY <1>4, <2>1, <2>2, FillAgainstDealt
<1> QED
    BY <1>2, <1>3, <1>4

(* _try_fill on the event that was just cached. *)
LEMMA TryFillDealt ==
    ASSUME NEW e, Sound(e), NEW ev \in MarketEvents, Known(e, ev)
    PROVE  Dealt(TryFill(e, ev), e)
<1> DEFINE tries == /\ e.working # None
                    /\ ev.ns >= e.working.eligible
                    /\ ev.kind = "bbo" \/ (ev.kind = "trade" /\ ~BookComplete(e))
<1>1. ev.ns \in Nat
    BY DEF MarketEvents, BboEvents, TradeEvents
<1>2. CASE tries
  <2>1. ev \in BboEvents \/ ev \in TradeEvents
      BY <1>2 DEF MarketEvents
  <2>2. ev \in BboEvents => ev.kind = "bbo"
      BY DEF BboEvents
  <2>3. ev \in Touches \/ (ev.kind = "bbo" /\ ~BboIsComplete(ev))
      BY <2>1, <2>2 DEF Touches
  <2>4. Dealt(FillAgainst(e, ev, ev.ns), e)
      BY <1>1, <1>2, <2>3, FillAgainstDealt
  <2> QED
      BY <1>2, <2>4 DEF TryFill
<1>3. CASE ~tries
    BY <1>3, IdleReflexive, IdleDealt DEF TryFill, Sound
<1> QED
    BY <1>2, <1>3

(* _submit_desired leaves the old order, none, or the one it was asked for. *)
LEMMA SubmitDesiredWorks ==
    ASSUME NEW e \in EngineState, NEW desired \in DesiredOrders \cup {None}, NEW ns, NEW reason,
           NEW immediate, NEW onDecisionQuote
    PROVE  LET r == SubmitDesired(e, desired, ns, reason, immediate, onDecisionQuote)
           IN  r.working \in {None, e.working} \/ r.working.reduceOnly = desired.reduceOnly
<1> DEFINE r     == SubmitDesired(e, desired, ns, reason, immediate, onDecisionQuote)
           clear == [e EXCEPT !.lastBlock = None]
           free  == CancelWorking(e)
           block == SubmitBlock(free, desired, ns, reason, onDecisionQuote)
           flagged == FlagMissing(free, desired)
           refused == Reject(flagged, block.reason, block.detail, desired)
           accepted == AcceptOrder(free, desired, ns, immediate)
<1>1. \/ r = CancelWorking(clear)
      \/ r \in {e, refused, accepted}
    BY DEF SubmitDesired, Submit
<1> HIDE DEF r, block
<1>2. CancelWorking(clear).working = None
    BY DEF CancelWorking, EngineState
<1>3. refused.working = None
    BY DEF Reject, FlagMissing, CancelWorking, EngineState
<1>4. accepted.working.reduceOnly = desired.reduceOnly
    BY DEF AcceptOrder, CancelWorking, EngineState
<1> HIDE DEF clear, refused, accepted
<1> QED
    BY <1>1, <1>2, <1>3, <1>4 DEF r

(* Submitting a reduction deals in nothing. *)
LEMMA SubmitExitDealt ==
    ASSUME NEW e, Sound(e), NEW desired \in DesiredOrders, desired.reduceOnly, NEW ns \in Nat,
           NEW reason \in Callers, NEW immediate \in BOOLEAN, NEW onDecisionQuote \in BOOLEAN
    PROVE  Dealt(SubmitDesired(e, desired, ns, reason, immediate, onDecisionQuote), e)
<1> DEFINE r == SubmitDesired(e, desired, ns, reason, immediate, onDecisionQuote)
<1>1. e \in EngineState
    BY DEF Sound
<1>2. Idle(r, e)
    BY SubmitDesiredIdle
<1>3. r.working \in {None, e.working} \/ r.working.reduceOnly = desired.reduceOnly
    BY <1>1, SubmitDesiredWorks
<1>4. r.stopLockout = e.stopLockout
    BY SubmitDesiredSound DEF Submitted
<1> HIDE DEF r
<1>5. Dealt(r, e)
    BY <1>1, <1>2, <1>3, <1>4, IdleDealt DEF Entryless
<1> QED
    BY <1>5 DEF r

(* An immediate exit only shrinks the position. *)
LEMMA AttemptImmediateExitDealt ==
    ASSUME NEW e, Sound(e), e.book.quantity # 0, NEW ns \in Nat, NEW reason \in Callers
    PROVE  Dealt(AttemptImmediateExit(e, ns, reason), e)
<1> DEFINE desired == FlattenDesired(e.book.quantity)
           waiting == [e EXCEPT !.exitWaiting = TRUE]
           trying  == [e EXCEPT !.exitWaiting = FALSE]
           sent    == SubmitDesired(trying, desired, ns, reason, TRUE, FALSE)
           filled  == FillWorkingFromBook(sent, ns)
           r       == AttemptImmediateExit(e, ns, reason)
<1>1. e \in EngineState /\ e.book.quantity \in Int
    BY DEF Sound, EngineState, Books
<1>2. desired \in DesiredOrders /\ desired.reduceOnly
    BY <1>1 DEF FlattenDesired, DesiredOrders, Abs, Sides
<1>3. /\ Sound(waiting) /\ waiting.working = e.working
      /\ Sound(trying) /\ trying.working = e.working
    BY SetExitWaiting
<1>4. Idle(waiting, e) /\ Idle(trying, e)
    BY <1>1, FlagsIdle
<1>5. waiting.stopLockout = e.stopLockout /\ trying.stopLockout = e.stopLockout
    BY <1>1 DEF EngineState
<1>6. r \in {CancelWorking(waiting), waiting, filled}
    BY DEF AttemptImmediateExit
<1> HIDE DEF desired, waiting, trying
<1>7. Dealt(waiting, e) /\ Dealt(trying, e)
    BY <1>1, <1>3, <1>4, <1>5, IdleDealt DEF Entryless
<1>8. Dealt(CancelWorking(waiting), e)
  <2>1. /\ CancelWorking(waiting) \in EngineState /\ CancelWorking(waiting).working = None
        /\ CancelWorking(waiting).stopLockout = waiting.stopLockout
        /\ Idle(CancelWorking(waiting), waiting)
      BY <1>3, CancelWorkingSound, CancelWorkingIdle DEF Sound
  <2>2. waiting \in EngineState
      BY <1>3 DEF Sound
  <2>3. Dealt(CancelWorking(waiting), waiting)
      BY <2>1, <2>2, IdleDealt DEF Entryless
  <2> QED
      BY <1>1, <1>7, <2>1, <2>2, <2>3, DealtTransitive
<1>9. Sound(sent) /\ Dealt(sent, trying)
    BY <1>2, <1>3, SubmitDesiredSound, SubmitExitDealt DEF Submitted
<1> HIDE DEF sent
<1>10. Sound(filled) /\ Dealt(filled, sent)
    BY <1>9, FillWorkingFromBookSound, FillWorkingFromBookDealt DEF StepsTo
<1> HIDE DEF filled
<1>11. Dealt(filled, e)
  <2>1. trying \in EngineState /\ sent \in EngineState /\ filled \in EngineState
      BY <1>3, <1>9, <1>10 DEF Sound
  <2>2. Dealt(sent, e)
      BY <1>1, <1>7, <1>9, <2>1, DealtTransitive
  <2> QED
      BY <1>1, <1>10, <2>1, <2>2, DealtTransitive
<1> QED
    BY <1>6, <1>7, <1>8, <1>11

(* A crossed stop is a pending exit, or the kill switch is flattening. *)
Honoured(e) ==
    e.book.quantity # 0 /\ StopCrossed(e) => e.stopExitPending \/ e.kill = "FLATTEN_HALT"

(* _check_stop only shrinks the position and leaves no crossed stop alone. *)
LEMMA CheckStopDealt ==
    ASSUME NEW e, Sound(e), NoneImmediate(e), NEW ns \in Nat
    PROVE  Traded(CheckStop(e, ns), e) /\ Honoured(CheckStop(e, ns))
<1> DEFINE sign  == Sign(e.book.quantity)
           armed == [e EXCEPT !.stopExitPending = TRUE, !.stopLockout = sign]
           triggered == IF e.stopExitPending THEN e ELSE armed
           r     == CheckStop(e, ns)
<1>1. e \in EngineState /\ e.book.quantity \in Int
    BY DEF Sound, EngineState, Books
<1>2. Traded(e, e)
    BY <1>1, IdleReflexive, IdleTraded
<1>3. CASE e.book.quantity = 0 \/ e.stop = None \/ (~e.stopExitPending /\ ~StopCrossed(e))
  <2>1. r = e
      BY <1>3 DEF CheckStop
  <2>2. e.book.quantity # 0 => e.stop # None
    <3>1. e.book.quantity # 0 => e.stop = StopFor(e.book)
        BY DEF Sound, StopOk
    <3>2. StopFor(e.book) \in Nat
        BY <1>1, StopForNat DEF EngineState
    <3> QED
        BY <3>1, <3>2, ExecutionAssumption
  <2> QED
      BY <1>2, <1>3, <2>1, <2>2 DEF Honoured
<1>4. CASE ~(e.book.quantity = 0 \/ e.stop = None \/ (~e.stopExitPending /\ ~StopCrossed(e)))
  <2>1. ~e.stopExitPending => /\ Sound(armed) /\ armed.working = e.working
                              /\ armed.book = e.book /\ armed.stopLockout # 0
                              /\ Idle(armed, e)
    <3>1. sign # 0
        BY <1>1, <1>4 DEF Sign
    <3>2. armed.stopLockout = sign
        BY <1>1 DEF EngineState
    <3>3. ~e.stopExitPending => Sound(armed) /\ armed.working = e.working /\ armed.book = e.book
        BY <1>4, TriggerSound
    <3>4. Idle(armed, e)
      <4> HIDE DEF sign
      <4> QED
          BY <1>1, FlagsIdle
    <3> QED
        BY <3>1, <3>2, <3>3, <3>4
  <2> HIDE DEF armed
  <2>2. /\ Sound(triggered) /\ triggered.working = e.working /\ triggered.book = e.book
        /\ triggered.stopLockout # 0 /\ Idle(triggered, e)
      BY <2>1, IdleReflexive DEF Sound, ExitOwns
  <2>3. r = IF e.kill = "FLATTEN_HALT" THEN triggered
            ELSE AttemptImmediateExit(triggered, ns, "stop-exit")
      BY <1>4 DEF CheckStop, armed
  <2> HIDE DEF triggered, r
  <2>4. Traded(triggered, e) /\ triggered \in EngineState
      BY <1>1, <2>2, IdleTraded DEF Entryless, Sound
  <2> DEFINE exit == AttemptImmediateExit(triggered, ns, "stop-exit")
  <2>5. Sound(exit) /\ Dealt(exit, triggered)
      BY <1>4, <2>2, AttemptImmediateExitSound, AttemptImmediateExitDealt
      DEF NoneImmediate, Callers, StepsTo
  <2> HIDE DEF exit
  <2>6. Traded(exit, e)
      BY <1>1, <2>4, <2>5, TradedTransitive DEF Dealt, Sound
  <2>7. Sound(r) /\ r.stopLockout # 0
      BY <2>2, <2>3, <2>5 DEF Dealt, exit
  <2>8. Honoured(r)
      BY <2>7 DEF Sound, ExitOwns, Honoured
  <2> QED
      BY <2>3, <2>4, <2>6, <2>8 DEF r, exit
<1> QED
    BY <1>3, <1>4

(* What the kill switch and the stop have settled stays settled while      *)
(* nothing but marks and idle methods run.                                 *)
LEMMA HonouredStays ==
    ASSUME NEW e, NEW f, Honoured(e), SameCache(f, e), f.book = e.book, f.stop = e.stop,
           f.stopSetTradeCount = e.stopSetTradeCount, f.stopExitPending = e.stopExitPending,
           e.kill = "FLATTEN_HALT" => f.kill = "FLATTEN_HALT"
    PROVE  Honoured(f)
    BY SameCacheReads DEF Honoured

(* _enforce_flat only shrinks the position; what it finds settled it       *)
(* leaves settled, and with the switch short of a flatten it is idle.      *)
LEMMA EnforceFlatDealt ==
    ASSUME NEW e, Sound(e), NoneImmediate(e), NEW ns \in Nat
    PROVE  LET r == EnforceFlat(e, ns)
           IN  /\ Traded(r, e)
               /\ Honoured(e) => Honoured(r)
               /\ LimitsOk(e) => LimitsOk(r)
<1> DEFINE entryOnHalt == e.kill # "NONE" /\ e.working # None /\ ~e.working.reduceOnly
           quiet == IF entryOnHalt THEN CancelWorking(e) ELSE e
           none  == CancelWorking(quiet)
           clean == [none EXCEPT !.missingFlatten = FALSE]
           exit  == AttemptImmediateExit(quiet, ns, "kill-flatten")
           r     == EnforceFlat(e, ns)
<1>1. r = IF e.kill # "FLATTEN_HALT" THEN quiet
          ELSE IF quiet.book.quantity = 0 THEN clean ELSE exit
    BY DEF EnforceFlat
<1>2. e \in EngineState
    BY DEF Sound
<1>3. /\ Sound(quiet) /\ Idle(quiet, e) /\ quiet.working \in {None, e.working}
      /\ quiet.stop = e.stop /\ quiet.stopSetTradeCount = e.stopSetTradeCount
      /\ quiet.stopExitPending = e.stopExitPending
  <2> DEFINE c == CancelWorking(e)
  <2>1. Sound(c) /\ c.working = None /\ c.stopExitPending = e.stopExitPending /\ Idle(c, e)
      BY <1>2, CancelWorkingSound, CancelWorkingIdle
  <2>2. c.stop = e.stop /\ c.stopSetTradeCount = e.stopSetTradeCount
      BY <1>2 DEF CancelWorking, EngineState
  <2>3. Idle(e, e)
      BY IdleReflexive
  <2> HIDE DEF c
  <2> QED
      BY <2>1, <2>2, <2>3 DEF c
<1> HIDE DEF quiet
<1>4. Traded(quiet, e) /\ quiet \in EngineState
    BY <1>2, <1>3, IdleTraded DEF Entryless, Sound
<1>5. Traded(clean, quiet) /\ clean \in EngineState
  <2>1. Sound(none) /\ none.working = None /\ Idle(none, quiet) /\ none \in EngineState
      BY <1>3, <1>4, CancelWorkingSound, CancelWorkingIdle DEF Sound
  <2> HIDE DEF none
  <2>2. clean \in EngineState /\ clean.working = None /\ Idle(clean, none)
      BY <2>1, SetMissingFlatten, FlagsIdle DEF Sound
  <2> HIDE DEF clean
  <2> QED
      BY <1>4, <2>1, <2>2, IdleTransitive, IdleTraded DEF Entryless
<1>6. quiet.book.quantity # 0 => Traded(exit, quiet) /\ exit \in EngineState
    BY <1>3, AttemptImmediateExitSound, AttemptImmediateExitDealt
    DEF NoneImmediate, Callers, StepsTo, Sound, Dealt
<1> HIDE DEF clean, exit, r
<1>7. Traded(r, e)
    BY <1>1, <1>2, <1>4, <1>5, <1>6, TradedTransitive
<1>8. r.kill = e.kill
    BY <1>7 DEF Traded, SameWindows
<1>9. CASE e.kill = "FLATTEN_HALT"
    BY <1>7, <1>8, <1>9 DEF Honoured, LimitsOk, r
<1>10. CASE e.kill # "FLATTEN_HALT"
  <2>1. r = quiet
      BY <1>1, <1>10
  <2>2. SameCache(r, e) /\ r.book = e.book /\ SameWindows(r, e)
      BY <1>3, <2>1 DEF Idle, SameLedger
  <2>3. Honoured(e) => Honoured(r)
      BY <1>3, <1>8, <2>1, <2>2, HonouredStays
  <2>4. LimitsOk(e) => LimitsOk(r)
    <3>1. Equity(r) = Equity(e)
        BY <2>2, SameCacheReads
    <3> QED
        BY <2>2, <3>1, SameBreaches DEF LimitsOk, SameWindows
  <2> QED
      BY <1>7, <2>3, <2>4 DEF r
<1> QED
    BY <1>9, <1>10

(* The strategy's turn trades nothing, and with the kill switch on it      *)
(* sends no entry.                                                         *)
LEMMA ApplyStrategyIdle ==
    ASSUME NEW e, Sound(e), NEW ev \in MarketEvents, NEW answer \in StrategyAnswers
    PROVE  LET r == ApplyStrategy(e, ev, answer)
           IN  Idle(r, e) /\ (e.kill # "NONE" /\ Entryless(e) => Entryless(r))
<1> DEFINE desired == DesiredOrder(e.book.quantity, answer)
           touch   == CurrentTouch(e)
           free    == [e EXCEPT !.stopLockout = 0]
           onDecisionQuote == Latency = 0 /\ touch # None /\ touch.kind = ev.kind
           mismatch == Reject(e, "instrument_mismatch", {"target"}, None)
           locked  == Reject(e, "stop_lockout", {"target"}, desired)
           sent    == SubmitDesired(free, desired, ev.ns, "target", FALSE, onDecisionQuote)
           r       == ApplyStrategy(e, ev, answer)
<1>1. e \in EngineState /\ e.book.quantity \in Int /\ ev.ns \in Nat
    BY DEF Sound, EngineState, Books, MarketEvents, BboEvents, TradeEvents
<1>2. Idle(e, e)
    BY IdleReflexive
<1>3. CASE answer = NoTarget
    BY <1>2, <1>3 DEF ApplyStrategy
<1>4. CASE answer # NoTarget /\ answer = WrongInstrument
  <2>1. SameTrading(mismatch, e) /\ Idle(mismatch, e)
      BY <1>1, RejectType, RejectIdle DEF Reasons, Details
  <2> HIDE DEF mismatch
  <2>2. r = mismatch
      BY <1>4 DEF ApplyStrategy, mismatch
  <2> QED
      BY <2>1, <2>2 DEF SameTrading, Entryless
<1>5. CASE answer # NoTarget /\ answer # WrongInstrument /\ e.stopExitPending
    BY <1>2, <1>5 DEF ApplyStrategy
<1>6. CASE answer # NoTarget /\ answer # WrongInstrument /\ ~e.stopExitPending
  <2>1. answer \in Int
      BY <1>6, EngineAssumption DEF StrategyAnswers
  <2>2. desired \in DesiredOrders \cup {None}
      BY <1>1, <2>1, DesiredOrderType
  <2>3. onDecisionQuote \in BOOLEAN
      OBVIOUS
  <2>4. r \in {locked, sent}
      BY <1>6 DEF ApplyStrategy
  <2>5. Sound(free) /\ free.working = e.working /\ free.stopLockout = 0 /\ Idle(free, e)
      BY <1>1, <1>6, UnlockSound, FlagsIdle
  <2> HIDE DEF desired, onDecisionQuote, free
  <2>6. SameTrading(locked, e) /\ Idle(locked, e)
      BY <1>1, <2>2, RejectType, RejectIdle DEF Reasons, Details
  <2>7. Submitted(sent, free, desired, ev.ns, FALSE) /\ Idle(sent, free)
      BY <1>1, <2>2, <2>3, <2>5, SubmitDesiredSound, SubmitDesiredIdle DEF Callers
  <2> HIDE DEF locked, sent, r
  <2>8. Idle(sent, e)
      BY <2>5, <2>7, IdleTransitive
  <2>9. sent.kill = e.kill
      BY <2>8 DEF Idle, SameWindows
  <2>10. e.kill # "NONE" /\ Entryless(e) => Entryless(sent)
      BY <2>5, <2>7, <2>9 DEF Submitted, Entryless
  <2>11. e.kill # "NONE" /\ Entryless(e) => Entryless(locked)
      BY <2>6 DEF SameTrading, Entryless
  <2> QED
      BY <2>4, <2>6, <2>8, <2>10, <2>11 DEF r
<1> QED
    BY <1>3, <1>4, <1>5, <1>6

-----------------------------------------------------------------------------
(* Handlers, between two states at rest.                                   *)

(* With the switch on, the position only shrinks and no entry appears,     *)
(* until the window of a loss halt ends.                                   *)
Guarded(f, e) ==
    e.kill # "NONE" /\ Entryless(e) =>
        WindowEnded(f, e) \/ (Entryless(f) /\ Shrunk(f.book.quantity, e.book.quantity))

(* What any part of a handler may do to the engine. *)
Stepped(f, e) == Switched(f, e) /\ Booked(f, e) /\ Guarded(f, e)

(* Two parts make one while the caches stay, or when only the second fills. *)
LEMMA SteppedTransitive ==
    ASSUME NEW e \in EngineState, NEW f \in EngineState, NEW g \in EngineState, HaltDated(e),
           Stepped(f, e), Stepped(g, f), SameCache(g, f) \/ f.fillCount = e.fillCount
    PROVE  Stepped(g, e)
<1>1. Switched(g, e) /\ Booked(g, e)
    BY SwitchedTransitive, BookedTransitive DEF Stepped
<1>2. ASSUME e.kill # "NONE", Entryless(e), ~WindowEnded(g, e)
      PROVE  Entryless(g) /\ Shrunk(g.book.quantity, e.book.quantity)
  <2>1. /\ e.day # None => e.day \in Nat
        /\ f.day # None => f.day \in Nat
        /\ g.day # None => g.day \in Nat
        /\ e.book.quantity \in Int /\ f.book.quantity \in Int /\ g.book.quantity \in Int
      BY DEF EngineState, MaybeNat, Books
  <2>2. ~WindowEnded(f, e)
    <3> SUFFICES ASSUME WindowEnded(f, e) PROVE FALSE
        OBVIOUS
    <3>1. e.day # None
        BY DEF WindowEnded, Ends, HaltDated, LossReasons
    <3>2. f.day # None /\ g.day # None /\ f.day <= g.day
        BY <2>1, <3>1 DEF Stepped, Switched
    <3>3. Ends(e.killReason, e.day, g.day)
        BY <2>1, <3>1, <3>2, EndsLater DEF WindowEnded
    <3> QED
        BY <1>2, <3>3 DEF WindowEnded
  <2>3. Entryless(f) /\ Shrunk(f.book.quantity, e.book.quantity) /\ SwitchKept(f, e)
      BY <1>2, <2>2 DEF Stepped, Guarded, Switched
  <2>4. ~WindowEnded(g, f)
    <3> SUFFICES ASSUME WindowEnded(g, f) PROVE FALSE
        OBVIOUS
    <3>1. /\ e.kill = "HALT_NEW" /\ e.killReason = f.killReason
          /\ Ends(f.killReason, f.day, g.day)
        BY <1>2, <2>3 DEF SwitchKept, WindowEnded, EngineState, KillStates
    <3>2. e.day # None
        BY <3>1 DEF Ends, HaltDated, LossReasons
    <3>3. f.day >= e.day /\ f.day # None /\ g.day # None
        BY <2>1, <3>2 DEF Stepped, Switched
    <3>4. Ends(e.killReason, e.day, g.day)
        BY <2>1, <3>1, <3>2, <3>3, EndsLater
    <3> QED
        BY <1>2, <3>1, <3>4 DEF WindowEnded
  <2>5. f.kill # "NONE"
      BY <1>2, <2>3 DEF SwitchKept
  <2>6. Entryless(g) /\ Shrunk(g.book.quantity, f.book.quantity)
      BY <2>3, <2>4, <2>5 DEF Stepped, Guarded
  <2> QED
      BY <2>1, <2>3, <2>6, ShrunkTransitive
<1> QED
    BY <1>1, <1>2 DEF Stepped, Guarded

(* Where the day, the switch and its reason stay, nothing loosens.         *)
LEMMA SameSwitch ==
    ASSUME NEW e \in EngineState, NEW f, HaltDated(e),
           f.kill = e.kill, f.killReason = e.killReason, f.day = e.day
    PROVE  Switched(f, e)
<1>1. e.day # None => e.day \in Nat
    BY DEF EngineState, MaybeNat
<1> QED
    BY <1>1 DEF Switched, SwitchKept, HaltDated

(* A method that may trade is such a part. *)
LEMMA TradedStepped ==
    ASSUME NEW e \in EngineState, NEW f, HaltDated(e), Traded(f, e)
    PROVE  Stepped(f, e) /\ SameCache(f, e)
    BY SameSwitch DEF Traded, SameWindows, Stepped, Guarded

(* Leaving the book and the ledger alone books nothing. *)
LEMMA SameLedgerBooked ==
    ASSUME NEW e \in EngineState, NEW f, f.book = e.book, f.fillCount = e.fillCount,
           LedgerOk(e) => LedgerOk(f)
    PROVE  Booked(f, e) /\ Shrunk(f.book.quantity, e.book.quantity)
<1>1. e.fillCount \in Nat /\ e.book.quantity \in Int
    BY DEF EngineState, Books
<1>2. Shrunk(f.book.quantity, e.book.quantity)
    BY <1>1, ShrunkTransitive
<1> QED
    BY <1>1, <1>2 DEF Booked

(* So is a method that marks. *)
LEMMA MarkedStepped ==
    ASSUME NEW e \in EngineState, NEW f, Marked(f, e), f.working = e.working
    PROVE  Stepped(f, e)
<1>1. Booked(f, e) /\ Shrunk(f.book.quantity, e.book.quantity)
    BY IdleLedger, SameLedgerBooked DEF Marked, SameLedger
<1> QED
    BY <1>1 DEF Marked, Stepped, Guarded, Entryless

(* And so is the strategy's turn. *)
LEMMA StrategyStepped ==
    ASSUME NEW e \in EngineState, NEW f, HaltDated(e), Idle(f, e),
           e.kill # "NONE" /\ Entryless(e) => Entryless(f)
    PROVE  Stepped(f, e) /\ SameCache(f, e)
<1>1. Booked(f, e) /\ Shrunk(f.book.quantity, e.book.quantity)
    BY IdleLedger, SameLedgerBooked DEF Idle, SameLedger
<1>2. Switched(f, e)
    BY SameSwitch DEF Idle, SameWindows
<1> QED
    BY <1>1, <1>2 DEF Idle, Stepped, Guarded

(* _mark_limits within a handler. *)
LEMMA MarkLimitsStepped ==
    ASSUME NEW e, Sound(e), HaltDated(e), NEW day \in Nat
    PROVE  LET r == MarkLimits(e, day)
           IN  /\ Stepped(r, e) /\ SameCache(r, e) /\ LimitsOk(r)
               /\ Honoured(e) => Honoured(r)
<1> DEFINE r == MarkLimits(e, day)
<1>1. e \in EngineState
    BY DEF Sound
<1>2. Marked(r, e) /\ LimitsOk(r)
    BY <1>1, MarkLimitsMarks
<1>3. SameTrading(r, e)
    BY <1>1, MarkLimitsType
<1> HIDE DEF r
<1>4. Stepped(r, e) /\ SameCache(r, e)
    BY <1>1, <1>2, <1>3, MarkedStepped DEF Marked, SameTrading
<1>5. e.kill = "FLATTEN_HALT" => r.kill = "FLATTEN_HALT"
    BY <1>2 DEF Marked, Switched, SwitchKept, WindowEnded
<1>6. Honoured(e) => Honoured(r)
    BY <1>3, <1>4, <1>5, HonouredStays DEF SameTrading
<1> QED
    BY <1>2, <1>4, <1>6 DEF r

(* What a handler part leaves behind when nothing follows it. *)
Settled(r, e) == Stepped(r, e) /\ SameCache(r, e) /\ Honoured(r) /\ LimitsOk(r)

(* The marking of what was honoured, then _enforce_flat. *)
LEMMA MarkAndFlattenSettles ==
    ASSUME NEW e, Sound(e), NoneImmediate(e), HaltDated(e), Honoured(e),
           NEW day \in Nat, NEW ns \in Nat
    PROVE  Settled(EnforceFlat(MarkLimits(e, day), ns), e)
<1> DEFINE m == MarkLimits(e, day)
           r == EnforceFlat(m, ns)
<1>1. Sound(m) /\ NoneImmediate(m)
    BY MarkLimitsSound
<1>2. Stepped(m, e) /\ SameCache(m, e) /\ LimitsOk(m) /\ Honoured(m)
    BY MarkLimitsStepped
<1>3. HaltDated(m)
    BY <1>2 DEF Stepped, Switched
<1> HIDE DEF m
<1>4. Traded(r, m) /\ Honoured(r) /\ LimitsOk(r) /\ Sound(r)
    BY <1>1, <1>2, EnforceFlatDealt, EnforceFlatSound DEF Rest
<1> HIDE DEF r
<1>5. Stepped(r, m) /\ SameCache(r, m)
    BY <1>1, <1>3, <1>4, TradedStepped DEF Sound
<1>6. Stepped(r, e)
    BY <1>1, <1>2, <1>4, <1>5, SteppedTransitive DEF Sound
<1>7. SameCache(r, e)
    BY <1>2, <1>5 DEF SameCache
<1> QED
    BY <1>4, <1>6, <1>7 DEF Settled, r, m

(* What _advance does with a cached event: fill, stop, mark and flatten.   *)
LEMMA FillToFlattenSettles ==
    ASSUME NEW e, Sound(e), NoneImmediate(e), HaltDated(e), NEW ev \in MarketEvents,
           Known(e, ev), NEW day \in Nat
    PROVE  Settled(AfterStrategy(e, ev, day), e)
<1> DEFINE filled == TryFill(e, ev)
           exited == CheckStop(filled, ev.ns)
           r      == EnforceFlat(MarkLimits(exited, day), ev.ns)
<1>1. ev.ns \in Nat /\ e \in EngineState
    BY DEF MarketEvents, BboEvents, TradeEvents, Sound
<1>2. Sound(filled) /\ NoneImmediate(filled) /\ Traded(filled, e)
    BY TryFillSound, TryFillDealt, StepsToNoneImmediate DEF StepsTo, Dealt
<1> HIDE DEF filled
<1>3. Stepped(filled, e) /\ SameCache(filled, e)
    BY <1>1, <1>2, TradedStepped
<1>4. HaltDated(filled)
    BY <1>3 DEF Stepped, Switched
<1>5. Sound(exited) /\ NoneImmediate(exited) /\ Traded(exited, filled) /\ Honoured(exited)
    BY <1>1, <1>2, CheckStopSound, CheckStopDealt, StepsToNoneImmediate DEF StepsTo
<1> HIDE DEF exited
<1>6. Stepped(exited, filled) /\ SameCache(exited, filled)
    BY <1>2, <1>4, <1>5, TradedStepped DEF Sound
<1>7. HaltDated(exited)
    BY <1>6 DEF Stepped, Switched
<1>8. Settled(r, exited) /\ Sound(r)
  <2>1. Sound(MarkLimits(exited, day)) /\ NoneImmediate(MarkLimits(exited, day))
      BY <1>5, MarkLimitsSound
  <2> QED
      BY <1>1, <1>5, <1>7, <2>1, MarkAndFlattenSettles, EnforceFlatSound DEF Rest
<1>9. r = AfterStrategy(e, ev, day)
    BY DEF AfterStrategy, exited, filled
<1> HIDE DEF r
<1>10. Stepped(exited, e)
    BY <1>1, <1>2, <1>3, <1>5, <1>6, SteppedTransitive DEF Sound
<1>11. Stepped(r, e)
    BY <1>1, <1>5, <1>8, <1>10, SteppedTransitive DEF Sound, Settled
<1>12. SameCache(r, e)
    BY <1>3, <1>6, <1>8 DEF SameCache, Settled
<1> QED
    BY <1>8, <1>9, <1>11, <1>12 DEF Settled

(* What neither trades, nor marks, nor touches an order: the caches may    *)
(* change.                                                                 *)
Cached(f, e) ==
    /\ f.book = e.book /\ f.fillCount = e.fillCount /\ f.working = e.working
    /\ f.kill = e.kill /\ f.killReason = e.killReason /\ f.day = e.day
    /\ f.dayStart = e.dayStart /\ f.weekStart = e.weekStart /\ f.peak = e.peak
    /\ f.stopExitPending = e.stopExitPending

(* That is a part of a handler too. *)
LEMMA CachedStepped ==
    ASSUME NEW e \in EngineState, NEW f, HaltDated(e), Cached(f, e), LedgerOk(e) => LedgerOk(f)
    PROVE  Stepped(f, e)
<1>1. Booked(f, e) /\ Shrunk(f.book.quantity, e.book.quantity)
    BY SameLedgerBooked DEF Cached
<1>2. Switched(f, e)
    BY SameSwitch DEF Cached
<1> QED
    BY <1>1, <1>2 DEF Cached, Stepped, Guarded, Entryless

(* The source clock moves nothing else. *)
LEMMA AdvanceSourceClockCached ==
    ASSUME NEW e \in EngineState, NEW ns
    PROVE  LET f == AdvanceSourceClock(e, ns)
           IN  /\ Cached(f, e) /\ (LedgerOk(e) => LedgerOk(f))
               /\ f.bbo = e.bbo /\ f.trade = e.trade /\ f.venueMark = e.venueMark
               /\ f.lastDay = e.lastDay
<1> DEFINE clock == MaxOf(e.sourceClock, ns)
           f == [e EXCEPT !.sourceClock = clock]
<1>1. f = AdvanceSourceClock(e, ns)
    BY DEF AdvanceSourceClock
<1> HIDE DEF clock
<1>2. /\ Cached(f, e)
      /\ f.bbo = e.bbo /\ f.trade = e.trade /\ f.venueMark = e.venueMark
      /\ f.lastDay = e.lastDay /\ f.bookTaken = e.bookTaken /\ f.tradeTaken = e.tradeTaken
    BY DEF EngineState, Cached
<1> HIDE DEF f
<1>3. LedgerOk(e) => LedgerOk(f)
    BY <1>2 DEF Cached, LedgerOk, QuoteSeen, TakesOk
<1> QED
    BY <1>1, <1>2, <1>3

(* An event of the feed enters the caches, and a new print starts with     *)
(* nothing taken from it (_update_market).                                 *)
LEMMA ArriveCached ==
    ASSUME NEW e \in EngineState, NEW ev \in MarketEvents, ev.kind = "bbo" => Shown(ev),
           NEW day \in Nat
    PROVE  LET f == Arrive(e, ev, day)
           IN  /\ Cached(f, e) /\ (LedgerOk(e) => LedgerOk(f))
               /\ Known(f, ev) /\ f.lastDay = day
<1> DEFINE ns == ev.ns
           stamped == [e EXCEPT !.lastData = ns, !.lastDay = day]
           f == UpdateMarket(stamped, ev)
<1>1. f = Arrive(e, ev, day)
    BY DEF Arrive
<1> HIDE DEF ns
<1>2. /\ Cached(stamped, e) /\ stamped.lastDay = day /\ DOMAIN stamped = DOMAIN e
      /\ stamped.bbo = e.bbo /\ stamped.trade = e.trade
      /\ stamped.bookTaken = e.bookTaken /\ stamped.tradeTaken = e.tradeTaken
    BY DEF EngineState, Cached
<1>3. {"bbo", "trade", "venueMark", "tradeCount", "tradeTaken"} \subseteq DOMAIN stamped
    BY <1>2 DEF EngineState
<1> HIDE DEF stamped
<1>4. CASE ev \in BboEvents
  <2>1. ev.kind = "bbo"
      BY <1>4 DEF BboEvents
  <2> DEFINE g == [stamped EXCEPT !.bbo = ev]
  <2>2. f = g
      BY <2>1 DEF UpdateMarket
  <2>3. /\ Cached(g, stamped) /\ g.bbo = ev /\ g.trade = stamped.trade /\ g.lastDay = day
        /\ g.bookTaken = stamped.bookTaken /\ g.tradeTaken = stamped.tradeTaken
      BY <1>2, <1>3 DEF Cached
  <2> HIDE DEF g, f
  <2>4. Cached(f, e) /\ f.lastDay = day /\ Known(f, ev)
      BY <1>2, <2>1, <2>2, <2>3 DEF Cached, Known
  <2>5. LedgerOk(e) => LedgerOk(f)
      BY <1>2, <2>1, <2>2, <2>3, <2>4 DEF Cached, LedgerOk, QuoteSeen, TakesOk
  <2> QED
      BY <1>1, <2>4, <2>5
<1>5. CASE ev \in TradeEvents
  <2>1. ev.kind = "trade"
      BY <1>5 DEF TradeEvents
  <2> DEFINE n == stamped.tradeCount + 1
             g == [stamped EXCEPT !.trade = ev, !.tradeCount = n, !.tradeTaken = 0]
  <2>2. f = g
      BY <2>1 DEF UpdateMarket
  <2> HIDE DEF n
  <2>3. /\ Cached(g, stamped) /\ g.trade = ev /\ g.bbo = stamped.bbo /\ g.lastDay = day
        /\ g.bookTaken = stamped.bookTaken /\ g.tradeTaken = 0
      BY <1>2, <1>3 DEF Cached
  <2> HIDE DEF g, f
  <2>4. Cached(f, e) /\ f.lastDay = day /\ Known(f, ev)
      BY <1>2, <2>1, <2>2, <2>3 DEF Cached, Known
  <2>5. LedgerOk(e) => LedgerOk(f)
      BY <1>2, <2>2, <2>3, <2>4 DEF Cached, LedgerOk, QuoteSeen, TakesOk
  <2> QED
      BY <1>1, <2>4, <2>5
<1>6. CASE ev \in [kind : {"mark"}, ns : Nat, price : Prices \cup {None}]
  <2>1. ev.kind = "mark"
      BY <1>6
  <2> DEFINE mark == IF ev.price = None THEN None ELSE ev
             g == [stamped EXCEPT !.venueMark = mark]
  <2>2. f = g
      BY <2>1 DEF UpdateMarket
  <2> HIDE DEF mark
  <2>3. /\ Cached(g, stamped) /\ g.bbo = stamped.bbo /\ g.trade = stamped.trade
        /\ g.lastDay = day
        /\ g.bookTaken = stamped.bookTaken /\ g.tradeTaken = stamped.tradeTaken
      BY <1>2, <1>3 DEF Cached
  <2> HIDE DEF g, f
  <2>4. Cached(f, e) /\ f.lastDay = day /\ Known(f, ev)
      BY <1>2, <2>1, <2>2, <2>3 DEF Cached, Known
  <2>5. LedgerOk(e) => LedgerOk(f)
      BY <1>2, <2>2, <2>3, <2>4 DEF Cached, LedgerOk, QuoteSeen, TakesOk
  <2> QED
      BY <1>1, <2>4, <2>5
<1>7. CASE ev \in [kind : {"bar"}, ns : Nat]
  <2>1. ev.kind = "bar"
      BY <1>7
  <2>2. f = stamped
      BY <2>1 DEF UpdateMarket
  <2> HIDE DEF f
  <2>3. Cached(f, e) /\ f.lastDay = day /\ Known(f, ev)
      BY <1>2, <2>1, <2>2 DEF Cached, Known
  <2>4. LedgerOk(e) => LedgerOk(f)
      BY <1>2, <2>2, <2>3 DEF Cached, LedgerOk, QuoteSeen, TakesOk
  <2> QED
      BY <1>1, <2>3, <2>4
<1> QED
    BY <1>4, <1>5, <1>6, <1>7 DEF MarketEvents

(* _advance up to the strategy, from a state at rest. *)
LEMMA BeforeStrategySettles ==
    ASSUME NEW e, Sound(e), NoneImmediate(e), HaltDated(e), NEW ev \in MarketEvents,
           ev.kind = "bbo" => Shown(ev), NEW day \in Nat
    PROVE  LET b == BeforeStrategy(e, ev, day)
           IN  /\ Rest(b) /\ Stepped(b, e) /\ Honoured(b) /\ LimitsOk(b)
               /\ Known(b, ev) /\ b.lastDay = day
<1> DEFINE a == Arrive(e, ev, day)
           b == AfterStrategy(a, ev, day)
<1>1. b = BeforeStrategy(e, ev, day)
    BY DEF AfterStrategy, BeforeStrategy
<1>2. Sound(a) /\ NoneImmediate(a)
    BY ArriveSound
<1>3. Stepped(a, e) /\ Known(a, ev) /\ a.lastDay = day
    BY ArriveCached, CachedStepped DEF Sound
<1> HIDE DEF a
<1>4. Settled(b, a) /\ Rest(b)
    BY <1>2, <1>3, FillToFlattenSettles, AfterStrategyRest DEF Stepped, Switched
<1> HIDE DEF b
<1>5. Stepped(b, e)
    BY <1>2, <1>3, <1>4, SteppedTransitive DEF Rest, Sound, Settled
<1>6. Known(b, ev) /\ b.lastDay = day
    BY <1>3, <1>4 DEF Settled, SameCache, Known
<1> QED
    BY <1>1, <1>4, <1>5, <1>6 DEF Settled

(* The strategy's turn, and what follows it. *)
LEMMA StrategyTurnSettles ==
    ASSUME NEW b, Rest(b), HaltDated(b), Honoured(b), NEW ev \in MarketEvents, Known(b, ev),
           NEW day \in Nat, NEW answer \in StrategyAnswers
    PROVE  Settled(StrategyTurn(b, ev, day, answer), b)
<1>1. ev.ns \in Nat
    BY DEF MarketEvents, BboEvents, TradeEvents
<1>2. CASE b.kill = "FLATTEN_HALT"
    BY <1>1, <1>2, MarkAndFlattenSettles DEF Rest, StrategyTurn
<1>3. CASE b.kill # "FLATTEN_HALT"
  <2> DEFINE asked == ApplyStrategy(b, ev, answer)
             r     == AfterStrategy(asked, ev, day)
  <2>1. Sound(asked) /\ NoneImmediate(asked)
      BY ApplyStrategySound DEF Rest
  <2>2. Stepped(asked, b) /\ SameCache(asked, b)
      BY ApplyStrategyIdle, StrategyStepped DEF Rest, Sound
  <2> HIDE DEF asked
  <2>3. Known(asked, ev) /\ HaltDated(asked)
      BY <2>2 DEF Known, SameCache, Stepped, Switched
  <2>4. Settled(r, asked) /\ Rest(r)
      BY <2>1, <2>3, FillToFlattenSettles, AfterStrategyRest
  <2>5. r = StrategyTurn(b, ev, day, answer)
      BY <1>3 DEF StrategyTurn, asked
  <2> HIDE DEF r
  <2>6. Stepped(r, b)
      BY <2>1, <2>2, <2>4, SteppedTransitive DEF Rest, Sound, Settled
  <2>7. SameCache(r, b)
      BY <2>2, <2>4 DEF Settled, SameCache
  <2> QED
      BY <2>4, <2>5, <2>6, <2>7 DEF Settled
<1> QED
    BY <1>2, <1>3

(* A stale feed flattens. *)
LEMMA FlattenHaltMarks ==
    ASSUME NEW e, Sound(e), HaltDated(e)
    PROVE  LET f == FlattenHalt(e, "stale_data")
           IN  /\ Marked(f, e) /\ Stepped(f, e) /\ SameTrading(f, e) /\ f \in EngineState
               /\ f.kill = "FLATTEN_HALT"
<1> DEFINE f == FlattenHalt(e, "stale_data")
<1>1. e \in EngineState /\ (e.day # None => e.day \in Nat)
    BY DEF Sound, EngineState, MaybeNat
<1>2. f \in EngineState /\ SameTrading(f, e)
    BY <1>1, KillSwitchType DEF KillReasons
<1>3. SameCache(f, e) /\ SameLedger(f, e) /\ f.day = e.day
      /\ f.killReason \in {e.killReason, "stale_data", "none"}
    BY <1>1, KillSwitchMarks
<1>4. SwitchKept(f, e) /\ f.kill = "FLATTEN_HALT"
    BY <1>1, HaltKeeps
<1> HIDE DEF f
<1>5. Marked(f, e)
    BY <1>1, <1>3, <1>4 DEF Marked, Switched, HaltDated, LossReasons
<1>6. Stepped(f, e)
    BY <1>1, <1>2, <1>5, MarkedStepped DEF SameTrading
<1> QED
    BY <1>2, <1>4, <1>5, <1>6 DEF f

(* on_event: whatever arrives, a stop is honoured, the limits hold and the *)
(* ledger is kept when the handler returns.                                *)
LEMMA AdvanceSettles ==
    ASSUME NEW e0, Rest(e0), HaltDated(e0), NEW ev \in MarketEvents,
           ev.kind = "bbo" => Shown(ev), NEW day \in Nat, NEW answer \in StrategyAnswers
    PROVE  LET r == Advance(e0, ev, day, answer)
           IN  Stepped(r, e0) /\ Honoured(r) /\ LimitsOk(r) /\ r.lastDay = day
<1> DEFINE e == AdvanceSourceClock(e0, ev.ns)
           halted == FlattenHalt(e, "stale_data")
           arrived == Arrive(halted, ev, day)
           flat == EnforceFlat(arrived, ev.ns)
           b == BeforeStrategy(e, ev, day)
           turn == StrategyTurn(b, ev, day, answer)
           r == Advance(e0, ev, day, answer)
<1>1. ev.ns \in Nat /\ e0 \in EngineState
    BY DEF MarketEvents, BboEvents, TradeEvents, Rest, Sound
<1>2. Rest(e)
    BY <1>1, AdvanceSourceClockSound
<1>3. Stepped(e, e0)
    BY <1>1, AdvanceSourceClockCached, CachedStepped
<1>4. HaltDated(e)
    BY <1>3 DEF Stepped, Switched
<1>5. r = IF StaleGap(e, ev.ns) THEN flat ELSE turn
    BY DEF Advance
<1>6. Rest(r)
    BY AdvanceRest
<1> HIDE DEF e, r
<1>7. CASE StaleGap(e, ev.ns)
  <2>1. Stepped(halted, e) /\ SameTrading(halted, e) /\ halted \in EngineState
        /\ halted.kill = "FLATTEN_HALT" /\ SameCache(halted, e) /\ SameLedger(halted, e)
      BY <1>2, <1>4, FlattenHaltMarks DEF Rest, Marked
  <2> HIDE DEF halted
  <2>2. Sound(halted) /\ NoneImmediate(halted) /\ HaltDated(halted)
      BY <1>2, <2>1, SameTradingSound DEF Rest, SameTrading, NoneImmediate, Stepped, Switched
  <2>3. Sound(arrived) /\ NoneImmediate(arrived)
      BY <2>2, ArriveSound
  <2>4. Stepped(arrived, halted) /\ arrived.lastDay = day /\ arrived.kill = "FLATTEN_HALT"
        /\ arrived.fillCount = halted.fillCount
      BY <2>1, <2>2, ArriveCached, CachedStepped DEF Cached
  <2> HIDE DEF arrived
  <2>5. Traded(flat, arrived) /\ Rest(flat)
      BY <1>1, <2>3, EnforceFlatDealt, EnforceFlatSound
  <2> HIDE DEF flat
  <2>6. Stepped(flat, arrived) /\ SameCache(flat, arrived)
      BY <2>3, <2>4, <2>5, TradedStepped DEF Sound, Stepped, Switched
  <2>7. e.fillCount = e0.fillCount /\ halted.fillCount = e.fillCount
      BY <1>1, <2>1, AdvanceSourceClockCached DEF Cached, SameLedger, e
  <2>8. Stepped(halted, e0)
      BY <1>1, <1>2, <1>3, <2>1, SteppedTransitive DEF Rest, Sound
  <2>9. Stepped(arrived, e0)
      BY <1>1, <1>4, <2>1, <2>3, <2>4, <2>7, <2>8, SteppedTransitive DEF Sound
  <2>10. Stepped(flat, e0)
      BY <1>1, <2>3, <2>5, <2>6, <2>9, SteppedTransitive DEF Rest, Sound
  <2>11. flat.kill = "FLATTEN_HALT" /\ flat.lastDay = day
      BY <2>4, <2>5, <2>6 DEF Traded, SameWindows, SameCache
  <2>12. Honoured(flat) /\ LimitsOk(flat)
      BY <2>11 DEF Honoured, LimitsOk
  <2> QED
      BY <1>5, <1>7, <2>10, <2>11, <2>12 DEF r
<1>8. CASE ~StaleGap(e, ev.ns)
  <2>1. Rest(b) /\ Stepped(b, e) /\ Honoured(b) /\ Known(b, ev) /\ b.lastDay = day
      BY <1>2, <1>4, BeforeStrategySettles DEF Rest
  <2> HIDE DEF b
  <2>2. Settled(turn, b)
      BY <2>1, StrategyTurnSettles DEF Stepped, Switched
  <2>3. turn = r
      BY <1>5, <1>8
  <2> HIDE DEF turn
  <2>4. e.fillCount = e0.fillCount
      BY <1>1, AdvanceSourceClockCached DEF Cached, e
  <2>5. Stepped(b, e0)
      BY <1>1, <1>2, <1>3, <2>1, <2>4, SteppedTransitive DEF Rest, Sound
  <2>6. Stepped(turn, e0)
      BY <1>1, <1>6, <2>1, <2>2, <2>3, <2>5, SteppedTransitive DEF Rest, Sound, Settled
  <2> QED
      BY <2>1, <2>2, <2>3, <2>6 DEF Settled, SameCache, r
<1> QED
    BY <1>7, <1>8

(* Before the first event nothing is cached, traded or marked. *)
Untouched(e) ==
    e.lastDay = None =>
        /\ e.bbo = None /\ e.trade = None /\ e.venueMark = None
        /\ e.book = FlatBook
        /\ e.dayStart = StartingCash /\ e.weekStart = StartingCash /\ e.peak = StartingCash

(* Then the starting cash is within every limit. *)
LEMMA UntouchedLimits ==
    ASSUME NEW e, Untouched(e), e.lastDay = None
    PROVE  LimitsOk(e) /\ CurrentTouch(e) = None
<1>1. CurrentTouch(e) = None
    BY DEF Untouched, CurrentTouch, BookComplete, TradeFresh
<1>2. Equity(e) = StartingCash
    BY DEF Untouched, FlatBook, Equity, EquityAt
<1>3. StartingCash \in Nat \ {0} /\ StartingCash # None
    BY EngineAssumption, ExecutionAssumption
<1>4. /\ DailyLossPct \in Nat \ {0} /\ WeeklyLossPct \in Nat \ {0}
      /\ DrawdownKillPct \in Nat \ {0}
    BY RiskAssumption
<1>5. /\ StartingCash * DailyLossPct > 0 /\ StartingCash * WeeklyLossPct > 0
      /\ DrawdownKillPct * StartingCash > 0
    BY <1>3, <1>4, PositiveProduct
<1>6. (StartingCash - StartingCash) * 100 = 0
    BY <1>3
<1>7. ~DailyLossBreached(e, StartingCash)
  <2> DEFINE x == StartingCash * DailyLossPct
  <2>1. x \in Int
      BY <1>3, <1>4, IntProduct
  <2>2. DailyLossBreached(e, StartingCash) <=> 0 <= -x
      BY <1>6 DEF Untouched, DailyLossBreached
  <2> HIDE DEF x
  <2>3. x > 0
      BY <1>5 DEF x
  <2> QED
      BY <2>1, <2>2, <2>3
<1>8. ~WeeklyLossBreached(e, StartingCash)
  <2> DEFINE x == StartingCash * WeeklyLossPct
  <2>1. x \in Int
      BY <1>3, <1>4, IntProduct
  <2>2. WeeklyLossBreached(e, StartingCash) <=> 0 <= -x
      BY <1>6 DEF Untouched, WeeklyLossBreached
  <2> HIDE DEF x
  <2>3. x > 0
      BY <1>5 DEF x
  <2> QED
      BY <2>1, <2>2, <2>3
<1>9. ~DrawdownBreached(e, StartingCash)
  <2> DEFINE x == DrawdownKillPct * StartingCash
  <2>1. x \in Int
      BY <1>3, <1>4, IntProduct
  <2>2. DrawdownBreached(e, StartingCash) <=> 0 >= x
      BY <1>6 DEF Untouched, DrawdownBreached
  <2> HIDE DEF x
  <2>3. x > 0
      BY <1>5 DEF x
  <2> QED
      BY <2>1, <2>2, <2>3
<1> QED
    BY <1>1, <1>2, <1>3, <1>7, <1>8, <1>9 DEF LimitsOk

(* A clock tick may stop out and mark, but before the first event it finds *)
(* nothing to do that would change the book.                               *)
LEMMA TradedUntouched ==
    ASSUME NEW e \in EngineState, NEW f, Untouched(e), Traded(f, e)
    PROVE  Untouched(f)
<1> SUFFICES ASSUME f.lastDay = None
             PROVE  /\ f.bbo = None /\ f.trade = None /\ f.venueMark = None
                    /\ f.book = FlatBook
                    /\ f.dayStart = StartingCash /\ f.weekStart = StartingCash
                    /\ f.peak = StartingCash
    BY DEF Untouched
<1>1. e.lastDay = None /\ SameCache(f, e) /\ SameWindows(f, e) /\ Booked(f, e)
    BY DEF Traded, SameCache
<1>2. CurrentTouch(f) = None
    BY <1>1, UntouchedLimits, SameCacheReads
<1>3. f.book = e.book
    BY <1>1, <1>2 DEF Booked
<1> QED
    BY <1>1, <1>3 DEF Untouched, SameCache, SameWindows

(* on_clock: a tick honours the stop and keeps the limits, also when the   *)
(* stop fills between two events.                                          *)
LEMMA TickSettles ==
    ASSUME NEW e0, Rest(e0), HaltDated(e0), Untouched(e0), NEW now \in Nat
    PROVE  LET r == Tick(e0, now)
           IN  Stepped(r, e0) /\ Honoured(r) /\ LimitsOk(r) /\ Untouched(r)
<1> DEFINE e       == AdvanceSourceClock(e0, now)
           stale   == now - ClockAnchor(e0) > StaleAfter
           touched == CurrentTouch(e) # CurrentTouch(e0)
           checks  == ~e.stopExitPending \/ e.exitWaiting \/ touched
           stopped == IF stale THEN FlattenHalt(e, "stale_data")
                      ELSE IF checks THEN CheckStop(e, now) ELSE e
           marked  == IF stopped.lastDay = None THEN stopped ELSE MarkLimits(stopped, stopped.lastDay)
           forced  == stale \/ marked.exitWaiting \/ touched \/ marked.kill # e0.kill
           flat    == IF forced THEN EnforceFlat(marked, now) ELSE marked
           again   == MarkLimits(flat, flat.lastDay)
           r       == IF flat.fillCount # e0.fillCount /\ flat.lastDay # None
                      THEN EnforceFlat(again, now) ELSE flat
<1>1. Tick(e0, now) = r
    BY DEF Tick, TickStops, TickMarks, TickFlattens, TickRemarks
<1>2. e0 \in EngineState /\ Rest(e)
    BY AdvanceSourceClockSound DEF Rest, Sound
<1>3. /\ Stepped(e, e0) /\ e.fillCount = e0.fillCount /\ Untouched(e)
    BY <1>2, AdvanceSourceClockCached, CachedStepped DEF Cached, Untouched
<1>4. e \in EngineState /\ HaltDated(e)
    BY <1>2, <1>3 DEF Rest, Sound, Stepped, Switched
<1> HIDE DEF e, stale, touched
<1>5. /\ Sound(stopped) /\ NoneImmediate(stopped)
      /\ Stepped(stopped, e) /\ SameCache(stopped, e)
      /\ Honoured(stopped) /\ Untouched(stopped)
  <2> DEFINE halted == FlattenHalt(e, "stale_data")
             checked == CheckStop(e, now)
  <2>1. /\ Sound(halted) /\ NoneImmediate(halted) /\ Stepped(halted, e) /\ SameCache(halted, e)
        /\ Honoured(halted) /\ Untouched(halted)
    <3>1. /\ Stepped(halted, e) /\ SameCache(halted, e) /\ halted.kill = "FLATTEN_HALT"
          /\ halted \in EngineState /\ SameTrading(halted, e)
        BY <1>2, <1>4, FlattenHaltMarks DEF Rest, Marked
    <3>2. halted.dayStart = e.dayStart /\ halted.weekStart = e.weekStart /\ halted.peak = e.peak
        BY <1>4, KillSwitchMarks
    <3> HIDE DEF halted
    <3>3. Sound(halted) /\ NoneImmediate(halted)
        BY <1>2, <3>1, SameTradingSound DEF Rest, SameTrading, NoneImmediate
    <3> QED
        BY <1>3, <3>1, <3>2, <3>3 DEF Honoured, Untouched, SameCache, SameTrading
  <2>2. /\ Sound(checked) /\ NoneImmediate(checked) /\ Stepped(checked, e)
        /\ SameCache(checked, e) /\ Honoured(checked) /\ Untouched(checked)
    <3>1. Sound(checked) /\ NoneImmediate(checked)
        BY <1>2, CheckStopSound, StepsToNoneImmediate DEF Rest, StepsTo
    <3>2. Traded(checked, e) /\ Honoured(checked)
        BY <1>2, CheckStopDealt DEF Rest
    <3> HIDE DEF checked
    <3> QED
        BY <1>3, <1>4, <3>1, <3>2, TradedStepped, TradedUntouched
  <2>3. ~checks => /\ Sound(e) /\ NoneImmediate(e) /\ Stepped(e, e) /\ SameCache(e, e)
                   /\ Honoured(e) /\ Untouched(e)
    <3>1. Stepped(e, e) /\ SameCache(e, e)
        BY <1>4, IdleReflexive, IdleTraded, TradedStepped
    <3> QED
        BY <1>2, <1>3, <3>1 DEF Rest, Honoured
  <2> HIDE DEF halted, checked, checks
  <2> QED
      BY <2>1, <2>2, <2>3 DEF halted, checked
<1> HIDE DEF stopped
<1>6. HaltDated(stopped) /\ stopped \in EngineState
    BY <1>5 DEF Stepped, Switched, Sound
<1>7. /\ Sound(marked) /\ NoneImmediate(marked)
      /\ Stepped(marked, stopped) /\ SameCache(marked, stopped)
      /\ Honoured(marked) /\ Untouched(marked) /\ LimitsOk(marked)
  <2>1. CASE stopped.lastDay = None
    <3>1. Stepped(stopped, stopped) /\ SameCache(stopped, stopped)
        BY <1>6, IdleReflexive, IdleTraded, TradedStepped
    <3> QED
        BY <1>5, <2>1, <3>1, UntouchedLimits
  <2>2. CASE stopped.lastDay # None
    <3>1. stopped.lastDay \in Nat
        BY <1>6, <2>2 DEF EngineState, MaybeNat
    <3> DEFINE m == MarkLimits(stopped, stopped.lastDay)
    <3>2. /\ Sound(m) /\ NoneImmediate(m) /\ Stepped(m, stopped) /\ SameCache(m, stopped)
          /\ Honoured(m) /\ LimitsOk(m)
        BY <1>5, <1>6, <3>1, MarkLimitsSound, MarkLimitsStepped
    <3> HIDE DEF m
    <3>3. Untouched(m)
        BY <2>2, <3>2 DEF SameCache, Untouched
    <3> QED
        BY <2>2, <3>2, <3>3 DEF m
  <2> QED
      BY <2>1, <2>2
<1> HIDE DEF marked
<1>8. HaltDated(marked) /\ marked \in EngineState
    BY <1>7 DEF Stepped, Switched, Sound
<1>9. /\ Sound(flat) /\ NoneImmediate(flat)
      /\ Stepped(flat, marked) /\ SameCache(flat, marked)
      /\ Honoured(flat) /\ Untouched(flat) /\ LimitsOk(flat)
  <2> DEFINE f == EnforceFlat(marked, now)
  <2>1. Sound(f) /\ NoneImmediate(f) /\ Traded(f, marked) /\ Honoured(f) /\ LimitsOk(f)
      BY <1>7, EnforceFlatSound, EnforceFlatDealt DEF Rest
  <2> HIDE DEF f
  <2>2. Stepped(f, marked) /\ SameCache(f, marked) /\ Untouched(f)
      BY <1>7, <1>8, <2>1, TradedStepped, TradedUntouched
  <2>3. Stepped(marked, marked) /\ SameCache(marked, marked)
      BY <1>8, IdleReflexive, IdleTraded, TradedStepped
  <2> HIDE DEF forced
  <2> QED
      BY <1>7, <2>1, <2>2, <2>3 DEF f
<1> HIDE DEF flat
<1>10. HaltDated(flat) /\ flat \in EngineState
    BY <1>9 DEF Stepped, Switched, Sound
<1>11. Stepped(r, flat) /\ SameCache(r, flat) /\ Honoured(r) /\ Untouched(r) /\ LimitsOk(r)
       /\ r \in EngineState
  <2>1. CASE r = flat
    <3>1. Stepped(flat, flat) /\ SameCache(flat, flat)
        BY <1>10, IdleReflexive, IdleTraded, TradedStepped
    <3> HIDE DEF r
    <3> QED
        BY <1>9, <1>10, <2>1, <3>1
  <2>2. CASE flat.lastDay # None /\ r = EnforceFlat(again, now)
    <3>1. flat.lastDay \in Nat
        BY <1>10, <2>2 DEF EngineState, MaybeNat
    <3>2. Settled(r, flat)
        BY <1>9, <1>10, <2>2, <3>1, MarkAndFlattenSettles
    <3>3. Sound(r)
      <4>1. Sound(again) /\ NoneImmediate(again)
          BY <1>9, <3>1, MarkLimitsSound
      <4> QED
          BY <2>2, <4>1, EnforceFlatSound DEF Rest
    <3> HIDE DEF r
    <3>4. Untouched(r)
        BY <2>2, <3>2 DEF Settled, SameCache, Untouched
    <3> QED
        BY <3>2, <3>3, <3>4 DEF Settled, Sound
  <2> QED
      BY <2>1, <2>2
<1> HIDE DEF r
<1>12. Stepped(stopped, e0)
    BY <1>2, <1>3, <1>4, <1>5, <1>6, SteppedTransitive
<1>13. Stepped(marked, e0)
    BY <1>2, <1>6, <1>7, <1>8, <1>12, SteppedTransitive
<1>14. Stepped(flat, e0)
    BY <1>2, <1>8, <1>9, <1>10, <1>13, SteppedTransitive
<1>15. Stepped(r, e0)
    BY <1>2, <1>10, <1>11, <1>14, SteppedTransitive
<1> QED
    BY <1>1, <1>11, <1>15

-----------------------------------------------------------------------------
(* The ledger over the specification.                                      *)

(* Between two handler calls, beside what EngineInv says, the ledger is    *)
(* kept, stops are honoured and the limits hold.                           *)
LedgerInv ==
    /\ EngineInv
    /\ HaltDated(eng)
    /\ Untouched(eng)
    /\ LedgerOk(eng)
    /\ Honoured(eng)
    /\ LimitsOk(eng)

(* The feed shows books of the feed. *)
LEMMA EventsShown == \A ev \in Events : ev.kind = "bbo" => Shown(ev)
<1> SUFFICES ASSUME NEW ev \in Events, ev.kind = "bbo" PROVE Shown(ev)
    OBVIOUS
<1>1. PICK b \in Bbos, t \in ReceiveTimes :
             ev = [kind |-> "bbo", ns |-> t, bid |-> b.bid, bidSize |-> b.bidSize,
                   ask |-> b.ask, askSize |-> b.askSize]
    BY DEF Events
<1> QED
    BY <1>1 DEF Shown

(* A new engine keeps its ledger. *)
LEMMA InitLedger == Init => LedgerInv
<1> SUFFICES ASSUME Init PROVE LedgerInv
    OBVIOUS
<1>1. EngineInv /\ eng = NewEngine
    BY InitRest DEF Init
<1>2. /\ eng.killReason = "none" /\ eng.lastDay = None /\ eng.book = FlatBook
      /\ eng.bbo = None /\ eng.trade = None /\ eng.venueMark = None
      /\ eng.dayStart = StartingCash /\ eng.weekStart = StartingCash /\ eng.peak = StartingCash
      /\ eng.bookTaken = {} /\ eng.tradeTaken = 0
    BY <1>1 DEF NewEngine
<1>3. HaltDated(eng) /\ Untouched(eng)
    BY <1>2 DEF HaltDated, LossReasons, Untouched
<1>4. LimitsOk(eng) /\ Honoured(eng)
    BY <1>2, <1>3, UntouchedLimits DEF Honoured, FlatBook
<1>5. Value(FlatBook.quantity, Px(FlatBook.average)) = 0
      /\ Value(Abs(FlatBook.quantity), Px(FlatBook.average)) = 0 /\ Abs(FlatBook.quantity) = 0
    BY DEF FlatBook, Value, Px, Abs
<1>6. CashOk(FlatBook) /\ AverageOk(FlatBook) /\ WithinLimits(FlatBook)
    BY <1>5, EngineAssumption DEF FlatBook, CashOk, AverageOk, WithinLimits
<1>7. LedgerOk(eng)
    BY <1>2, <1>6 DEF LedgerOk, QuoteSeen, TakesOk
<1> QED
    BY <1>1, <1>3, <1>4, <1>7 DEF LedgerInv

(* Every handler call keeps it, and moves the switch, the book and the     *)
(* orders as any part of a handler may.                                    *)
LEMMA NextSteps ==
    LedgerInv /\ Next => /\ Stepped(eng', eng)
                         /\ Untouched(eng') /\ Honoured(eng') /\ LimitsOk(eng')
<1> SUFFICES ASSUME LedgerInv, Next
             PROVE  /\ Stepped(eng', eng)
                    /\ Untouched(eng') /\ Honoured(eng') /\ LimitsOk(eng')
    OBVIOUS
<1>1. EngineInv /\ Rest(eng) /\ HaltDated(eng) /\ Untouched(eng)
    BY DEF LedgerInv, EngineInv
<1>2. Events \subseteq MarketEvents /\ ReceiveTimes \subseteq Nat /\ Days \subseteq Nat
    BY <1>1, EventsType, ReceiveTimesNat, EngineAssumption
<1>3. \A day \in Days : day # None
    BY <1>2, ExecutionAssumption
<1>4. ASSUME NEW ev \in Events, NEW day \in Days, NEW answer \in StrategyAnswers,
             OnEvent(ev, day, answer)
      PROVE  /\ Stepped(eng', eng)
             /\ Untouched(eng') /\ Honoured(eng') /\ LimitsOk(eng')
  <2>1. eng' = Advance(eng, ev, day, answer)
      BY <1>4 DEF OnEvent
  <2>2. Stepped(eng', eng) /\ Honoured(eng') /\ LimitsOk(eng') /\ eng'.lastDay = day
      BY <1>1, <1>2, <2>1, EventsShown, AdvanceSettles
  <2> QED
      BY <1>3, <2>2 DEF Untouched
<1>5. ASSUME NEW ev \in Events, NEW day \in Days, OnEventStrategyRaises(ev, day)
      PROVE  /\ Stepped(eng', eng)
             /\ Untouched(eng') /\ Honoured(eng') /\ LimitsOk(eng')
  <2> DEFINE e == AdvanceSourceClock(eng, ev.ns)
  <2>1. eng' = BeforeStrategy(e, ev, day)
      BY <1>5 DEF OnEventStrategyRaises
  <2>2. ev \in MarketEvents /\ day \in Nat /\ (ev.kind = "bbo" => Shown(ev))
      BY <1>2, EventsShown
  <2>3. ev.ns \in Nat /\ eng \in EngineState
      BY <1>1, <2>2 DEF MarketEvents, BboEvents, TradeEvents, Rest, Sound
  <2>4. Rest(e) /\ Stepped(e, eng) /\ e.fillCount = eng.fillCount
      BY <1>1, <2>3, AdvanceSourceClockSound, AdvanceSourceClockCached, CachedStepped DEF Cached
  <2> HIDE DEF e
  <2>5. HaltDated(e) /\ e \in EngineState
      BY <2>4 DEF Stepped, Switched, Rest, Sound
  <2>6. /\ Rest(eng') /\ Stepped(eng', e) /\ Honoured(eng') /\ LimitsOk(eng')
        /\ eng'.lastDay = day
      BY <2>1, <2>2, <2>4, <2>5, BeforeStrategySettles DEF Rest
  <2>7. Stepped(eng', eng)
      BY <1>1, <2>3, <2>4, <2>5, <2>6, SteppedTransitive DEF Rest, Sound
  <2> QED
      BY <1>3, <2>6, <2>7 DEF Untouched
<1>6. ASSUME NEW now \in ReceiveTimes, OnClock(now)
      PROVE  /\ Stepped(eng', eng)
             /\ Untouched(eng') /\ Honoured(eng') /\ LimitsOk(eng')
  <2>1. eng' = Tick(eng, now)
      BY <1>6 DEF OnClock
  <2> QED
      BY <1>1, <1>2, <2>1, TickSettles
<1> QED
    BY <1>4, <1>5, <1>6 DEF Next

(* So it is inductive. *)
LEMMA NextLedger == LedgerInv /\ [Next]_vars => LedgerInv'
<1> SUFFICES ASSUME LedgerInv, [Next]_vars PROVE LedgerInv'
    OBVIOUS
<1>1. EngineInv'
    BY NextRest DEF LedgerInv
<1>2. CASE Next
  <2>1. Stepped(eng', eng) /\ Untouched(eng') /\ Honoured(eng') /\ LimitsOk(eng')
      BY <1>2, NextSteps
  <2>2. HaltDated(eng') /\ LedgerOk(eng')
      BY <2>1 DEF Stepped, Switched, Booked, LedgerInv
  <2> QED
      BY <1>1, <2>1, <2>2 DEF LedgerInv
<1>3. CASE UNCHANGED vars
  <2>1. eng' = eng
      BY <1>3 DEF vars
  <2> QED
      BY <1>1, <2>1 DEF LedgerInv
<1> QED
    BY <1>2, <1>3

(* Between any two handler calls the ledger is kept. *)
THEOREM EngineLedger == Spec => []LedgerInv
<1> QED
    BY InitLedger, NextLedger, PTL DEF Spec

(* Cash, average entry, realized PnL and fees tell one story over any      *)
(* sequence of entries, partial exits and closes (apply_fill).             *)
THEOREM CashAlwaysReconciles == Spec => []CashReconciles
<1>1. LedgerInv => CashReconciles
    BY DEF LedgerInv, LedgerOk, CashOk, AverageOk, CashReconciles, Position
<1> QED
    BY <1>1, EngineLedger, PTL

(* A position never exceeds the hard limits at its own entry price, for    *)
(* every feed and every latency (_entry_fill_allows).                      *)
THEOREM HardLimitsAlwaysHold == Spec => []HardLimitsHold
<1>1. LedgerInv => HardLimitsHold
    BY DEF LedgerInv, LedgerOk, WithinLimits, HardLimitsHold, Position
<1> QED
    BY <1>1, EngineLedger, PTL

(* PAPER never takes more from a level within its refill time, or from a   *)
(* print, than the feed displayed there (_available, _take_touch).         *)
THEOREM NeverTakesTwice == Spec => []NoDoubleTake
<1>1. LedgerInv => NoDoubleTake
  <2> SUFFICES ASSUME LedgerInv PROVE NoDoubleTake
      OBVIOUS
  <2>1. TakesOk(eng)
      BY DEF LedgerInv, LedgerOk
  <2> QED
      BY <2>1 DEF TakesOk, Offered, NoDoubleTake
<1> QED
    BY <1>1, EngineLedger, PTL

(* A crossed stop is a pending exit or the switch is flattening, whatever  *)
(* order quotes, marks, prints and ticks arrive in (_check_stop).          *)
THEOREM StopsAlwaysHonoured == Spec => []StopHonoured
<1>1. LedgerInv => StopHonoured
    BY DEF LedgerInv, Honoured, StopHonoured, Position
<1> QED
    BY <1>1, EngineLedger, PTL

(* With the switch off equity is known and no loss limit is breached, and  *)
(* a breached drawdown is a flatten, whatever moved the equity last        *)
(* (_mark_limits and every handler that must call it).                     *)
THEOREM LimitsAlwaysAtRest == Spec => []LimitsAtRest
<1>1. LedgerInv => LimitsAtRest
    BY DEF LedgerInv, LimitsOk, LimitsAtRest
<1> QED
    BY <1>1, EngineLedger, PTL

(* While the kill switch is on no handler adds risk: the position shrinks  *)
(* and the switch stays, unless the event ends the window of that very     *)
(* loss halt (_submit_desired, _enforce_flat, _roll_windows).              *)
THEOREM HaltNeverAddsRisk == Spec => HaltedNeverAddsRisk
<1> DEFINE keeps == eng.kill # "NONE" /\ ~LossWindowEnds =>
                      /\ eng'.kill \in {eng.kill, "FLATTEN_HALT"}
                      /\ Abs(Position') <= Abs(Position)
                      /\ Sign(Position') \in {0, Sign(Position)}
<1>1. LedgerInv /\ [Next]_vars => [keeps]_vars
  <2> SUFFICES ASSUME LedgerInv, Next, eng.kill # "NONE", ~LossWindowEnds
               PROVE  /\ eng'.kill \in {eng.kill, "FLATTEN_HALT"}
                      /\ Abs(Position') <= Abs(Position)
                      /\ Sign(Position') \in {0, Sign(Position)}
      OBVIOUS
  <2>1. Stepped(eng', eng)
      BY NextSteps
  <2>2. ~WindowEnded(eng', eng)
      BY DEF LossWindowEnds, WindowEnded, Ends
  <2>3. Entryless(eng)
      BY DEF LedgerInv, EngineInv, Rest, QuietOnHalt, Entryless
  <2> QED
      BY <2>1, <2>2, <2>3 DEF Stepped, Switched, SwitchKept, Guarded, Shrunk, Position
<1> QED
    BY <1>1, EngineLedger, PTL DEF Spec, HaltedNeverAddsRisk

(* Whatever was filled on is still a usable touch when the handler         *)
(* returns (_fill_against, _try_fill).                                     *)
THEOREM FillsOnlyOnUsableQuotes == Spec => NoFillFromExpiredQuote
<1> DEFINE usable == eng'.fillCount > eng.fillCount => CurrentTouch(eng)' # None
<1>1. LedgerInv /\ [Next]_vars => [usable]_vars
  <2> SUFFICES ASSUME LedgerInv, Next, eng'.fillCount > eng.fillCount
               PROVE  CurrentTouch(eng)' # None
      OBVIOUS
  <2>1. Booked(eng', eng)
      BY NextSteps DEF Stepped
  <2>2. eng.fillCount \in Nat
      BY DEF LedgerInv, EngineInv, Rest, Sound, EngineState
  <2>3. eng'.fillCount # eng.fillCount
      BY <2>2
  <2> QED
      BY <2>1, <2>3 DEF Booked
<1> QED
    BY <1>1, EngineLedger, PTL DEF Spec, NoFillFromExpiredQuote

(* The loss at the stop of a newly opened position is within the per-trade *)
(* risk budget of the equity it was opened with, at the price it really    *)
(* filled at (risk_based_size, _entry_fill_allows).                        *)
THEOREM EntriesRiskTheirBudget == Spec => EntryRiskBounded
<1> DEFINE bounded == Position = 0 /\ Position' # 0 /\ eng'.fillCount = eng.fillCount + 1
                        => Value(Abs(Position'), Abs(Px(eng'.book.average) - eng'.stop)) * 100
                             <= RiskPerTradePct * eng.book.cash
<1>1. LedgerInv /\ [Next]_vars => [bounded]_vars
  <2> SUFFICES ASSUME LedgerInv, Next,
                      Position = 0, Position' # 0, eng'.fillCount = eng.fillCount + 1
               PROVE  Value(Abs(Position'), Abs(Px(eng'.book.average) - eng'.stop)) * 100
                        <= RiskPerTradePct * eng.book.cash
      OBVIOUS
  <2>1. Booked(eng', eng)
      BY NextSteps DEF Stepped
  <2>2. WithinRisk(eng'.book, eng.book.cash)
      BY <2>1 DEF Booked, Position
  <2>3. EngineInv'
      BY NextRest DEF LedgerInv
  <2>4. eng'.stop = StopFor(eng'.book)
      BY <2>3 DEF EngineInv, Rest, Sound, StopOk, Position
  <2> QED
      BY <2>2, <2>4 DEF WithinRisk, Position
<1> QED
    BY <1>1, EngineLedger, PTL DEF Spec, EntryRiskBounded

-----------------------------------------------------------------------------
(* The feed in order: what holds the sizes taken, and what halts on a gap. *)

(* What a method may do at ns to the holds: it adds none but those of ns,  *)
(* and a hold that is not over stays, or a later one takes its place.      *)
Refilled(f, e, ns) ==
    /\ \A h \in f.bookTaken : h \in e.bookTaken \/ h.until = ns + TouchRefill
    /\ \A h \in e.bookTaken : h.until > ns /\ h.until <= ns + TouchRefill =>
         \E k \in f.bookTaken : /\ k.side = h.side /\ k.price = h.price
                                /\ k.until >= h.until /\ k.until <= ns + TouchRefill

(* Holds end at some time. *)
LEMMA HoldsUntil ==
    ASSUME NEW e \in EngineState
    PROVE  \A h \in e.bookTaken : h.until \in Nat
    BY DEF EngineState, Holds

(* Who leaves the holds alone does nothing to them. *)
LEMMA SameHoldsRefilled ==
    ASSUME NEW e \in EngineState, NEW f, f.bookTaken = e.bookTaken, NEW ns \in Nat
    PROVE  Refilled(f, e, ns)
    BY HoldsUntil DEF Refilled

(* Two methods of one handler make one. *)
LEMMA RefilledTransitive ==
    ASSUME NEW e \in EngineState, NEW f \in EngineState, NEW g \in EngineState, NEW ns \in Nat,
           Refilled(f, e, ns), Refilled(g, f, ns)
    PROVE  Refilled(g, e, ns)
<1>1. \A h \in g.bookTaken : h \in e.bookTaken \/ h.until = ns + TouchRefill
    BY DEF Refilled
<1>2. ns + TouchRefill \in Nat
    BY EngineAssumption
<1>3. ASSUME NEW h \in e.bookTaken, h.until > ns, h.until <= ns + TouchRefill
      PROVE  \E k \in g.bookTaken : /\ k.side = h.side /\ k.price = h.price
                                    /\ k.until >= h.until /\ k.until <= ns + TouchRefill
  <2>1. PICK j \in f.bookTaken : /\ j.side = h.side /\ j.price = h.price
                                 /\ j.until >= h.until /\ j.until <= ns + TouchRefill
      BY <1>3 DEF Refilled
  <2>2. h.until \in Nat /\ j.until \in Nat
      BY HoldsUntil
  <2>3. j.until > ns
      BY <1>3, <2>1, <2>2
  <2>4. PICK k \in g.bookTaken : /\ k.side = j.side /\ k.price = j.price
                                 /\ k.until >= j.until /\ k.until <= ns + TouchRefill
      BY <2>1, <2>3 DEF Refilled
  <2>5. k.until \in Nat
      BY HoldsUntil
  <2> QED
      BY <2>1, <2>2, <2>4, <2>5
<1> QED
    BY <1>1, <1>3 DEF Refilled

(* A fill holds its price for the refill time from now, and clears only    *)
(* what is over (_take_touch).                                             *)
LEMMA CompleteFilledRefills ==
    ASSUME NEW e \in EngineState, NEW quote \in Touches, NEW fill \in Fills, NEW ns \in Nat
    PROVE  Refilled(CompleteFilled(e, quote, fill, ns), e, ns)
<1> DEFINE hold == [side |-> fill.side, price |-> Displayed(quote, fill.side).price,
                    quantity |-> fill.quantity + TakenFrom(e, quote, fill.side, ns),
                    until |-> ns + TouchRefill]
           r == CompleteFilled(e, quote, fill, ns)
<1>1. /\ quote.kind = "trade" => r.bookTaken = e.bookTaken
      /\ quote.kind # "trade" =>
           /\ r.bookTaken \subseteq e.bookTaken \cup {hold}
           /\ hold \in r.bookTaken
           /\ \A h \in e.bookTaken \ r.bookTaken :
                h.until <= ns \/ (h.side = hold.side /\ h.price = hold.price)
    BY CompleteFilledFields
<1>2. hold.until = ns + TouchRefill /\ ns + TouchRefill \in Nat
    BY EngineAssumption
<1> HIDE DEF hold, r
<1>3. CASE quote.kind = "trade"
    BY <1>1, <1>3, SameHoldsRefilled DEF r
<1>4. CASE quote.kind # "trade"
  <2>1. \A h \in r.bookTaken : h \in e.bookTaken \/ h.until = ns + TouchRefill
      BY <1>1, <1>2, <1>4
  <2>2. ASSUME NEW h \in e.bookTaken, h.until > ns, h.until <= ns + TouchRefill
        PROVE  \E k \in r.bookTaken : /\ k.side = h.side /\ k.price = h.price
                                      /\ k.until >= h.until /\ k.until <= ns + TouchRefill
    <3>1. h.until \in Nat
        BY HoldsUntil
    <3>2. CASE h \in r.bookTaken
        BY <2>2, <3>1, <3>2
    <3>3. CASE h \notin r.bookTaken
      <4>1. h.side = hold.side /\ h.price = hold.price
          BY <1>1, <1>4, <2>2, <3>1, <3>3
      <4> QED
          BY <1>1, <1>2, <1>4, <2>2, <3>1, <4>1
    <3> QED
        BY <3>2, <3>3
  <2> QED
      BY <2>1, <2>2 DEF Refilled, r
<1> QED
    BY <1>3, <1>4

(* And so does an order that completes on a quote, filled or not.          *)
LEMMA FillAgainstRefills ==
    ASSUME NEW e, Sound(e), e.working # None, NEW ns \in Nat,
           NEW quote, quote \in Touches \/ (quote.kind = "bbo" /\ ~BboIsComplete(quote))
    PROVE  Refilled(FillAgainst(e, quote, ns), e, ns)
<1> DEFINE w     == e.working
           touch == Displayed(quote, w.side)
           left  == Available(e, quote, w.side, ns)
           fill  == QuoteTakerFill(w.side, w.quantity, touch.price, left)
           block == FillBlock(e, fill)
           asked == [side |-> w.side, reduceOnly |-> w.reduceOnly, quantity |-> w.desired]
           refused == Reject(e, block.reason, block.detail, asked)
           r == FillAgainst(e, quote, ns)
<1>1. e \in EngineState /\ w \in WorkingOrders
    BY DEF Sound, EngineState
<1>2. \A unfilled : Refilled(CompleteUnfilled(e, unfilled), e, ns)
    BY <1>1, CompleteUnfilledIdle, SameHoldsRefilled DEF Idle, SameLedger
<1>3. CASE ~SourceIsFresh(e, quote.ns)
    BY <1>2, <1>3 DEF FillAgainst
<1>4. CASE SourceIsFresh(e, quote.ns) /\ quote.kind = "bbo" /\ ~BboIsComplete(quote)
    BY <1>2, <1>4 DEF FillAgainst
<1>5. CASE SourceIsFresh(e, quote.ns) /\ ~(quote.kind = "bbo" /\ ~BboIsComplete(quote))
  <2>1. quote \in Touches
      BY <1>5
  <2>2. touch.price \in Prices /\ left \in Nat
      BY <1>1, <2>1, DisplayedType, AvailableType
  <2>3. w.side \in Sides /\ w.quantity \in Nat /\ w.reduceOnly \in BOOLEAN /\ w.desired \in Nat \ {0}
      BY <1>1 DEF WorkingOrders
  <2> HIDE DEF w, touch, left
  <2>4. fill # None => fill \in Fills
      BY <2>2, <2>3, QuoteTakerFillType
  <2> HIDE DEF fill
  <2>5. ASSUME fill # None, block # None
        PROVE  Refilled(CompleteUnfilled(refused, "risk_rejected"), e, ns)
    <3>1. block \in Refusals
        BY <1>1, <2>4, <2>5, FillBlockType DEF w
    <3>2. block.reason \in Reasons /\ block.detail \in SUBSET Details
        BY <3>1 DEF Refusals
    <3> HIDE DEF block
    <3>3. asked \in DesiredOrders
        BY <2>3 DEF DesiredOrders
    <3> HIDE DEF asked
    <3>4. refused \in EngineState /\ refused.bookTaken = e.bookTaken
        BY <1>1, <3>2, <3>3, RejectType, RejectIdle DEF Idle, SameLedger
    <3> HIDE DEF refused
    <3>5. CompleteUnfilled(refused, "risk_rejected").bookTaken = refused.bookTaken
        BY <3>4, CompleteUnfilledIdle DEF Idle, SameLedger
    <3> QED
        BY <1>1, <3>4, <3>5, SameHoldsRefilled
  <2>6. ASSUME fill # None PROVE Refilled(CompleteFilled(e, quote, fill, ns), e, ns)
      BY <1>1, <2>1, <2>4, <2>6, CompleteFilledRefills
  <2>7. r = IF QuoteUsedUp(e, quote, w.side, ns) THEN CompleteUnfilled(e, "touch_consumed")
            ELSE IF fill = None THEN CompleteUnfilled(e, "no_touch")
            ELSE IF BeyondLimit(w.side, fill.price, w.limit)
              THEN CompleteUnfilled(e, "price_band")
            ELSE IF block # None THEN CompleteUnfilled(refused, "risk_rejected")
            ELSE CompleteFilled(e, quote, fill, ns)
      BY <1>5 DEF FillAgainst, FillAtQuote, QuotedFill, FillOrRefuse, w, touch, left, fill
  <2> HIDE DEF r, block, refused
  <2>8. Refilled(r, e, ns)
      BY <1>2, <2>5, <2>6, <2>7
  <2> QED
      BY <2>8 DEF r
<1> QED
    BY <1>3, <1>4, <1>5

(* _fill_working_from_book. *)
LEMMA FillWorkingFromBookRefills ==
    ASSUME NEW e, Sound(e), NEW ns \in Nat
    PROVE  Refilled(FillWorkingFromBook(e, ns), e, ns)
<1> DEFINE missing == e.working.reduceOnly /\ e.book.quantity # 0
           m == [e EXCEPT !.missingFlatten = missing]
           r == FillWorkingFromBook(e, ns)
<1>1. e \in EngineState
    BY DEF Sound
<1>2. CASE e.working = None \/ ns < e.working.eligible
    BY <1>1, <1>2, SameHoldsRefilled DEF FillWorkingFromBook
<1>3. CASE ~(e.working = None \/ ns < e.working.eligible) /\ CurrentTouch(e) = None
  <2>1. r = m
      BY <1>3 DEF FillWorkingFromBook
  <2> HIDE DEF missing, r
  <2>2. m.bookTaken = e.bookTaken
      BY <1>1 DEF EngineState
  <2> QED
      BY <1>1, <2>1, <2>2, SameHoldsRefilled DEF r
<1>4. CASE ~(e.working = None \/ ns < e.working.eligible) /\ CurrentTouch(e) # None
  <2>1. CurrentTouch(e) \in Touches
      BY <1>1, <1>4, CurrentTouchType
  <2>2. r = FillAgainst(e, CurrentTouch(e), ns)
      BY <1>4 DEF FillWorkingFromBook
  <2> QED
      BY <1>4, <2>1, <2>2, FillAgainstRefills
<1> QED
    BY <1>2, <1>3, <1>4

(* _try_fill takes at the time of its event. *)
LEMMA TryFillRefills ==
    ASSUME NEW e, Sound(e), NEW ev \in MarketEvents
    PROVE  Refilled(TryFill(e, ev), e, ev.ns)
<1> DEFINE tries == /\ e.working # None
                    /\ ev.ns >= e.working.eligible
                    /\ ev.kind = "bbo" \/ (ev.kind = "trade" /\ ~BookComplete(e))
<1>1. ev.ns \in Nat
    BY DEF MarketEvents, BboEvents, TradeEvents
<1>2. CASE tries
  <2>1. ev \in BboEvents \/ ev \in TradeEvents
      BY <1>2 DEF MarketEvents
  <2>2. ev \in BboEvents => ev.kind = "bbo"
      BY DEF BboEvents
  <2>3. ev \in Touches \/ (ev.kind = "bbo" /\ ~BboIsComplete(ev))
      BY <2>1, <2>2 DEF Touches
  <2>4. Refilled(FillAgainst(e, ev, ev.ns), e, ev.ns)
      BY <1>1, <1>2, <2>3, FillAgainstRefills
  <2> QED
      BY <1>2, <2>4 DEF TryFill
<1>3. CASE ~tries
    BY <1>1, <1>3, SameHoldsRefilled DEF TryFill, Sound
<1> QED
    BY <1>2, <1>3

(* An immediate exit takes at its own time. *)
LEMMA AttemptImmediateExitRefills ==
    ASSUME NEW e, Sound(e), e.book.quantity # 0, NEW ns \in Nat, NEW reason \in Callers
    PROVE  Refilled(AttemptImmediateExit(e, ns, reason), e, ns)
<1> DEFINE desired == FlattenDesired(e.book.quantity)
           waiting == [e EXCEPT !.exitWaiting = TRUE]
           trying  == [e EXCEPT !.exitWaiting = FALSE]
           sent    == SubmitDesired(trying, desired, ns, reason, TRUE, FALSE)
           filled  == FillWorkingFromBook(sent, ns)
           r       == AttemptImmediateExit(e, ns, reason)
<1>1. e \in EngineState /\ e.book.quantity \in Int
    BY DEF Sound, EngineState, Books
<1>2. desired \in DesiredOrders /\ desired.reduceOnly
    BY <1>1 DEF FlattenDesired, DesiredOrders, Abs, Sides
<1>3. Sound(waiting) /\ Sound(trying)
    BY SetExitWaiting
<1>4. waiting.bookTaken = e.bookTaken /\ trying.bookTaken = e.bookTaken
    BY <1>1 DEF EngineState
<1>5. r \in {CancelWorking(waiting), waiting, filled}
    BY DEF AttemptImmediateExit
<1> HIDE DEF desired, waiting, trying
<1>6. CancelWorking(waiting).bookTaken = e.bookTaken
    BY <1>3, <1>4, CancelWorkingIdle DEF Sound, Idle, SameLedger
<1>7. Sound(sent) /\ sent.bookTaken = e.bookTaken
    BY <1>2, <1>3, <1>4, SubmitDesiredSound, SubmitDesiredIdle DEF Submitted, Idle, SameLedger
<1> HIDE DEF sent
<1>8. filled \in EngineState /\ Refilled(filled, sent, ns)
    BY <1>7, FillWorkingFromBookSound, FillWorkingFromBookRefills DEF StepsTo, Sound
<1> HIDE DEF filled
<1>9. Refilled(filled, e, ns)
    BY <1>7, <1>8 DEF Refilled
<1> QED
    BY <1>1, <1>4, <1>5, <1>6, <1>9, SameHoldsRefilled

(* So does a stop. *)
LEMMA CheckStopRefills ==
    ASSUME NEW e, Sound(e), NEW ns \in Nat
    PROVE  Refilled(CheckStop(e, ns), e, ns)
<1> DEFINE sign  == Sign(e.book.quantity)
           armed == [e EXCEPT !.stopExitPending = TRUE, !.stopLockout = sign]
           triggered == IF e.stopExitPending THEN e ELSE armed
           r     == CheckStop(e, ns)
<1>1. e \in EngineState
    BY DEF Sound
<1>2. CASE e.book.quantity = 0 \/ e.stop = None \/ (~e.stopExitPending /\ ~StopCrossed(e))
    BY <1>1, <1>2, SameHoldsRefilled DEF CheckStop
<1>3. CASE ~(e.book.quantity = 0 \/ e.stop = None \/ (~e.stopExitPending /\ ~StopCrossed(e)))
  <2>1. ~e.stopExitPending => /\ Sound(armed) /\ armed.book = e.book
                              /\ armed.bookTaken = e.bookTaken
    <3>1. ~e.stopExitPending => Sound(armed) /\ armed.book = e.book
        BY <1>3, TriggerSound
    <3>2. armed.bookTaken = e.bookTaken
      <4> HIDE DEF sign
      <4> QED
          BY <1>1 DEF EngineState
    <3> QED
        BY <3>1, <3>2
  <2> HIDE DEF armed
  <2>2. Sound(triggered) /\ triggered.book = e.book /\ triggered.bookTaken = e.bookTaken
      BY <2>1
  <2>3. r = IF e.kill = "FLATTEN_HALT" THEN triggered
            ELSE AttemptImmediateExit(triggered, ns, "stop-exit")
      BY <1>3 DEF CheckStop, armed
  <2> HIDE DEF triggered, r
  <2>4. Refilled(AttemptImmediateExit(triggered, ns, "stop-exit"), triggered, ns)
      BY <1>3, <2>2, AttemptImmediateExitRefills DEF Callers
  <2>5. Refilled(AttemptImmediateExit(triggered, ns, "stop-exit"), e, ns)
      BY <2>2, <2>4 DEF Refilled
  <2>6. Refilled(triggered, e, ns)
      BY <1>1, <2>2, SameHoldsRefilled
  <2> QED
      BY <2>3, <2>5, <2>6 DEF r
<1> QED
    BY <1>2, <1>3

(* And the kill switch. *)
LEMMA EnforceFlatRefills ==
    ASSUME NEW e, Sound(e), NEW ns \in Nat
    PROVE  Refilled(EnforceFlat(e, ns), e, ns)
<1> DEFINE entryOnHalt == e.kill # "NONE" /\ e.working # None /\ ~e.working.reduceOnly
           quiet == IF entryOnHalt THEN CancelWorking(e) ELSE e
           none  == CancelWorking(quiet)
           clean == [none EXCEPT !.missingFlatten = FALSE]
           exit  == AttemptImmediateExit(quiet, ns, "kill-flatten")
           r     == EnforceFlat(e, ns)
<1>1. r = IF e.kill # "FLATTEN_HALT" THEN quiet
          ELSE IF quiet.book.quantity = 0 THEN clean ELSE exit
    BY DEF EnforceFlat
<1>2. e \in EngineState
    BY DEF Sound
<1>3. Sound(quiet) /\ quiet.bookTaken = e.bookTaken
  <2> DEFINE c == CancelWorking(e)
  <2>1. Sound(c) /\ c.bookTaken = e.bookTaken
      BY <1>2, CancelWorkingSound, CancelWorkingIdle DEF Idle, SameLedger
  <2> HIDE DEF c
  <2> QED
      BY <2>1 DEF c
<1> HIDE DEF quiet
<1>4. clean.bookTaken = e.bookTaken
  <2>1. none \in EngineState /\ none.bookTaken = quiet.bookTaken
      BY <1>3, CancelWorkingSound, CancelWorkingIdle DEF Sound, Idle, SameLedger
  <2> HIDE DEF none
  <2>2. clean.bookTaken = none.bookTaken
      BY <2>1 DEF EngineState
  <2> QED
      BY <1>3, <2>1, <2>2
<1>5. quiet.book.quantity # 0 => Refilled(exit, quiet, ns)
    BY <1>3, AttemptImmediateExitRefills DEF Callers
<1>6. quiet.book.quantity # 0 => Refilled(exit, e, ns)
    BY <1>3, <1>5 DEF Refilled
<1> HIDE DEF clean, exit, r
<1>7. Refilled(quiet, e, ns) /\ Refilled(clean, e, ns)
    BY <1>2, <1>3, <1>4, SameHoldsRefilled
<1>8. Refilled(r, e, ns)
    BY <1>1, <1>6, <1>7
<1> QED
    BY <1>8 DEF r

(* What halts a feed that is not stale: nothing that says it is. *)
NoGap(f, e) ==
    f.kill = "FLATTEN_HALT" /\ f.killReason = "stale_data" =>
        e.kill = "FLATTEN_HALT" /\ e.killReason = "stale_data"

(* _roll_windows only releases. *)
LEMMA RollWindowsNoGap ==
    ASSUME NEW e \in EngineState, NEW day \in Nat, NEW equity \in Int
    PROVE  NoGap(RollWindows(e, day, equity), e)
<1> DEFINE first == [e EXCEPT !.day = day]
           begun == [e EXCEPT !.day = day, !.dayStart = equity]
           d == IF day > e.day THEN ReleaseHalt(begun, "daily_loss") ELSE e
           w == [d EXCEPT !.weekStart = equity]
           f == RollWindows(e, day, equity)
<1>1. first.kill = e.kill /\ first.killReason = e.killReason
    BY DEF EngineState
<1>2. begun \in EngineState /\ begun.kill = e.kill /\ begun.killReason = e.killReason
  <2>1. begun \in EngineState
      BY DEF EngineState, MaybeNat
  <2>2. begun.kill = e.kill /\ begun.killReason = e.killReason
      BY DEF EngineState
  <2> QED
      BY <2>1, <2>2
<1>3. f \in {first, d, ReleaseHalt(w, "weekly_loss")}
    BY DEF RollWindows
<1> HIDE DEF first, begun, f
<1>4. d \in EngineState /\ NoGap(d, e)
  <2>1. ReleaseHalt(begun, "daily_loss") \in EngineState
      BY <1>2, KillSwitchType DEF KillReasons
  <2>2. NoGap(ReleaseHalt(begun, "daily_loss"), begun)
      BY <1>2 DEF EngineState, ReleaseHalt, NoGap
  <2> QED
      BY <1>2, <2>1, <2>2 DEF NoGap
<1> HIDE DEF d
<1>5. w \in EngineState /\ w.kill = d.kill /\ w.killReason = d.killReason
    BY <1>4 DEF EngineState
<1> HIDE DEF w
<1>6. NoGap(ReleaseHalt(w, "weekly_loss"), w)
    BY <1>5 DEF EngineState, ReleaseHalt, NoGap
<1>7. NoGap(f, e)
    BY <1>1, <1>3, <1>4, <1>5, <1>6 DEF NoGap
<1> QED
    BY <1>7 DEF f

(* _mark_limits flattens for a drawdown alone. *)
LEMMA MarkLimitsNoGap ==
    ASSUME NEW e \in EngineState, NEW day \in Nat
    PROVE  NoGap(MarkLimits(e, day), e)
<1> DEFINE equity == Equity(e)
           rolled == RollWindows(e, day, equity)
           m == MarkedPeak(e, day, equity)
           p == MarkedPnl(m, equity)
           daily == IF DailyLossBreached(p, equity) THEN HaltNew(p, "daily_loss") ELSE p
           r == MarkLimits(e, day)
<1>1. equity \in Int \cup {None}
    BY EquityType
<1>2. \A f \in EngineState : \A reason :
        /\ NoGap(HaltNew(f, reason), f)
        /\ NoGap(ReleaseHalt(f, reason), f)
        /\ reason # "stale_data" => NoGap(FlattenHalt(f, reason), f)
    BY DEF EngineState, HaltNew, ReleaseHalt, FlattenHalt, NoGap
<1>3. CASE equity = None
    BY <1>2, <1>3 DEF MarkLimits, LimitsAt
<1>4. CASE equity # None
  <2>1. equity \in Int
      BY <1>1, <1>4
  <2>2. rolled \in EngineState /\ m \in EngineState
      BY <2>1, RollWindowsType, MarkedPeakType
  <2>3. p \in EngineState
      BY <2>1, <2>2, MarkedPnlType
  <2>4. NoGap(rolled, e)
      BY <2>1, RollWindowsNoGap
  <2>5. m.kill = rolled.kill /\ m.killReason = rolled.killReason
    <3> DEFINE peak == MaxOf(rolled.peak, equity)
    <3>1. m = [rolled EXCEPT !.peak = peak]
        BY DEF MarkedPeak
    <3> HIDE DEF rolled, peak, m
    <3> QED
        BY <2>2, <3>1, SetWeekOrPeak
  <2>6. p.kill = m.kill /\ p.killReason = m.killReason
      BY <2>2, MarkedPnlMarks DEF SameWindows
  <2>7. r = IF DrawdownBreached(m, equity) THEN FlattenHalt(m, "drawdown")
            ELSE IF WeeklyLossBreached(p, equity) THEN HaltNew(daily, "weekly_loss") ELSE daily
      BY <1>4 DEF MarkLimits, LimitsAt, LimitsChecked, HaltOnLoss, m, p
  <2> HIDE DEF rolled, m, p
  <2>8. daily \in EngineState /\ NoGap(daily, p)
    <3>1. HaltNew(p, "daily_loss") \in EngineState
        BY <2>3, KillSwitchType DEF KillReasons
    <3> QED
        BY <1>2, <2>3, <3>1 DEF NoGap
  <2> HIDE DEF daily, equity, r
  <2>9. NoGap(FlattenHalt(m, "drawdown"), m) /\ NoGap(HaltNew(daily, "weekly_loss"), daily)
      BY <1>2, <2>2, <2>8
  <2>10. NoGap(r, e)
      BY <2>4, <2>5, <2>6, <2>7, <2>8, <2>9 DEF NoGap
  <2> QED
      BY <2>10 DEF r
<1> QED
    BY <1>3, <1>4

(* What every method of a handler that runs at ns does to the feed's time. *)
InTurn(f, e, ns) == SameCache(f, e) /\ Refilled(f, e, ns) /\ NoGap(f, e)

(* Two methods of one handler make one. *)
LEMMA InTurnTransitive ==
    ASSUME NEW e \in EngineState, NEW f \in EngineState, NEW g \in EngineState, NEW ns \in Nat,
           InTurn(f, e, ns), InTurn(g, f, ns)
    PROVE  InTurn(g, e, ns)
    BY RefilledTransitive DEF InTurn, SameCache, NoGap

(* Doing nothing is one. *)
LEMMA InTurnReflexive ==
    ASSUME NEW e \in EngineState, NEW ns \in Nat
    PROVE  InTurn(e, e, ns)
    BY SameHoldsRefilled DEF InTurn, SameCache, NoGap

(* A method that may trade, with what it takes. *)
LEMMA TradedInTurn ==
    ASSUME NEW e, NEW f, Traded(f, e), NEW ns \in Nat, Refilled(f, e, ns)
    PROVE  InTurn(f, e, ns)
    BY DEF Traded, SameWindows, InTurn, NoGap

(* The strategy's turn takes nothing. *)
LEMMA IdleInTurn ==
    ASSUME NEW e \in EngineState, NEW f, Idle(f, e), NEW ns \in Nat
    PROVE  InTurn(f, e, ns)
    BY SameHoldsRefilled DEF Idle, SameLedger, SameWindows, InTurn, NoGap

(* _mark_limits takes nothing and finds no gap. *)
LEMMA MarkLimitsInTurn ==
    ASSUME NEW e \in EngineState, HaltDated(e), NEW day \in Nat, NEW ns \in Nat
    PROVE  InTurn(MarkLimits(e, day), e, ns)
    BY MarkLimitsMarks, MarkLimitsNoGap, SameHoldsRefilled DEF Marked, SameLedger, InTurn

(* _check_stop, and _enforce_flat. *)
LEMMA ExitsInTurn ==
    ASSUME NEW e, Sound(e), NoneImmediate(e), NEW ns \in Nat
    PROVE  InTurn(CheckStop(e, ns), e, ns) /\ InTurn(EnforceFlat(e, ns), e, ns)
    BY CheckStopDealt, CheckStopRefills, EnforceFlatDealt, EnforceFlatRefills, TradedInTurn

(* The marking, then _enforce_flat. *)
LEMMA MarkAndFlattenInTurn ==
    ASSUME NEW e, Sound(e), NoneImmediate(e), HaltDated(e), NEW day \in Nat, NEW ns \in Nat
    PROVE  LET r == EnforceFlat(MarkLimits(e, day), ns)
           IN  InTurn(r, e, ns) /\ Sound(r)
<1> DEFINE m == MarkLimits(e, day)
           r == EnforceFlat(m, ns)
<1>1. Sound(m) /\ NoneImmediate(m)
    BY MarkLimitsSound
<1>2. InTurn(m, e, ns)
    BY MarkLimitsInTurn DEF Sound
<1> HIDE DEF m
<1>3. InTurn(r, m, ns) /\ Sound(r)
    BY <1>1, ExitsInTurn, EnforceFlatSound DEF Rest
<1> HIDE DEF r
<1>4. InTurn(r, e, ns)
    BY <1>1, <1>2, <1>3, InTurnTransitive DEF Sound
<1> QED
    BY <1>3, <1>4 DEF r, m

(* From the event's fill to the end of a handler. *)
LEMMA AfterStrategyInTurn ==
    ASSUME NEW e, Sound(e), NoneImmediate(e), HaltDated(e), NEW ev \in MarketEvents,
           Known(e, ev), NEW day \in Nat
    PROVE  InTurn(AfterStrategy(e, ev, day), e, ev.ns)
<1> DEFINE filled == TryFill(e, ev)
           exited == CheckStop(filled, ev.ns)
           r      == EnforceFlat(MarkLimits(exited, day), ev.ns)
<1>1. ev.ns \in Nat /\ e \in EngineState
    BY DEF MarketEvents, BboEvents, TradeEvents, Sound
<1>2. Sound(filled) /\ NoneImmediate(filled) /\ Traded(filled, e) /\ InTurn(filled, e, ev.ns)
    BY <1>1, TryFillSound, TryFillDealt, TryFillRefills, TradedInTurn, StepsToNoneImmediate
    DEF StepsTo, Dealt
<1> HIDE DEF filled
<1>3. /\ Sound(exited) /\ NoneImmediate(exited) /\ Traded(exited, filled)
      /\ InTurn(exited, filled, ev.ns)
    BY <1>1, <1>2, CheckStopSound, CheckStopDealt, ExitsInTurn, StepsToNoneImmediate DEF StepsTo
<1> HIDE DEF exited
<1>4. HaltDated(exited)
    BY <1>2, <1>3 DEF HaltDated, Traded, SameWindows
<1>5. InTurn(r, exited, ev.ns) /\ Sound(r)
    BY <1>1, <1>3, <1>4, MarkAndFlattenInTurn
<1>6. r = AfterStrategy(e, ev, day)
    BY DEF AfterStrategy, exited, filled
<1> HIDE DEF r
<1>7. InTurn(exited, e, ev.ns)
    BY <1>1, <1>2, <1>3, InTurnTransitive DEF Sound
<1>8. InTurn(r, e, ev.ns)
    BY <1>1, <1>3, <1>5, <1>7, InTurnTransitive DEF Sound
<1> QED
    BY <1>6, <1>8

(* The strategy's turn and what follows it. *)
LEMMA StrategyTurnInTurn ==
    ASSUME NEW b, Rest(b), HaltDated(b), NEW ev \in MarketEvents, Known(b, ev), NEW day \in Nat,
           NEW answer \in StrategyAnswers
    PROVE  InTurn(StrategyTurn(b, ev, day, answer), b, ev.ns)
<1>1. ev.ns \in Nat
    BY DEF MarketEvents, BboEvents, TradeEvents
<1>2. CASE b.kill = "FLATTEN_HALT"
    BY <1>1, <1>2, MarkAndFlattenInTurn DEF Rest, StrategyTurn
<1>3. CASE b.kill # "FLATTEN_HALT"
  <2> DEFINE asked == ApplyStrategy(b, ev, answer)
             r     == AfterStrategy(asked, ev, day)
  <2>1. Sound(asked) /\ NoneImmediate(asked) /\ Idle(asked, b)
      BY ApplyStrategySound, ApplyStrategyIdle DEF Rest
  <2> HIDE DEF asked
  <2>2. Known(asked, ev) /\ HaltDated(asked)
      BY <2>1 DEF Known, Idle, SameCache, SameWindows, HaltDated
  <2>3. InTurn(r, asked, ev.ns) /\ Sound(r)
      BY <2>1, <2>2, AfterStrategyInTurn, AfterStrategyRest DEF Rest
  <2>4. InTurn(asked, b, ev.ns)
      BY <1>1, <2>1, IdleInTurn DEF Rest, Sound
  <2>5. r = StrategyTurn(b, ev, day, answer)
      BY <1>3 DEF StrategyTurn, asked
  <2> HIDE DEF r
  <2>6. InTurn(r, b, ev.ns)
      BY <1>1, <2>1, <2>3, <2>4, InTurnTransitive DEF Rest, Sound
  <2> QED
      BY <2>5, <2>6
<1> QED
    BY <1>2, <1>3

(* The times of a feed in order: what is cached came no later than the     *)
(* last event, and that no later than the source clock.                    *)
SourcesTimed(e) ==
    /\ \A source \in {e.bbo, e.trade, e.venueMark} \ {None} :
         e.lastData # None /\ source.ns <= e.lastData
    /\ e.lastData # None => e.lastData <= e.sourceClock

(* No hold lasts longer than the refill time from now. *)
HoldsTimed(e) == \A h \in e.bookTaken : h.until <= e.sourceClock + TouchRefill

Timed(e) == SourcesTimed(e) /\ HoldsTimed(e)

(* A hold that is not over when the handler returns is there. *)
HoldsLast(f, e) ==
    \A h \in e.bookTaken : h.until > f.sourceClock =>
        \E k \in f.bookTaken : k.side = h.side /\ k.price = h.price /\ k.until >= h.until

(* A handler that halts on a gap finds no source still fresh. *)
GapSeen(f, e) ==
    e.kill # "FLATTEN_HALT" /\ f.kill = "FLATTEN_HALT" /\ f.killReason = "stale_data" =>
        \A source \in {e.bbo, e.trade, e.venueMark} \ {None} : ~SourceIsFresh(f, source.ns)

(* Every time of the engine is a number. *)
LEMMA TimesNat ==
    ASSUME NEW e \in EngineState
    PROVE  /\ \A source \in {e.bbo, e.trade, e.venueMark} \ {None} : source.ns \in Nat
           /\ e.lastData # None => e.lastData \in Nat
           /\ e.sourceClock \in Nat
           /\ TouchRefill \in Nat /\ StaleAfter \in Nat
<1>1. e.bbo # None => e.bbo.ns \in Nat
    BY DEF EngineState, BboEvents
<1>2. e.trade # None => e.trade.ns \in Nat
    BY DEF EngineState, TradeEvents
<1>3. e.venueMark # None => e.venueMark.ns \in Nat
    BY DEF EngineState, MarkEvents
<1>4. (e.lastData # None => e.lastData \in Nat) /\ e.sourceClock \in Nat
    BY DEF EngineState, MaybeNat
<1> QED
    BY <1>1, <1>2, <1>3, <1>4, EngineAssumption

(* From the arrival at ns on, a handler keeps time. *)
LEMMA InTurnTimed ==
    ASSUME NEW e \in EngineState, NEW c \in EngineState, NEW f \in EngineState, NEW ns \in Nat,
           HoldsTimed(e), e.sourceClock <= ns, c.sourceClock = ns, c.bookTaken = e.bookTaken,
           SourcesTimed(c), InTurn(f, c, ns)
    PROVE  Timed(f) /\ HoldsLast(f, e)
<1>1. e.sourceClock \in Nat /\ TouchRefill \in Nat /\ f.sourceClock = ns
    BY TimesNat DEF InTurn, SameCache
<1>2. SourcesTimed(f)
    BY DEF SourcesTimed, InTurn, SameCache
<1>3. ASSUME NEW h \in e.bookTaken PROVE h.until \in Nat /\ h.until <= ns + TouchRefill
  <2>1. h.until \in Nat /\ h.until <= e.sourceClock + TouchRefill
      BY HoldsUntil DEF HoldsTimed
  <2> QED
      BY <1>1, <2>1
<1>4. HoldsTimed(f)
  <2>1. \A h \in f.bookTaken : h \in e.bookTaken \/ h.until = ns + TouchRefill
      BY DEF InTurn, Refilled
  <2>2. ns + TouchRefill <= ns + TouchRefill
      BY <1>1
  <2> QED
      BY <1>1, <1>3, <2>1, <2>2 DEF HoldsTimed
<1>5. HoldsLast(f, e)
    BY <1>1, <1>3 DEF HoldsLast, InTurn, Refilled
<1> QED
    BY <1>2, <1>4, <1>5 DEF Timed

(* The source clock follows a call that is in order. *)
LEMMA AdvanceSourceClockTimes ==
    ASSUME NEW e \in EngineState, NEW ns \in Nat, e.sourceClock <= ns
    PROVE  LET f == AdvanceSourceClock(e, ns)
           IN  /\ f.sourceClock = ns /\ f.lastData = e.lastData /\ f.bookTaken = e.bookTaken
               /\ f.bbo = e.bbo /\ f.trade = e.trade /\ f.venueMark = e.venueMark
               /\ f.kill = e.kill /\ f.killReason = e.killReason
               /\ SourcesTimed(e) => SourcesTimed(f)
<1> DEFINE clock == MaxOf(e.sourceClock, ns)
           f == [e EXCEPT !.sourceClock = clock]
<1>1. f = AdvanceSourceClock(e, ns)
    BY DEF AdvanceSourceClock
<1>2. clock = ns
    BY TimesNat DEF MaxOf
<1> HIDE DEF clock
<1>3. /\ f.sourceClock = ns /\ f.lastData = e.lastData /\ f.bookTaken = e.bookTaken
      /\ f.bbo = e.bbo /\ f.trade = e.trade /\ f.venueMark = e.venueMark
      /\ f.kill = e.kill /\ f.killReason = e.killReason
    BY <1>2 DEF EngineState
<1> HIDE DEF f
<1>4. SourcesTimed(e) => SourcesTimed(f)
    BY <1>3, TimesNat DEF SourcesTimed
<1> QED
    BY <1>1, <1>3, <1>4

(* An event enters the caches with its time. *)
LEMMA ArriveTimes ==
    ASSUME NEW e \in EngineState, NEW ev \in MarketEvents, NEW day \in Nat
    PROVE  LET f == Arrive(e, ev, day)
           IN  /\ f.sourceClock = e.sourceClock /\ f.bookTaken = e.bookTaken
               /\ f.kill = e.kill /\ f.killReason = e.killReason /\ f.day = e.day
               /\ f.lastData = ev.ns
               /\ f.bbo \in {e.bbo, ev} /\ f.trade \in {e.trade, ev}
               /\ f.venueMark \in {e.venueMark, ev, None}
<1> DEFINE ns == ev.ns
           stamped == [e EXCEPT !.lastData = ns, !.lastDay = day]
           n == stamped.tradeCount + 1
           mark == IF ev.price = None THEN None ELSE ev
           booked == [stamped EXCEPT !.bbo = ev]
           printed == [stamped EXCEPT !.trade = ev, !.tradeCount = n, !.tradeTaken = 0]
           marked == [stamped EXCEPT !.venueMark = mark]
           f == UpdateMarket(stamped, ev)
<1>1. f = Arrive(e, ev, day)
    BY DEF Arrive
<1>2. ev.kind \in {"bbo", "trade", "mark", "bar"}
    BY DEF MarketEvents, BboEvents, TradeEvents
<1>3. f \in {booked, printed, marked, stamped}
  <2>1. ev.kind = "bbo" => f = booked
      BY DEF UpdateMarket
  <2>2. ev.kind = "trade" => f = printed
      BY DEF UpdateMarket
  <2>3. ev.kind = "mark" => f = marked
      BY DEF UpdateMarket
  <2>4. ev.kind = "bar" => f = stamped
      BY DEF UpdateMarket
  <2> HIDE DEF f, booked, printed, marked, stamped
  <2> QED
      BY <1>2, <2>1, <2>2, <2>3, <2>4
<1>4. mark \in {ev, None}
    OBVIOUS
<1> HIDE DEF ns, n, mark, f
<1>5. /\ stamped.sourceClock = e.sourceClock /\ stamped.bookTaken = e.bookTaken
      /\ stamped.kill = e.kill /\ stamped.killReason = e.killReason
      /\ stamped.day = e.day /\ stamped.lastData = ns
      /\ stamped.bbo = e.bbo /\ stamped.trade = e.trade /\ stamped.venueMark = e.venueMark
      /\ DOMAIN stamped = DOMAIN e
    BY DEF EngineState
<1>6. {"bbo", "trade", "venueMark"} \subseteq DOMAIN stamped
    BY <1>5 DEF EngineState
<1> HIDE DEF stamped
<1> DEFINE arrived(g) == /\ g.sourceClock = e.sourceClock /\ g.bookTaken = e.bookTaken
                         /\ g.kill = e.kill /\ g.killReason = e.killReason
                         /\ g.day = e.day /\ g.lastData = ns
                         /\ g.bbo \in {e.bbo, ev} /\ g.trade \in {e.trade, ev}
                         /\ g.venueMark \in {e.venueMark, ev, None}
<1>7. arrived(stamped) /\ arrived(booked)
    BY <1>5, <1>6
<1>8. arrived(printed)
    BY <1>5, <1>6
<1>9. arrived(marked)
    BY <1>4, <1>5, <1>6
<1> HIDE DEF booked, printed, marked
<1>10. arrived(f)
    BY <1>3, <1>7, <1>8, <1>9
<1> QED
    BY <1>1, <1>10 DEF ns

(* In order, they are timed again. *)
LEMMA ArriveTimed ==
    ASSUME NEW e \in EngineState, NEW ev \in MarketEvents, NEW day \in Nat,
           SourcesTimed(e), e.sourceClock = ev.ns
    PROVE  SourcesTimed(Arrive(e, ev, day))
<1> DEFINE f == Arrive(e, ev, day)
<1>1. ev.ns \in Nat /\ ev.ns # None
    BY ExecutionAssumption DEF MarketEvents, BboEvents, TradeEvents
<1>2. /\ f.sourceClock = ev.ns /\ f.lastData = ev.ns
      /\ {f.bbo, f.trade, f.venueMark} \subseteq {e.bbo, e.trade, e.venueMark, ev, None}
    BY ArriveTimes
<1> HIDE DEF f
<1>3. \A source \in {e.bbo, e.trade, e.venueMark} \ {None} : source.ns <= ev.ns
    BY <1>1, TimesNat DEF SourcesTimed
<1>4. SourcesTimed(f)
    BY <1>1, <1>2, <1>3 DEF SourcesTimed
<1> QED
    BY <1>4 DEF f

(* What the event flattens was stale; what happens after finds no gap. *)
LEMMA GapIsSeen ==
    ASSUME NEW e \in EngineState, NEW f \in EngineState, NEW ns \in Nat, SourcesTimed(e),
           f.sourceClock = ns, e.lastData # None => ns - e.lastData > StaleAfter
    PROVE  GapSeen(f, e)
<1> SUFFICES ASSUME NEW source \in {e.bbo, e.trade, e.venueMark} \ {None}
             PROVE  ~SourceIsFresh(f, source.ns)
    BY DEF GapSeen
<1>1. /\ e.lastData # None /\ source.ns <= e.lastData
      /\ source.ns \in Nat /\ e.lastData \in Nat /\ StaleAfter \in Nat
    BY TimesNat DEF SourcesTimed
<1> QED
    BY <1>1 DEF SourceIsFresh

(* What a call in order does to the times. *)
KeepsTime(f, e) == Timed(f) /\ HoldsLast(f, e) /\ GapSeen(f, e)

(* Where a handler begins from an event without a gap, it keeps time. *)
LEMMA InTurnKeepsTime ==
    ASSUME NEW e \in EngineState, NEW c \in EngineState, NEW f \in EngineState, NEW ns \in Nat,
           Timed(e), e.sourceClock <= ns, c.sourceClock = ns, c.bookTaken = e.bookTaken,
           c.kill = e.kill, c.killReason = e.killReason, SourcesTimed(c), InTurn(f, c, ns)
    PROVE  KeepsTime(f, e)
<1>1. Timed(f) /\ HoldsLast(f, e)
    BY InTurnTimed DEF Timed
<1>2. GapSeen(f, e)
    BY DEF GapSeen, InTurn, NoGap
<1> QED
    BY <1>1, <1>2 DEF KeepsTime

(* An event in order reaches the caches at its time. *)
LEMMA ArriveInOrder ==
    ASSUME NEW e0, Rest(e0), HaltDated(e0), Timed(e0), NEW ev \in MarketEvents,
           e0.sourceClock <= ev.ns, NEW day \in Nat
    PROVE  LET c == Arrive(AdvanceSourceClock(e0, ev.ns), ev, day)
           IN  /\ Sound(c) /\ NoneImmediate(c) /\ HaltDated(c) /\ SourcesTimed(c)
               /\ c.sourceClock = ev.ns /\ c.bookTaken = e0.bookTaken
               /\ c.kill = e0.kill /\ c.killReason = e0.killReason
               /\ (ev.kind = "bbo" => Shown(ev)) => Known(c, ev)
<1> DEFINE e == AdvanceSourceClock(e0, ev.ns)
           c == Arrive(e, ev, day)
<1>1. ev.ns \in Nat /\ e0 \in EngineState
    BY DEF MarketEvents, BboEvents, TradeEvents, Rest, Sound
<1>2. Rest(e) /\ Cached(e, e0)
    BY <1>1, AdvanceSourceClockSound, AdvanceSourceClockCached
<1>3. /\ e.sourceClock = ev.ns /\ e.bookTaken = e0.bookTaken
      /\ e.kill = e0.kill /\ e.killReason = e0.killReason /\ SourcesTimed(e)
    BY <1>1, AdvanceSourceClockTimes DEF Timed
<1> HIDE DEF e
<1>4. e \in EngineState
    BY <1>2 DEF Rest, Sound
<1>5. Sound(c) /\ NoneImmediate(c)
    BY <1>2, ArriveSound DEF Rest
<1>6. /\ SourcesTimed(c) /\ c.sourceClock = ev.ns /\ c.bookTaken = e0.bookTaken
      /\ c.kill = e0.kill /\ c.killReason = e0.killReason
    BY <1>3, <1>4, ArriveTimes, ArriveTimed
<1>7. (ev.kind = "bbo" => Shown(ev)) => Known(c, ev) /\ Cached(c, e)
    BY <1>4, ArriveCached
<1>8. c.day = e.day
    BY <1>4, ArriveTimes
<1> HIDE DEF c
<1>9. HaltDated(c)
    BY <1>2, <1>6, <1>8 DEF Cached, HaltDated
<1> QED
    BY <1>5, <1>6, <1>7, <1>9 DEF c, e

(* on_event up to the strategy's turn, for an event in order.              *)
LEMMA BeforeStrategyKeepsTime ==
    ASSUME NEW e0, Rest(e0), HaltDated(e0), Timed(e0), NEW ev \in MarketEvents,
           ev.kind = "bbo" => Shown(ev), e0.sourceClock <= ev.ns, NEW day \in Nat
    PROVE  LET e == AdvanceSourceClock(e0, ev.ns)
               b == BeforeStrategy(e, ev, day)
           IN  InTurn(b, Arrive(e, ev, day), ev.ns) /\ Rest(b) /\ KeepsTime(b, e0)
<1> DEFINE e == AdvanceSourceClock(e0, ev.ns)
           c == Arrive(e, ev, day)
           b == AfterStrategy(c, ev, day)
<1>1. b = BeforeStrategy(e, ev, day)
    BY DEF AfterStrategy, BeforeStrategy
<1>2. ev.ns \in Nat /\ e0 \in EngineState
    BY DEF MarketEvents, BboEvents, TradeEvents, Rest, Sound
<1>3. /\ Sound(c) /\ NoneImmediate(c) /\ HaltDated(c) /\ SourcesTimed(c)
      /\ c.sourceClock = ev.ns /\ c.bookTaken = e0.bookTaken
      /\ c.kill = e0.kill /\ c.killReason = e0.killReason /\ Known(c, ev)
    BY ArriveInOrder
<1> HIDE DEF c
<1>4. InTurn(b, c, ev.ns) /\ Rest(b)
    BY <1>3, AfterStrategyInTurn, AfterStrategyRest
<1> HIDE DEF b
<1>5. KeepsTime(b, e0)
    BY <1>2, <1>3, <1>4, InTurnKeepsTime DEF Rest, Sound
<1> QED
    BY <1>1, <1>4, <1>5 DEF c

(* on_event, for an event in order: no hold is cut short, and a halt on a  *)
(* gap finds every source stale.                                           *)
LEMMA AdvanceKeepsTime ==
    ASSUME NEW e0, Rest(e0), HaltDated(e0), Timed(e0), NEW ev \in MarketEvents,
           ev.kind = "bbo" => Shown(ev), e0.sourceClock <= ev.ns, NEW day \in Nat,
           NEW answer \in StrategyAnswers
    PROVE  KeepsTime(Advance(e0, ev, day, answer), e0)
<1> DEFINE e == AdvanceSourceClock(e0, ev.ns)
           c == Arrive(e, ev, day)
           halted == FlattenHalt(e, "stale_data")
           arrived == Arrive(halted, ev, day)
           flat == EnforceFlat(arrived, ev.ns)
           b == BeforeStrategy(e, ev, day)
           turn == StrategyTurn(b, ev, day, answer)
           r == Advance(e0, ev, day, answer)
<1>1. ev.ns \in Nat /\ e0 \in EngineState
    BY DEF MarketEvents, BboEvents, TradeEvents, Rest, Sound
<1>2. Rest(e) /\ Cached(e, e0)
    BY <1>1, AdvanceSourceClockSound, AdvanceSourceClockCached
<1>3. /\ e.sourceClock = ev.ns /\ e.bookTaken = e0.bookTaken /\ e.lastData = e0.lastData
      /\ SourcesTimed(e)
    BY <1>1, AdvanceSourceClockTimes DEF Timed
<1>4. r = IF StaleGap(e, ev.ns) THEN flat ELSE turn
    BY DEF Advance
<1>5. r \in EngineState
    BY AdvanceRest DEF Rest, Sound
<1> HIDE DEF r
<1>6. CASE StaleGap(e, ev.ns)
  <2>1. HaltDated(e) /\ Sound(e)
      BY <1>2 DEF Cached, HaltDated, Rest
  <2> HIDE DEF e
  <2>2. SameTrading(halted, e) /\ halted \in EngineState /\ SameCache(halted, e)
        /\ SameLedger(halted, e)
      BY <2>1, FlattenHaltMarks DEF Marked
  <2> HIDE DEF halted
  <2>3. Sound(halted) /\ NoneImmediate(halted)
      BY <1>2, <2>1, <2>2, SameTradingSound DEF Rest, SameTrading, NoneImmediate
  <2>4. Sound(arrived) /\ NoneImmediate(arrived)
      BY <2>3, ArriveSound
  <2>5. SourcesTimed(halted) /\ halted.sourceClock = ev.ns /\ halted.bookTaken = e0.bookTaken
      BY <1>3, <2>2 DEF SourcesTimed, SameCache, SameLedger
  <2>6. SourcesTimed(arrived) /\ arrived.sourceClock = ev.ns /\ arrived.bookTaken = e0.bookTaken
      BY <2>2, <2>5, ArriveTimed, ArriveTimes
  <2> HIDE DEF arrived
  <2>7. InTurn(flat, arrived, ev.ns) /\ flat \in EngineState
      BY <1>1, <2>4, ExitsInTurn, EnforceFlatSound DEF Rest, Sound
  <2> HIDE DEF flat
  <2>8. Timed(flat) /\ HoldsLast(flat, e0)
      BY <1>1, <2>4, <2>6, <2>7, InTurnTimed DEF Timed, Sound
  <2>9. flat.sourceClock = ev.ns
      BY <2>6, <2>7 DEF InTurn, SameCache
  <2>10. GapSeen(flat, e0)
      BY <1>1, <1>3, <1>6, <2>7, <2>9, GapIsSeen DEF StaleGap, Timed
  <2> QED
      BY <1>4, <1>6, <2>8, <2>10 DEF KeepsTime, r
<1>7. CASE ~StaleGap(e, ev.ns)
  <2>1. /\ Sound(c) /\ NoneImmediate(c) /\ SourcesTimed(c)
        /\ c.sourceClock = ev.ns /\ c.bookTaken = e0.bookTaken
        /\ c.kill = e0.kill /\ c.killReason = e0.killReason /\ Known(c, ev)
      BY ArriveInOrder
  <2>2. InTurn(b, c, ev.ns) /\ Rest(b)
      BY BeforeStrategyKeepsTime
  <2>3. Known(b, ev) /\ HaltDated(b)
    <3>1. HaltDated(e) /\ Sound(e) /\ NoneImmediate(e)
        BY <1>2 DEF Cached, HaltDated, Rest
    <3> QED
        BY <3>1, BeforeStrategySettles DEF Stepped, Switched
  <2> HIDE DEF b, c
  <2>4. InTurn(turn, b, ev.ns)
      BY <2>2, <2>3, StrategyTurnInTurn
  <2>5. turn = r
      BY <1>4, <1>7
  <2> HIDE DEF turn
  <2>6. InTurn(r, c, ev.ns)
      BY <1>1, <1>5, <2>1, <2>2, <2>4, <2>5, InTurnTransitive DEF Rest, Sound
  <2>7. KeepsTime(r, e0)
      BY <1>1, <1>5, <2>1, <2>6, InTurnKeepsTime DEF Sound
  <2> QED
      BY <2>7 DEF r
<1> QED
    BY <1>6, <1>7

(* on_clock, for a clock that has not gone back behind the feed.           *)
LEMMA TickKeepsTime ==
    ASSUME NEW e0, Rest(e0), HaltDated(e0), Timed(e0), NEW now \in Nat, e0.sourceClock <= now
    PROVE  KeepsTime(Tick(e0, now), e0)
<1> DEFINE e       == AdvanceSourceClock(e0, now)
           stale   == now - ClockAnchor(e0) > StaleAfter
           touched == CurrentTouch(e) # CurrentTouch(e0)
           checks  == ~e.stopExitPending \/ e.exitWaiting \/ touched
           halted  == FlattenHalt(e, "stale_data")
           c       == IF stale THEN halted ELSE e
           stopped == IF stale THEN halted ELSE IF checks THEN CheckStop(e, now) ELSE e
           marked  == IF stopped.lastDay = None THEN stopped ELSE MarkLimits(stopped, stopped.lastDay)
           forced  == stale \/ marked.exitWaiting \/ touched \/ marked.kill # e0.kill
           flat    == IF forced THEN EnforceFlat(marked, now) ELSE marked
           again   == MarkLimits(flat, flat.lastDay)
           r       == IF flat.fillCount # e0.fillCount /\ flat.lastDay # None
                      THEN EnforceFlat(again, now) ELSE flat
<1>1. Tick(e0, now) = r
    BY DEF Tick, TickStops, TickMarks, TickFlattens, TickRemarks
<1>2. e0 \in EngineState /\ Rest(e) /\ Cached(e, e0)
    BY AdvanceSourceClockSound, AdvanceSourceClockCached DEF Rest, Sound
<1>3. /\ e.sourceClock = now /\ e.bookTaken = e0.bookTaken
      /\ e.kill = e0.kill /\ e.killReason = e0.killReason /\ SourcesTimed(e)
    BY <1>2, AdvanceSourceClockTimes DEF Timed
<1>4. HaltDated(e) /\ Sound(e) /\ NoneImmediate(e) /\ e \in EngineState
    BY <1>2 DEF Cached, HaltDated, Rest, Sound
<1> HIDE DEF e, touched
<1>5. /\ Sound(halted) /\ NoneImmediate(halted) /\ HaltDated(halted)
      /\ SameCache(halted, e) /\ halted.bookTaken = e.bookTaken
  <2>1. /\ SameCache(halted, e) /\ SameTrading(halted, e) /\ Marked(halted, e)
        /\ halted \in EngineState
      BY <1>4, FlattenHaltMarks DEF Marked
  <2> HIDE DEF halted
  <2> QED
      BY <1>4, <2>1, SameTradingSound
      DEF SameTrading, NoneImmediate, Marked, Switched, SameLedger
<1> HIDE DEF halted
<1>6. /\ Sound(c) /\ NoneImmediate(c) /\ HaltDated(c) /\ c \in EngineState
      /\ c.sourceClock = now /\ c.bookTaken = e0.bookTaken /\ SourcesTimed(c)
      /\ ~stale => c = e
  <2>1. SourcesTimed(halted) /\ halted.sourceClock = now /\ halted \in EngineState
      BY <1>3, <1>5 DEF SourcesTimed, SameCache, Sound
  <2> QED
      BY <1>3, <1>4, <1>5, <2>1
<1>7. /\ Sound(stopped) /\ NoneImmediate(stopped) /\ HaltDated(stopped)
      /\ InTurn(stopped, c, now)
  <2> DEFINE checked == CheckStop(e, now)
  <2>1. /\ Sound(checked) /\ NoneImmediate(checked) /\ Traded(checked, e)
        /\ InTurn(checked, e, now)
      BY <1>4, CheckStopSound, CheckStopDealt, ExitsInTurn, StepsToNoneImmediate DEF StepsTo
  <2> HIDE DEF checked
  <2>2. HaltDated(checked)
      BY <1>4, <2>1 DEF Traded, SameWindows, HaltDated
  <2>3. InTurn(c, c, now)
      BY <1>6, InTurnReflexive
  <2>4. stopped = c \/ (~stale /\ stopped = checked)
      BY DEF checked
  <2> HIDE DEF stopped, c, checks, stale
  <2> QED
      BY <1>6, <2>1, <2>2, <2>3, <2>4
<1> HIDE DEF stopped, c, stale
<1>8. Sound(marked) /\ NoneImmediate(marked) /\ HaltDated(marked) /\ InTurn(marked, c, now)
  <2>1. CASE stopped.lastDay = None
      BY <1>7, <2>1
  <2>2. CASE stopped.lastDay # None
    <3>1. stopped.lastDay \in Nat /\ stopped \in EngineState
        BY <1>7, <2>2 DEF Sound, EngineState, MaybeNat
    <3> DEFINE m == MarkLimits(stopped, stopped.lastDay)
    <3>2. Sound(m) /\ NoneImmediate(m) /\ InTurn(m, stopped, now) /\ HaltDated(m)
        BY <1>7, <3>1, MarkLimitsSound, MarkLimitsInTurn, MarkLimitsMarks DEF Marked, Switched
    <3> HIDE DEF m
    <3>3. InTurn(m, c, now)
        BY <1>6, <1>7, <3>1, <3>2, InTurnTransitive DEF Sound
    <3> QED
        BY <2>2, <3>2, <3>3 DEF m
  <2> QED
      BY <2>1, <2>2
<1> HIDE DEF marked
<1>9. Sound(flat) /\ NoneImmediate(flat) /\ HaltDated(flat) /\ InTurn(flat, c, now)
  <2> DEFINE f == EnforceFlat(marked, now)
  <2>1. Sound(f) /\ NoneImmediate(f) /\ Traded(f, marked) /\ InTurn(f, marked, now)
      BY <1>8, EnforceFlatSound, EnforceFlatDealt, ExitsInTurn DEF Rest
  <2> HIDE DEF f
  <2>2. HaltDated(f)
      BY <1>8, <2>1 DEF Traded, SameWindows, HaltDated
  <2>3. InTurn(f, c, now)
      BY <1>6, <1>8, <2>1, InTurnTransitive DEF Sound
  <2>4. flat \in {f, marked}
      BY DEF f
  <2> HIDE DEF flat
  <2> QED
      BY <1>8, <2>1, <2>2, <2>3, <2>4
<1> HIDE DEF flat
<1>10. InTurn(r, c, now) /\ r \in EngineState
  <2>1. CASE r = flat
    <3> HIDE DEF r
    <3> QED
        BY <1>9, <2>1 DEF Sound
  <2>2. CASE flat.lastDay # None /\ r = EnforceFlat(again, now)
    <3>1. flat.lastDay \in Nat /\ flat \in EngineState
        BY <1>9, <2>2 DEF Sound, EngineState, MaybeNat
    <3>2. InTurn(r, flat, now) /\ Sound(r)
        BY <1>9, <2>2, <3>1, MarkAndFlattenInTurn
    <3> HIDE DEF r
    <3> QED
        BY <1>6, <1>9, <3>1, <3>2, InTurnTransitive DEF Sound
  <2> QED
      BY <2>1, <2>2
<1> HIDE DEF r
<1>11. Timed(r) /\ HoldsLast(r, e0)
    BY <1>2, <1>6, <1>10, InTurnTimed DEF Timed
<1>12. GapSeen(r, e0)
  <2>1. r.sourceClock = now
      BY <1>6, <1>10 DEF InTurn, SameCache
  <2>2. CASE stale
    <3>1. e0.lastData # None => now - e0.lastData > StaleAfter
        BY <2>2 DEF stale, ClockAnchor
    <3> QED
        BY <1>2, <1>10, <2>1, <3>1, GapIsSeen DEF Timed
  <2>3. CASE ~stale
      BY <1>3, <1>6, <1>10, <2>3 DEF GapSeen, InTurn, NoGap
  <2> QED
      BY <2>2, <2>3
<1> QED
    BY <1>1, <1>11, <1>12 DEF KeepsTime

(* Between two handler calls of a feed in order, the ledger is kept and    *)
(* the times agree.                                                        *)
FeedInv == LedgerInv /\ Timed(eng)

(* The feed gives no event a receive time before the one in hand.          *)
InOrder == Offsets \subseteq Nat

(* Then what the feed may stamp next is not late.                          *)
LEMMA ReceivedInOrder ==
    ASSUME InOrder, EngineInv
    PROVE  /\ \A t \in ReceiveTimes : eng.sourceClock <= t
           /\ \A ev \in Events : eng.sourceClock <= ev.ns
<1>1. eng.sourceClock \in Nat
    BY DEF EngineInv, Rest, Sound, EngineState
<1>2. \A t \in ReceiveTimes : eng.sourceClock <= t
  <2>1. SUFFICES ASSUME NEW t \in ReceiveTimes
                 PROVE  eng.sourceClock <= t
    OBVIOUS
  <2>2. PICK o \in Offsets : t = eng.sourceClock + o
    BY DEF ReceiveTimes
  <2>3. o \in Nat
    BY DEF InOrder
  <2> QED
    BY <1>1, <2>2, <2>3
<1>3. \A ev \in Events : ev.ns \in ReceiveTimes
    BY DEF Events
<1> QED
    BY <1>2, <1>3

(* A new engine holds nothing and has seen nothing.                        *)
LEMMA InitFeed == Init => FeedInv
<1> SUFFICES ASSUME Init PROVE FeedInv
    OBVIOUS
<1>1. eng.bookTaken = {} /\ eng.lastData = None
      /\ eng.bbo = None /\ eng.trade = None /\ eng.venueMark = None
    BY DEF Init, NewEngine
<1> QED
    BY <1>1, InitLedger DEF FeedInv, Timed, SourcesTimed, HoldsTimed

(* Every handler call keeps time.                                          *)
LEMMA NextKeepsTime ==
    ASSUME InOrder, FeedInv, Next
    PROVE  KeepsTime(eng', eng)
<1>1. EngineInv /\ Rest(eng) /\ HaltDated(eng) /\ Timed(eng)
    BY DEF FeedInv, LedgerInv, EngineInv
<1>2. Events \subseteq MarketEvents /\ ReceiveTimes \subseteq Nat /\ Days \subseteq Nat
    BY <1>1, EventsType, ReceiveTimesNat, EngineAssumption
<1>3. ASSUME NEW ev \in Events, NEW day \in Days, NEW answer \in StrategyAnswers,
             OnEvent(ev, day, answer)
      PROVE  KeepsTime(eng', eng)
    BY <1>1, <1>2, <1>3, EventsShown, ReceivedInOrder, AdvanceKeepsTime DEF OnEvent
<1>4. ASSUME NEW ev \in Events, NEW day \in Days, OnEventStrategyRaises(ev, day)
      PROVE  KeepsTime(eng', eng)
  <2>1. eng' = BeforeStrategy(AdvanceSourceClock(eng, ev.ns), ev, day)
      BY <1>4 DEF OnEventStrategyRaises
  <2> QED
      BY <1>1, <1>2, <2>1, EventsShown, ReceivedInOrder, BeforeStrategyKeepsTime
<1>5. ASSUME NEW now \in ReceiveTimes, OnClock(now)
      PROVE  KeepsTime(eng', eng)
    BY <1>1, <1>2, <1>5, ReceivedInOrder, TickKeepsTime DEF OnClock
<1> QED
    BY <1>3, <1>4, <1>5 DEF Next

(* So the times agree between any two calls.                               *)
LEMMA NextFeed ==
    ASSUME InOrder, FeedInv, [Next]_vars
    PROVE  FeedInv'
<1>1. LedgerInv'
    BY NextLedger DEF FeedInv
<1>2. CASE Next
    BY <1>1, <1>2, NextKeepsTime DEF FeedInv, KeepsTime
<1>3. CASE UNCHANGED vars
  <2>1. eng' = eng
      BY <1>3 DEF vars
  <2> QED
      BY <1>1, <2>1 DEF FeedInv
<1> QED
    BY <1>2, <1>3

(* Of a feed in order, between any two handler calls the ledger is kept,   *)
(* no cached source is later than the last event and no hold lasts longer  *)
(* than the refill time.                                                   *)
THEOREM FeedInOrder == InOrder => (Spec => []FeedInv)
<1> SUFFICES ASSUME InOrder PROVE Spec => []FeedInv
    OBVIOUS
<1>1. FeedInv /\ [Next]_vars => FeedInv'
    BY NextFeed
<1> QED
    BY <1>1, InitFeed, PTL DEF Spec

(* Size taken at a price is held back for the refill time after every fill *)
(* there, whatever fills later, unless the feed runs backwards             *)
(* (_take_touch, _available).                                              *)
THEOREM HoldsNeverShorten == InOrder => (Spec => HoldNeverShortens)
<1> SUFFICES ASSUME InOrder PROVE Spec => HoldNeverShortens
    OBVIOUS
<1> DEFINE lasts == \A h \in eng.bookTaken : h.until > eng'.sourceClock =>
                      \E k \in eng'.bookTaken : k.side = h.side /\ k.price = h.price
                                                /\ k.until >= h.until
<1>1. FeedInv /\ [Next]_vars => [lasts]_vars
    BY NextKeepsTime DEF KeepsTime, HoldsLast
<1> QED
    BY <1>1, FeedInOrder, PTL DEF Spec, HoldNeverShortens

(* A halt for stale data means a gap: no source received before is still   *)
(* fresh, unless the feed runs backwards (_advance, on_clock).             *)
THEOREM StaleHaltMeansGap == InOrder => (Spec => StaleHaltNeedsGap)
<1> SUFFICES ASSUME InOrder PROVE Spec => StaleHaltNeedsGap
    OBVIOUS
<1> DEFINE gap == eng.kill # "FLATTEN_HALT" /\ eng'.kill = "FLATTEN_HALT"
                  /\ eng'.killReason = "stale_data"
                    => \A source \in {eng.bbo, eng.trade, eng.venueMark} \ {None} :
                         ~SourceIsFresh(eng', source.ns)
<1>1. FeedInv /\ [Next]_vars => [gap]_vars
    BY NextKeepsTime DEF KeepsTime, GapSeen
<1> QED
    BY <1>1, FeedInOrder, PTL DEF Spec, StaleHaltNeedsGap
=============================================================================
