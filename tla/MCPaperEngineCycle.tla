------------------------- MODULE MCPaperEngineCycle -------------------------
(***************************************************************************)
(* PaperEngine over event sequences of any length in a finite state space. *)
(*                                                                         *)
(* The engine only compares times with each other, so after every call     *)
(* Rebase moves them back by the same amount, until the source clock reads *)
(* Horizon.  A time that falls below zero is expired for every comparison  *)
(* of the code and is kept at zero.  Counters of which only differences    *)
(* matter (trades since the stop was set, order numbers) are rebased too,  *)
(* and the record of rejections, which no method but Reject reads, is      *)
(* forgotten.  The handlers are PaperEngine's.  MaxFills bounds the        *)
(* strategy, not the feed: after that many fills it answers nothing, while *)
(* stops and the kill switch still trade.                                  *)
(***************************************************************************)
EXTENDS MCPaperEngine

CONSTANT MaxFills     \* bound: fills after which the strategy stays silent
VARIABLE turn         \* toggles when a good quote arrives; only fairness reads it

cycleVars == <<vars, turn>>

(* The earliest time anything is compared with, the clock's own or a late   *)
(* event's, and the age at which everything is expired for it.             *)
Earliest == CHOOSE o \in Offsets \cup {0} : \A p \in Offsets \cup {0} : o <= p
Horizon == StaleAfter + 1 - Earliest

Rebase(e) ==
    LET At(ns)    == MaxOf(ns - e.sourceClock + Horizon, 0)
        Maybe(ns) == IF ns = None THEN None ELSE At(ns)
        Seen(x)   == IF x = None THEN None ELSE [x EXCEPT !.ns = At(@)]
    IN  [e EXCEPT !.sourceClock = Horizon,
                  !.lastData = Maybe(@),
                  !.bbo = Seen(@), !.trade = Seen(@), !.venueMark = Seen(@),
                  !.working = IF @ = None THEN None ELSE [@ EXCEPT !.eligible = At(@)],
                  !.bookTaken = {h \in {[k EXCEPT !.until = At(@)] : k \in @} : h.until > 0},
                  !.tradeCount = IF e.stopSetTradeCount # None /\ @ > e.stopSetTradeCount THEN 1 ELSE 0,
                  !.stopSetTradeCount = IF @ = None THEN None ELSE 0,
                  !.nextOrder = IF e.working = None THEN 1 ELSE 2, !.orderCount = 0,
                  !.lastBlock = None, !.rejectionCount = 0]

Answers == IF eng.fillCount < MaxFills THEN StrategyAnswers ELSE {NoTarget}

(* A complete book with size on both sides, newer than everything before.  *)
IsGoodQuote(ev) ==
    /\ ev.kind = "bbo" /\ BboIsComplete(ev)
    /\ ev.bidSize > 0 /\ ev.askSize > 0
    /\ ev.ns > eng.sourceClock

(* PaperEngine's OnEvent, OnEventStrategyRaises and OnClock, rebased. *)
CycleEvent ==
    \E ev \in Events, day \in Days, answer \in Answers :
        /\ Accepting
        /\ eng' = Rebase(Advance(eng, ev, day, answer))
        /\ turn' = IF IsGoodQuote(ev) THEN 1 - turn ELSE turn
        /\ UNCHANGED <<failed, calls>>

CycleRaise ==
    \E ev \in Events, day \in Days :
        /\ Accepting
        /\ ~StaleGap(eng, ev.ns)
        /\ \E b \in {BeforeStrategy(AdvanceSourceClock(eng, ev.ns), ev, day)} :
             b.kill # "FLATTEN_HALT" /\ eng' = Rebase(b)
        /\ failed' = TRUE
        /\ UNCHANGED <<calls, turn>>

CycleClock ==
    \E now \in ReceiveTimes :
        /\ Accepting
        /\ now >= ClockAnchor(eng)
        /\ eng' = Rebase(Tick(eng, now))
        /\ UNCHANGED <<failed, calls, turn>>

CycleNext == CycleEvent \/ CycleRaise \/ CycleClock
CycleSpec == Init /\ turn = 0 /\ [][CycleNext]_cycleVars

(* The one fairness assumption is about the venue: it keeps sending good   *)
(* quotes, unless the engine stopped.  Nothing obliges the strategy or the *)
(* caller of on_clock to act.                                              *)
FairSpec == CycleSpec /\ WF_turn(~failed /\ turn' = 1 - turn)

(* A position under a pending stop exit or a flattening kill switch is     *)
(* eventually closed as long as good quotes keep coming: an exit that was  *)
(* refused, partly filled or made to wait for a refill is tried again      *)
(* (_check_stop, _enforce_flat and the waiting exit of on_clock).          *)
ExitCompletes ==
    (Position # 0 /\ (eng.kill = "FLATTEN_HALT" \/ eng.stopExitPending)) ~> (Position = 0 \/ failed)
=============================================================================
