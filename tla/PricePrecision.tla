--------------------------- MODULE PricePrecision ---------------------------
(***************************************************************************)
(* The venue price grid (hyperliquid_bot/paper_engine/precision.py): at    *)
(* most SignificantFigures figures and MaxDecimals decimals, integers      *)
(* always allowed.  A price is a whole number of units of 10^-Scale, finer *)
(* than the grid, so that quotes and slippage can fall between its points. *)
(***************************************************************************)
EXTENDS Integers

CONSTANTS
    NoPrice,
    SignificantFigures,   \* PRICE_SIGNIFICANT_FIGURES (5 in the code)
    MaxDecimals,          \* perp_max_price_decimals (1 for BTC)
    Scale,                \* decimals of a unit
    MaxPrice              \* bound: the largest price tried, in units

ASSUME PrecisionAssumption ==
    /\ SignificantFigures \in Nat \ {0}
    /\ MaxDecimals \in Nat /\ Scale \in Nat /\ MaxDecimals <= Scale
    /\ MaxPrice \in Nat \ {0}
    /\ NoPrice \notin Int

VARIABLES
    quoted,               \* the price before rounding
    side,
    use,                  \* "adverse" for a fill, "protective" for a limit
    rounded               \* the price after the calls made so far

gridVars == <<quoted, side, use, rounded>>

-----------------------------------------------------------------------------
TenTo[n \in Nat] == IF n = 0 THEN 1 ELSE 10 * TenTo[n - 1]

One == TenTo[Scale]

\* Decimal.adjusted, counted from the digit of one unit.
Digits(price) == CHOOSE d \in 1 .. price : TenTo[d - 1] <= price /\ price < TenTo[d]

AtLeast(a, b) == IF a > b THEN a ELSE b

(* Mutant: the significant figures bind above the integers too. *)
PriceQuantumUncapped(price) ==
    AtLeast(IF Digits(price) > SignificantFigures
            THEN TenTo[Digits(price) - SignificantFigures] ELSE 1,
            TenTo[Scale - MaxDecimals])

(* price_quantum: the coarser of the two grids, but never above 1.  A      *)
(* significant quantum below one unit is below the decimal one.            *)
PriceQuantum(price) ==
    LET significant == IF Digits(price) > SignificantFigures
                       THEN TenTo[Digits(price) - SignificantFigures] ELSE 1
        quantum == AtLeast(significant, TenTo[Scale - MaxDecimals])
    IN  IF quantum > One THEN One ELSE quantum

(* To a whole number of quanta: ROUND_CEILING or ROUND_FLOOR. *)
WholeQuanta(price, quantum, up) ==
    ((IF up THEN price + quantum - 1 ELSE price) \div quantum) * quantum

(* _round_to_grid, which rounds again when the quantum changed; NoPrice is  *)
(* its ValueError.                                                          *)
RoundToGrid(price, up) ==
    LET round[p \in Nat \ {0}] ==
            LET result == WholeQuanta(p, PriceQuantum(p), up)
            IN  IF result <= 0 THEN NoPrice
                ELSE IF PriceQuantum(result) = PriceQuantum(p) THEN result
                ELSE round[result]
    IN  round[price]

AdversePriceOnGrid(s, price) == RoundToGrid(price, s = "BUY")

ProtectivePrice(s, price) == RoundToGrid(price, s = "SELL")

-----------------------------------------------------------------------------
GridInit ==
    /\ quoted \in 1..MaxPrice
    /\ side \in {"BUY", "SELL"}
    /\ use \in {"adverse", "protective"}
    /\ rounded = quoted

(* A refused price raises and leaves the caller without one; a price that  *)
(* is rounded again must not move.                                         *)
Keep(result) ==
    /\ rounded' = IF result = NoPrice THEN rounded ELSE result
    /\ UNCHANGED <<quoted, side, use>>

RoundFill == use = "adverse" /\ Keep(AdversePriceOnGrid(side, rounded))

RoundLimit == use = "protective" /\ Keep(ProtectivePrice(side, rounded))

GridNext == RoundFill \/ RoundLimit

GridSpec == GridInit /\ [][GridNext]_gridVars

-----------------------------------------------------------------------------
(* The venue's rule, without the quantum: what the grid is meant to be.    *)
Allowed(price) ==
    \/ price % One = 0
    \/ /\ price % TenTo[Scale - MaxDecimals] = 0
       /\ Digits(price) > SignificantFigures
            => price % TenTo[Digits(price) - SignificantFigures] = 0

Between(a, b) == IF a < b THEN (a + 1)..(b - 1) ELSE (b + 1)..(a - 1)

(* A rounded price is one the venue accepts; no accepted price lies between *)
(* it and the quote, across powers of ten and the integer cap, however      *)
(* often it is rounded; and it is on the safe side: a fill never rounds to  *)
(* a better price, a limit never to a wider band (price_quantum,            *)
(* _round_to_grid, adverse_price and protective_price).                     *)
NearestSafePrice ==
    /\ rounded # quoted =>
           /\ Allowed(rounded)
           /\ \A p \in Between(quoted, rounded) : ~Allowed(p)
           /\ ~Allowed(quoted)
    /\ IF (use = "adverse") = (side = "BUY") THEN rounded >= quoted ELSE rounded <= quoted
=============================================================================
