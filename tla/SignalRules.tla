----------------------------- MODULE SignalRules -----------------------------
(***************************************************************************)
(* The rulebook (signal_rule_engine.py): which signal the last two frames  *)
(* of a history, and the divergence of its last frames, give.              *)
(*                                                                         *)
(* Values are pixel rows: a SMALLER value is a HIGHER price.               *)
(***************************************************************************)
EXTENDS Integers, Sequences

CONSTANTS
  Lookback,   \* divergence_lookback
  None        \* what was not found in the screenshot

ASSUME SignalRulesAssumption == Lookback \in Nat \ {0}

-----------------------------------------------------------------------------
(* What a screenshot gives (brain_cv_service.py)                           *)

\* The three lines of a band, named by the order they are found in.
Band == { b \in [U : Int, M : Int, L : Int] : b.U <= b.M /\ b.M <= b.L }

Maybe(S) == S \cup {None}

\* Whatever is not found on the screen is None.
Frame == [band1 : Maybe(Band), band2 : Maybe(Band), ma4 : Maybe(Int), cci5 : Maybe(Int),
          rsi6 : Maybe(Int), price : Maybe(Int), band7 : Maybe(Band), band8 : Maybe(Band)]

-----------------------------------------------------------------------------
(* Primitives                                                              *)

\* side_of: on the level counts as below.
Above(v, level) == v < level

CrossedAbove(pv, plevel, v, level) == ~Above(pv, plevel) /\ Above(v, level)
CrossedBelow(pv, plevel, v, level) == Above(pv, plevel) /\ ~Above(v, level)

Between(v, x, y) == (x <= v /\ v <= y) \/ (y <= v /\ v <= x)

\* The halves of a window; the earlier one is the shorter.
Early(s) == 1 .. (Len(s) \div 2)
Late(s)  == (Len(s) \div 2) + 1 .. Len(s)

\* The later half reaches higher (lower) than the earlier one.
NewHigh(s) == \E i \in Late(s) : \A j \in Early(s) : s[i] < s[j]
NewLow(s)  == \E i \in Late(s) : \A j \in Early(s) : s[i] > s[j]

\* A window that makes both is asked about its high first.
Divergence(ind, price) ==
  IF Len(price) < 4 \/ Len(ind) # Len(price) THEN "none"
  ELSE IF NewHigh(price) /\ ~NewHigh(ind) THEN "bearish"
  ELSE IF NewLow(price) /\ ~NewLow(ind) THEN "bullish"
  ELSE "none"

-----------------------------------------------------------------------------
(* The rules, on the previous frame p, the current one c and the divergence *)

\* #6 is above #1(1U); below #1(1L).  "crossed or is" is "is".
RsiHigh(c) == Above(c.rsi6, c.band1.U)
RsiLow(c)  == ~Above(c.rsi6, c.band1.L)

RsiRose(p, c) == CrossedAbove(p.rsi6, p.band1.U, c.rsi6, c.band1.U)
RsiFell(p, c) == CrossedBelow(p.rsi6, p.band1.L, c.rsi6, c.band1.L)

MaHigh(c) == Between(c.ma4, c.band1.M, c.band1.U) \/ Above(c.ma4, c.band1.U)
MaLow(c)  == Between(c.ma4, c.band1.M, c.band1.L) \/ ~Above(c.ma4, c.band1.L)
MaInside(c) == Between(c.ma4, c.band1.M, c.band1.U) \/ Between(c.ma4, c.band1.M, c.band1.L)

\* Price beyond both bands of the price panel, when all three were found.
PriceFound(c) == c.band7 # None /\ c.band8 # None /\ c.price # None
PriceHigh(c)  == PriceFound(c) /\ c.price < c.band7.U /\ c.price < c.band8.U
PriceLow(c)   == PriceFound(c) /\ c.price > c.band7.L /\ c.price > c.band8.L

\* The first condition of each rule: what of #2 has crossed what of #1.
Base1Sell(p, c) == CrossedAbove(p.band2.M, p.band1.U, c.band2.M, c.band1.U)
Base1Buy(p, c)  == CrossedBelow(p.band2.M, p.band1.L, c.band2.M, c.band1.L)
Trend1Sell(p, c) == CrossedAbove(p.band2.U, p.band1.U, c.band2.U, c.band1.U)
Trend1Buy(p, c)  == CrossedBelow(p.band2.L, p.band1.L, c.band2.L, c.band1.L)
Price1Sell(p, c) == CrossedBelow(p.band2.M, p.band1.M, c.band2.M, c.band1.M)
Price1Buy(p, c)  == CrossedAbove(p.band2.M, p.band1.M, c.band2.M, c.band1.M)

BaseSell(p, c, div) == Base1Sell(p, c) /\ MaHigh(c) /\ RsiHigh(c) /\ div = "bearish"
BaseBuy(p, c, div)  == Base1Buy(p, c) /\ MaLow(c) /\ RsiLow(c) /\ div = "bullish"
UptrendSell(p, c, div)  == Trend1Sell(p, c) /\ MaHigh(c) /\ RsiRose(p, c) /\ div = "bearish"
DowntrendBuy(p, c, div) == Trend1Buy(p, c) /\ MaLow(c) /\ RsiFell(p, c) /\ div = "bullish"
PriceFilterSell(p, c) == Price1Sell(p, c) /\ MaInside(c) /\ RsiRose(p, c) /\ PriceHigh(c)
PriceFilterBuy(p, c)  == Price1Buy(p, c) /\ MaInside(c) /\ RsiFell(p, c) /\ PriceLow(c)

\* The rules in the order they are asked: sell and buy in turn.
Fired(p, c, div) ==
  << BaseSell(p, c, div), BaseBuy(p, c, div), UptrendSell(p, c, div),
     DowntrendBuy(p, c, div), PriceFilterSell(p, c), PriceFilterBuy(p, c) >>

Sells(p, c, div) ==
  BaseSell(p, c, div) \/ UptrendSell(p, c, div) \/ PriceFilterSell(p, c)
Buys(p, c, div) ==
  BaseBuy(p, c, div) \/ DowntrendBuy(p, c, div) \/ PriceFilterBuy(p, c)

\* The first rule that fires decides.
Signal(p, c, div) ==
  LET f == Fired(p, c, div) IN
    IF \E i \in 1 .. 6 : f[i] /\ i % 2 = 1 /\ \A j \in 1 .. i - 1 : ~f[j] THEN "SELL"
    ELSE IF \E i \in 1 .. 6 : f[i] /\ i % 2 = 0 /\ \A j \in 1 .. i - 1 : ~f[j] THEN "BUY"
    ELSE "HOLD"

\* A missing band raises, and so does a missing #4 or #6 once a first condition holds.
Raises(p, c) ==
  \/ None \in {p.band1, p.band2, c.band1, c.band2}
  \/ /\ None \in {c.ma4, c.rsi6, p.rsi6}
     /\ \/ Base1Sell(p, c) \/ Base1Buy(p, c) \/ Trend1Sell(p, c)
        \/ Trend1Buy(p, c) \/ Price1Sell(p, c) \/ Price1Buy(p, c)

-----------------------------------------------------------------------------
(* evaluate                                                                *)

\* h[-n:]
Latest(n, h) == SubSeq(h, IF Len(h) > n THEN Len(h) - n + 1 ELSE 1, Len(h))

Window(h) == Latest(Lookback, h)

\* Each series leaves out the frames its own value is missing from.
Prices(h) ==
  LET found == SelectSeq(Window(h), LAMBDA f : f.price # None)
  IN  [i \in DOMAIN found |-> found[i].price]
Ccis(h) ==
  LET found == SelectSeq(Window(h), LAMBDA f : f.cci5 # None)
  IN  [i \in DOMAIN found |-> found[i].cci5]

DivergenceOf(h) == Divergence(Ccis(h), Prices(h))

\* "HOLD" also when there are no two frames; "raises" ends the request in 500.
Evaluate(h) ==
  IF Len(h) < 2 THEN "HOLD"
  ELSE LET p == h[Len(h) - 1]  c == h[Len(h)] IN
         IF Raises(p, c) THEN "raises" ELSE Signal(p, c, DivergenceOf(h))
=============================================================================
