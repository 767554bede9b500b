-------------------------- MODULE SignalRulesProofs --------------------------
(***************************************************************************)
(* What the rulebook promises on any two frames.                           *)
(***************************************************************************)
EXTENDS SignalRules, TLAPS

\* Two frames on which every rule can be asked.
Judged(p, c) == p \in Frame /\ c \in Frame /\ ~Raises(p, c)

Some1(p, c) == \/ Base1Sell(p, c) \/ Base1Buy(p, c) \/ Trend1Sell(p, c)
               \/ Trend1Buy(p, c) \/ Price1Sell(p, c) \/ Price1Buy(p, c)

\* Where a first condition holds, the bands, #4 and #6 have been found.
LEMMA Found ==
  ASSUME NEW p, NEW c, Judged(p, c), Some1(p, c)
  PROVE  /\ p.band1 \in Band /\ p.band2 \in Band /\ c.band1 \in Band /\ c.band2 \in Band
         /\ c.ma4 \in Int /\ c.rsi6 \in Int /\ p.rsi6 \in Int
<1>1. None \notin {p.band1, p.band2, c.band1, c.band2} /\ None \notin {c.ma4, c.rsi6, p.rsi6}
  BY DEF Judged, Raises, Some1
<1>2. /\ p.band1 \in Maybe(Band) /\ p.band2 \in Maybe(Band)
      /\ c.band1 \in Maybe(Band) /\ c.band2 \in Maybe(Band)
      /\ c.ma4 \in Maybe(Int) /\ c.rsi6 \in Maybe(Int) /\ p.rsi6 \in Maybe(Int)
  BY DEF Judged, Frame
<1> QED
  BY <1>1, <1>2 DEF Maybe

\* Every sell rule wants #6 above #1(1U), every buy rule wants it below #1(1L).
LEMMA SellsAreHigh ==
  ASSUME NEW p, NEW c, NEW div, Sells(p, c, div)
  PROVE  Some1(p, c) /\ RsiHigh(c)
  BY DEF Sells, BaseSell, UptrendSell, PriceFilterSell, Some1, RsiRose, RsiHigh, CrossedAbove

LEMMA BuysAreLow ==
  ASSUME NEW p, NEW c, NEW div, Buys(p, c, div)
  PROVE  Some1(p, c) /\ RsiLow(c)
  BY DEF Buys, BaseBuy, DowntrendBuy, PriceFilterBuy, Some1, RsiFell, RsiLow, CrossedBelow

\* No two frames are both sold and bought, whatever the divergence: the order
\* in which the rules are asked (signal_rule_engine.py 171-179) never decides
\* the side.
THEOREM OneSide ==
  ASSUME NEW p, NEW c, NEW div, Judged(p, c)
  PROVE  ~(Sells(p, c, div) /\ Buys(p, c, div))
<1> SUFFICES ASSUME Sells(p, c, div), Buys(p, c, div) PROVE FALSE
  OBVIOUS
<1>1. Some1(p, c) /\ RsiHigh(c) /\ RsiLow(c)
  BY SellsAreHigh, BuysAreLow
<1>2. c.band1 \in Band /\ c.rsi6 \in Int
  BY <1>1, Found
<1> QED
  BY <1>1, <1>2 DEF RsiHigh, RsiLow, Above, Band

\* The signal is the side that fires: SELL exactly when a sell rule does, BUY
\* exactly when a buy rule does, and HOLD when none does.
THEOREM SignalIsTheSide ==
  ASSUME NEW p, NEW c, NEW div, Judged(p, c)
  PROVE  /\ Signal(p, c, div) = "SELL" <=> Sells(p, c, div)
         /\ Signal(p, c, div) = "BUY" <=> Buys(p, c, div)
<1> DEFINE f == Fired(p, c, div)
<1>1. /\ Sells(p, c, div) <=> f[1] \/ f[3] \/ f[5]
      /\ Buys(p, c, div) <=> f[2] \/ f[4] \/ f[6]
  BY DEF Fired, Sells, Buys
<1>2. ~(Sells(p, c, div) /\ Buys(p, c, div))
  BY OneSide
<1> DEFINE First(i) == f[i] /\ \A j \in 1 .. i - 1 : ~f[j]
<1>3. (\E i \in 1 .. 6 : f[i] /\ i % 2 = 1 /\ \A j \in 1 .. i - 1 : ~f[j])
        <=> First(1) \/ First(3) \/ First(5)
  OBVIOUS
<1>4. (\E i \in 1 .. 6 : f[i] /\ i % 2 = 0 /\ \A j \in 1 .. i - 1 : ~f[j])
        <=> First(2) \/ First(4) \/ First(6)
  OBVIOUS
<1>5. Sells(p, c, div) => First(1) \/ First(3) \/ First(5)
  <2> SUFFICES ASSUME Sells(p, c, div) PROVE First(1) \/ First(3) \/ First(5)
    OBVIOUS
  <2>1. ~f[2] /\ ~f[4] /\ ~f[6] /\ (f[1] \/ f[3] \/ f[5])
    BY <1>1, <1>2
  <2> HIDE DEF f
  <2>2. CASE f[1]
    BY <2>2
  <2>3. CASE ~f[1] /\ f[3]
    BY <2>1, <2>3
  <2>4. CASE ~f[1] /\ ~f[3] /\ f[5]
    BY <2>1, <2>4
  <2> QED
    BY <2>1, <2>2, <2>3, <2>4
<1>6. Buys(p, c, div) => First(2) \/ First(4) \/ First(6)
  <2> SUFFICES ASSUME Buys(p, c, div) PROVE First(2) \/ First(4) \/ First(6)
    OBVIOUS
  <2>1. ~f[1] /\ ~f[3] /\ ~f[5] /\ (f[2] \/ f[4] \/ f[6])
    BY <1>1, <1>2
  <2> HIDE DEF f
  <2>2. CASE f[2]
    BY <2>1, <2>2
  <2>3. CASE ~f[2] /\ f[4]
    BY <2>1, <2>3
  <2>4. CASE ~f[2] /\ ~f[4] /\ f[6]
    BY <2>1, <2>4
  <2> QED
    BY <2>1, <2>2, <2>3, <2>4
<1>7. /\ First(1) \/ First(3) \/ First(5) => Sells(p, c, div)
      /\ First(2) \/ First(4) \/ First(6) => Buys(p, c, div)
  <2> HIDE DEF f
  <2> QED
    BY <1>1
<1>8. /\ Signal(p, c, div) = "SELL" <=> First(1) \/ First(3) \/ First(5)
      /\ Signal(p, c, div) = "BUY" <=>
           ~(First(1) \/ First(3) \/ First(5)) /\ (First(2) \/ First(4) \/ First(6))
  <2> HIDE DEF First
  <2> QED
    BY <1>3, <1>4 DEF Signal
<1> HIDE DEF First
<1> QED
  BY <1>2, <1>5, <1>6, <1>7, <1>8

-----------------------------------------------------------------------------
(* The mirror                                                              *)

\* The chart turned upside down.
Flipped(b) == [U |-> -b.L, M |-> -b.M, L |-> -b.U]
Mirror(f) == [band1 |-> Flipped(f.band1), band2 |-> Flipped(f.band2), ma4 |-> -f.ma4,
              cci5 |-> -f.cci5, rsi6 |-> -f.rsi6, price |-> -f.price,
              band7 |-> Flipped(f.band7), band8 |-> Flipped(f.band8)]
Opposite(div) == CASE div = "bearish" -> "bullish" [] div = "bullish" -> "bearish"
                   [] OTHER -> div

\* Everything has been found, and no line of #2, nor #6, lies on a line of #1.
Distinct(f) ==
  /\ f \in [band1 : Band, band2 : Band, ma4 : Int, cci5 : Int, rsi6 : Int,
            price : Int, band7 : Band, band8 : Band]
  /\ f.band2.M \notin {f.band1.U, f.band1.M, f.band1.L}
  /\ f.band2.U # f.band1.U /\ f.band2.L # f.band1.L
  /\ f.rsi6 \notin {f.band1.U, f.band1.L}

LEMMA CrossingMirrored ==
  ASSUME NEW x \in Int, NEW k \in Int, NEW y \in Int, NEW l \in Int, x # k, y # l
  PROVE  /\ CrossedAbove(-x, -k, -y, -l) <=> CrossedBelow(x, k, y, l)
         /\ CrossedBelow(-x, -k, -y, -l) <=> CrossedAbove(x, k, y, l)
  BY DEF CrossedAbove, CrossedBelow, Above

\* _rule_base_buy "mirrors" _rule_base_sell, and so do the other pairs
\* (signal_rule_engine.py 210, 258, 307): upside down, a buy is a sell -- on
\* frames without ties, since a value on a level counts as below it.
THEOREM BuysMirrorSells ==
  ASSUME NEW p, NEW c, Distinct(p), Distinct(c), None \notin Int, None \notin Band,
         NEW div \in {"bearish", "bullish", "none"}
  PROVE  Sells(Mirror(p), Mirror(c), Opposite(div)) <=> Buys(p, c, div)
<1>1. /\ p.rsi6 \in Int /\ c.rsi6 \in Int /\ c.ma4 \in Int /\ c.price \in Int
      /\ \A b \in {p.band1, p.band2, c.band1, c.band2, c.band7, c.band8} :
           b \in Band
  BY DEF Distinct
<1>2. \A b \in Band : /\ b.U \in Int /\ b.M \in Int /\ b.L \in Int
                      /\ b.U <= b.M /\ b.M <= b.L /\ Flipped(b) \in Band
                      /\ Flipped(b).U = -b.L /\ Flipped(b).M = -b.M /\ Flipped(b).L = -b.U
  BY DEF Band, Flipped
<1>3. \A f : /\ Mirror(f).band1 = Flipped(f.band1) /\ Mirror(f).band2 = Flipped(f.band2)
             /\ Mirror(f).ma4 = -f.ma4 /\ Mirror(f).rsi6 = -f.rsi6
             /\ Mirror(f).price = -f.price
             /\ Mirror(f).band7 = Flipped(f.band7) /\ Mirror(f).band8 = Flipped(f.band8)
  BY DEF Mirror
<1>4. /\ Base1Sell(Mirror(p), Mirror(c)) <=> Base1Buy(p, c)
      /\ Trend1Sell(Mirror(p), Mirror(c)) <=> Trend1Buy(p, c)
      /\ Price1Sell(Mirror(p), Mirror(c)) <=> Price1Buy(p, c)
  <2>1. ASSUME NEW f \in {p, c}
        PROVE  /\ f.band1.U \in Int /\ f.band1.M \in Int /\ f.band1.L \in Int
               /\ f.band2.U \in Int /\ f.band2.M \in Int /\ f.band2.L \in Int
               /\ f.band2.M # f.band1.L /\ f.band2.L # f.band1.L /\ f.band2.M # f.band1.M
               /\ Mirror(f).band1.U = -f.band1.L /\ Mirror(f).band1.M = -f.band1.M
               /\ Mirror(f).band2.U = -f.band2.L /\ Mirror(f).band2.M = -f.band2.M
    BY DEF Distinct, Band, Mirror, Flipped
  <2>2. Base1Sell(Mirror(p), Mirror(c)) <=> Base1Buy(p, c)
    BY <2>1, p \in {p, c}, c \in {p, c} DEF Base1Sell, Base1Buy, CrossedAbove, CrossedBelow, Above
  <2>3. Trend1Sell(Mirror(p), Mirror(c)) <=> Trend1Buy(p, c)
    BY <2>1, p \in {p, c}, c \in {p, c} DEF Trend1Sell, Trend1Buy, CrossedAbove, CrossedBelow, Above
  <2>4. Price1Sell(Mirror(p), Mirror(c)) <=> Price1Buy(p, c)
    BY <2>1, p \in {p, c}, c \in {p, c} DEF Price1Sell, Price1Buy, CrossedAbove, CrossedBelow, Above
  <2> QED
    BY <2>2, <2>3, <2>4
<1>5. /\ MaHigh(Mirror(c)) <=> MaLow(c)
      /\ MaInside(Mirror(c)) <=> MaInside(c)
  BY <1>1, <1>2, <1>3 DEF MaHigh, MaLow, MaInside, Between, Above
<1>6. /\ RsiHigh(Mirror(c)) <=> RsiLow(c)
      /\ RsiRose(Mirror(p), Mirror(c)) <=> RsiFell(p, c)
  <2>1. p.rsi6 # p.band1.L /\ c.rsi6 # c.band1.L
    BY DEF Distinct
  <2>2. RsiHigh(Mirror(c)) <=> RsiLow(c)
    BY <1>1, <1>2, <1>3, <2>1 DEF RsiHigh, RsiLow, Above
  <2> QED
    <3>1. /\ Mirror(p).rsi6 = -p.rsi6 /\ Mirror(p).band1.U = -p.band1.L
          /\ Mirror(c).rsi6 = -c.rsi6 /\ Mirror(c).band1.U = -c.band1.L
          /\ p.band1.L \in Int /\ c.band1.L \in Int
      BY <1>1, <1>2, <1>3
    <3> QED
      BY SMTT(90), <1>1, <2>1, <2>2, <3>1, CrossingMirrored DEF RsiRose, RsiFell
<1>7. PriceHigh(Mirror(c)) <=> PriceLow(c)
  <2>1. PriceFound(c)
    BY <1>1 DEF PriceFound
  <2>2. PriceFound(Mirror(c))
    BY <1>1, <1>2, <1>3 DEF PriceFound
  <2> QED
    BY <1>1, <1>2, <1>3, <2>1, <2>2 DEF PriceHigh, PriceLow
<1>8. Opposite(div) = "bearish" <=> div = "bullish"
  BY DEF Opposite
<1> QED
  BY <1>4, <1>5, <1>6, <1>7, <1>8
     DEF Sells, Buys, BaseSell, BaseBuy, UptrendSell, DowntrendBuy, PriceFilterSell, PriceFilterBuy

Upended(s) == [i \in DOMAIN s |-> -s[i]]

LEMMA HighMirrored ==
  ASSUME NEW s \in Seq(Int)
  PROVE  /\ Upended(s) \in Seq(Int) /\ Len(Upended(s)) = Len(s)
         /\ NewHigh(Upended(s)) <=> NewLow(s)
         /\ NewLow(Upended(s)) <=> NewHigh(s)
<1>1. Len(s) \in Nat /\ DOMAIN s = 1 .. Len(s) /\ \A i \in 1 .. Len(s) : s[i] \in Int
  OBVIOUS
<1>2. /\ Upended(s) \in Seq(Int) /\ Len(Upended(s)) = Len(s)
      /\ \A i \in 1 .. Len(s) : Upended(s)[i] = -s[i]
  BY <1>1 DEF Upended
<1>3. Early(Upended(s)) = Early(s) /\ Late(Upended(s)) = Late(s)
  BY <1>2 DEF Early, Late
<1>4. Early(s) \subseteq 1 .. Len(s) /\ Late(s) \subseteq 1 .. Len(s)
  BY <1>1 DEF Early, Late
<1>7. \A i \in Late(s), j \in Early(s) :
         /\ Upended(s)[i] < Upended(s)[j] <=> s[i] > s[j]
         /\ Upended(s)[i] > Upended(s)[j] <=> s[i] < s[j]
  <2> SUFFICES ASSUME NEW i \in 1 .. Len(s), NEW j \in 1 .. Len(s)
               PROVE  /\ Upended(s)[i] < Upended(s)[j] <=> s[i] > s[j]
                      /\ Upended(s)[i] > Upended(s)[j] <=> s[i] < s[j]
    BY <1>4
  <2>1. /\ s[i] \in Int /\ s[j] \in Int
        /\ Upended(s)[i] = -s[i] /\ Upended(s)[j] = -s[j]
    BY <1>1, <1>2
  <2> QED
    BY <2>1
<1>5. NewHigh(Upended(s)) <=> NewLow(s)
  BY <1>3, <1>7, Zenon DEF NewHigh, NewLow
<1>6. NewLow(Upended(s)) <=> NewHigh(s)
  BY <1>3, <1>7, Zenon DEF NewHigh, NewLow
<1> QED
  BY <1>2, <1>5, <1>6

\* divergence (signal_rule_engine.py 98-127) mirrors too, unless the window
\* reaches both a new high and a new low that the indicator does not confirm:
\* it is then called bearish either way up, because its high is asked about first.
THEOREM DivergenceMirrored ==
  ASSUME NEW ind \in Seq(Int), NEW price \in Seq(Int)
  PROVE  LET both == /\ Len(price) >= 4 /\ Len(ind) = Len(price)
                     /\ NewHigh(price) /\ ~NewHigh(ind) /\ NewLow(price) /\ ~NewLow(ind)
             d == Divergence(ind, price)
             u == Divergence(Upended(ind), Upended(price))
         IN  /\ both => d = "bearish" /\ u = "bearish"
             /\ ~both => u = Opposite(d)
<1>1. /\ Len(ind) \in Nat /\ Len(price) \in Nat
      /\ Len(Upended(ind)) = Len(ind) /\ Len(Upended(price)) = Len(price)
      /\ NewHigh(Upended(ind)) <=> NewLow(ind)
      /\ NewLow(Upended(ind)) <=> NewHigh(ind)
      /\ NewHigh(Upended(price)) <=> NewLow(price)
      /\ NewLow(Upended(price)) <=> NewHigh(price)
  BY HighMirrored
<1> QED
  BY <1>1 DEF Divergence, Opposite
=============================================================================
