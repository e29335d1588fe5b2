---------------------------- MODULE ReplayProofs ----------------------------
(***************************************************************************)
(* Proofs about the back-test engine: its stops only tighten, a floor pays *)
(* what it promised, a flip opens one basket at most, and the balance and  *)
(* its drawdown are those of the list of trades.  And, with the proofs     *)
(* about its neighbours, about all of trading at once: TradingHolds.       *)
(***************************************************************************)
EXTENDS MCTrading, TradingProofs, RecordProofs

-----------------------------------------------------------------------------
(* The invariant                                                           *)

Dirs == {"BUY", "SELL"}
Share == [px : Int, oz : Nat \ {0}]
OpenBaskets ==
    [dir : Dirs, legs : Seq(Share), stop : Int, peak : Int, cycle : Int, entryStop : Int,
     armed : BOOLEAN, owed : Int, floorAt : Int, banked : BOOLEAN, soft : BOOLEAN, flip : Nat]
Reasons == {"flatten", "floor stop", "stop", "profit target", "profit lock", "reversal",
            "eod-open"}
Rows == [pl : Int, why : Reasons, owed : Int, flip : Nat]
FlipStates == [last : Nat, fired : Nat, revive : Nat, extreme : Int, beyond : Int]
Bars == [i : Nat, close : Int, low : Int, high : Int, trend : Dirs]
BalanceMarks == [peakBal : Int, maxDd : Int, peakEq : Int, maxValley : Int]
Points == [sum : Int, peak : Int, dd : Int]

ReplayKinds ==
    /\ mode \in ReplayModes /\ phase \in {"observe", "manage", "enter", "end"}
    /\ signal \in Dirs \union {"none"} /\ bar \in Bars /\ bar.i <= MaxBars
    /\ flips \in FlipStates /\ bal \in Int /\ basket \in OpenBaskets \union {NoBasket}
    /\ trades \in Seq(Rows) /\ held \in 0..bar.i /\ surprises \in Int
    /\ marks \in BalanceMarks

\* A flip is marked as fired before a basket is opened in it, and a basket uses
\* its flip up: it neither fires again nor waits for a revival.
UsedFlips == {trades[k].flip : k \in DOMAIN trades}
             \union (IF IsOpen THEN {basket.flip} ELSE {})
Spent(f) == f.fired = f.last /\ f.revive # f.last
FlipsSound(f, used) ==
    /\ f.fired <= f.last /\ f.revive <= f.last
    /\ f.revive = f.last => f.fired = f.last
    /\ \A n \in used : n <= f.last /\ (n = f.last => Spent(f))
FlipsKnown == FlipsSound(flips, UsedFlips) /\ flips.last <= bar.i /\ OneBasketPerFlip

\* A signal comes from a flip that is spent on it and that no basket has used,
\* in the direction of HalfTrend, with the extreme of the flip behind the price.
SignalNew ==
    phase \in {"manage", "enter"} /\ signal # "none" =>
        /\ Spent(flips) /\ flips.last \notin UsedFlips
        /\ flips.extreme * Sign(signal) <= bar.close * Sign(signal)

\* The last but one leg, whose price the stop of an unarmed basket has not
\* passed: the next step of the ladder can only tighten it.
Rung(b) == b.legs[IF Len(b.legs) = 1 THEN 1 ELSE Len(b.legs) - 1].px
Climbing(b) == \A k \in 1..(Len(b.legs) - 1) :
                   b.legs[k].px * Sign(b.dir) <= b.legs[k + 1].px * Sign(b.dir)
Laddered(b) ==
    /\ Len(b.legs) \in 1..MostLegs /\ Climbing(b)
    /\ ~b.armed => b.stop * Sign(b.dir) <= Rung(b) * Sign(b.dir)
    /\ mode.entry = "hybrid" => ~b.armed /\ (~b.banked => Len(b.legs) = 1)
    /\ b.armed /\ mode.exit # "floor-a-adds" => BasketPl(b, b.floorAt) >= b.owed

\* Outside hybrid mode the balance and its marks are the curve of the trades.
BalanceKept ==
    mode.entry # "hybrid" =>
        /\ bal = StartBalance + Curve(trades).sum /\ Curve(trades).sum = Booked
        /\ marks.peakBal = StartBalance + Curve(trades).peak
        /\ marks.maxDd = Curve(trades).dd

ReplayInv == /\ ReplayKinds /\ FlipsKnown /\ SignalNew /\ BalanceKept /\ FloorPays
             /\ IsOpen => Laddered(basket)

-----------------------------------------------------------------------------
(* Sums over the trades and over the legs                                  *)

LEMMA ListOfNumbers ==
  ASSUME NEW n \in Nat, NEW f \in [1..n -> Int]
  PROVE  f \in Seq(Int) /\ Len(f) = n
OBVIOUS

LEMMA RowParts ==
  ASSUME NEW rows \in Seq(Rows)
  PROVE  /\ Len(rows) \in Nat /\ DOMAIN rows = 1..Len(rows)
         /\ \A k \in 1..Len(rows) : rows[k] \in Rows /\ rows[k].pl \in Int
<1>1. \A k \in 1..Len(rows) : rows[k] \in Rows
  BY ElementOfSeq
<1>2. \A r \in Rows : r.pl \in Int
  BY DEF Rows
<1>. QED BY <1>1, <1>2, LenProperties

LEMMA FurtherIsPoint ==
  ASSUME NEW c \in Points, NEW pl \in Int PROVE Further(c, pl) \in Points
BY DEF Points, Further, Larger

\* The points of the curve of a list of trades.
LEMMA CurvePoints ==
  ASSUME NEW rows \in Seq(Rows)
  PROVE  \E f \in [0..Len(rows) -> Points] :
             /\ f[0] = [sum |-> 0, peak |-> 0, dd |-> 0] /\ Curve(rows) = f[Len(rows)]
             /\ \A k \in 1..Len(rows) : f[k] = Further(f[k - 1], rows[k].pl)
<1>. DEFINE n == Len(rows)
            first == [sum |-> 0, peak |-> 0, dd |-> 0]
            Is(f) == f = [k \in 0..n |-> IF k = 0 THEN [sum |-> 0, peak |-> 0, dd |-> 0]
                                         ELSE Further(f[k - 1], rows[k].pl)]
            step == [k \in 1..n |-> [c \in Points |-> Further(c, rows[k].pl)]]
            points == CHOOSE f : Is(f)
<1>1. n \in Nat /\ \A k \in 1..n : rows[k].pl \in Int
  BY RowParts
<1>2. first \in Points
  BY DEF Points
<1>3. step \in [1..n -> [Points -> Points]]
  BY <1>1, FurtherIsPoint
<1>4. PICK f \in [0..n -> Points] : f[0] = first /\ \A k \in 1..n : f[k] = step[k][f[k - 1]]
  <2>. HIDE DEF n, step, first
  <2>1. \E f \in [0..n -> Points] : Recurs(f, n, first, step)
    BY <1>1, <1>2, <1>3, Recursion
  <2>. QED BY <2>1 DEF Recurs
<1>5. Is(f)
  <2>1. \A k \in 1..n : k - 1 \in 0..n
    BY <1>1
  <2>2. \A k \in 1..n : f[k] = Further(f[k - 1], rows[k].pl)
    BY <1>4, <2>1
  <2>. QED BY <1>1, <1>4, <2>2
<1>. HIDE DEF Is
<1>6. Is(points)
  BY <1>5
<1>7. Curve(rows) = points[n]
  BY DEF Curve, Is
<1>8. /\ points \in [0..n -> Points] /\ points[0] = first
      /\ \A k \in 1..n : points[k] = Further(points[k - 1], rows[k].pl)
  <2>. HIDE DEF points
  <2>1. points = [k \in 0..n |-> IF k = 0 THEN first ELSE Further(points[k - 1], rows[k].pl)]
    BY <1>6 DEF Is
  <2>. HIDE DEF n, first
  <2>2. points[0] = first /\ \A k \in 1..n : points[k] = Further(points[k - 1], rows[k].pl)
    BY <1>1, <2>1
  <2>. DEFINE S == {k \in 0..n : points[k] \in Points}
  <2>3. ASSUME NEW k \in 1..n, k - 1 \in S PROVE k \in S
    <3>1. points[k - 1] \in Points
      BY <2>3
    <3>2. points[k] = Further(points[k - 1], rows[k].pl) /\ rows[k].pl \in Int
      BY <1>1, <2>2
    <3>3. points[k] \in Points
      BY <3>1, <3>2, FurtherIsPoint
    <3>. QED BY <1>1, <3>3
  <2>4. 0..n \subseteq S
    <3>1. 0 \in S
      BY <1>1, <1>2, <2>2
    <3>. HIDE DEF S
    <3>. QED BY <1>1, <2>3, <3>1, UpTo
  <2>. QED BY <2>1, <2>2, <2>4
<1>. QED BY <1>7, <1>8

\* One more trade is one more point.
LEMMA CurveOfAppend ==
  ASSUME NEW rows \in Seq(Rows), NEW r \in Rows
  PROVE  Curve(Append(rows, r)) = Further(Curve(rows), r.pl) /\ Curve(rows) \in Points
<1>. DEFINE n == Len(rows)
            more == Append(rows, r)
<1>1. /\ more \in Seq(Rows) /\ Len(more) = n + 1 /\ more[n + 1] = r /\ n \in Nat
      /\ \A k \in 1..n : more[k] = rows[k]
  BY AppendProperties, LenProperties
<1>2. PICK f \in [0..n -> Points] :
          /\ f[0] = [sum |-> 0, peak |-> 0, dd |-> 0] /\ Curve(rows) = f[n]
          /\ \A k \in 1..n : f[k] = Further(f[k - 1], rows[k].pl)
  BY CurvePoints
<1>. HIDE DEF more, n
<1>3. PICK g \in [0..(n + 1) -> Points] :
          /\ g[0] = [sum |-> 0, peak |-> 0, dd |-> 0] /\ Curve(more) = g[n + 1]
          /\ \A k \in 1..(n + 1) : g[k] = Further(g[k - 1], more[k].pl)
  <2>1. \E g \in [0..Len(more) -> Points] :
            /\ g[0] = [sum |-> 0, peak |-> 0, dd |-> 0] /\ Curve(more) = g[Len(more)]
            /\ \A k \in 1..Len(more) : g[k] = Further(g[k - 1], more[k].pl)
    BY <1>1, CurvePoints
  <2>. QED BY <1>1, <2>1
<1>. DEFINE S == {k \in 0..n : g[k] = f[k]}
<1>4. 0..n \subseteq S
  <2>1. 0 \in S
    BY <1>1, <1>2, <1>3
  <2>2. ASSUME NEW k \in 1..n, k - 1 \in S PROVE k \in S
    <3>1. g[k - 1] = f[k - 1] /\ k \in 1..(n + 1) /\ k \in 0..n /\ more[k] = rows[k]
      BY <1>1, <2>2
    <3>2. g[k] = Further(f[k - 1], rows[k].pl)
      BY <1>3, <3>1
    <3>. QED BY <1>2, <3>1, <3>2
  <2>. HIDE DEF S
  <2>. QED BY <1>1, <2>1, <2>2, UpTo
<1>5. n \in 0..n /\ n + 1 \in 1..(n + 1) /\ n + 1 - 1 = n
  BY <1>1
<1>6. g[n] = f[n]
  BY <1>4, <1>5
<1>7. g[n + 1] = Further(g[n], r.pl)
  BY <1>1, <1>3, <1>5
<1>. QED BY <1>2, <1>3, <1>5, <1>6, <1>7 DEF more

\* The booked money grows by the result of the trade.
LEMMA ResultsOfAppend ==
  ASSUME NEW rows \in Seq(Rows), NEW r \in Rows
  PROVE  /\ Total(Results(Append(rows, r))) = Total(Results(rows)) + r.pl
         /\ Total(Results(rows)) \in Int
<1>. DEFINE n == Len(rows)
            more == Append(rows, r)
<1>1. /\ Len(more) = n + 1 /\ more[n + 1] = r /\ n \in Nat /\ DOMAIN rows = 1..n
      /\ DOMAIN more = 1..(n + 1) /\ \A k \in 1..n : more[k] = rows[k] /\ rows[k].pl \in Int
  <2>1. /\ more \in Seq(Rows) /\ Len(more) = n + 1 /\ more[n + 1] = r
        /\ \A k \in 1..n : more[k] = rows[k]
    BY AppendProperties
  <2>. HIDE DEF more
  <2>. QED BY <2>1, RowParts
<1>2. r.pl \in Int
  BY DEF Rows
<1>. HIDE DEF n, more
<1>3. Results(rows) \in Seq(Int) /\ Len(Results(rows)) = n /\ DOMAIN Results(rows) = 1..n
  <2>1. Results(rows) \in [1..n -> Int]
    BY <1>1 DEF Results
  <2>. QED BY <1>1, <2>1, ListOfNumbers
<1>4. Results(more) = Append(Results(rows), r.pl)
  <2>. DEFINE t == Append(Results(rows), r.pl)
  <2>1. /\ t \in Seq(Int) /\ DOMAIN t = 1..(n + 1) /\ t[n + 1] = r.pl
        /\ \A k \in 1..n : t[k] = Results(rows)[k]
    BY <1>1, <1>2, <1>3, AppendProperties, LenProperties
  <2>. HIDE DEF t
  <2>2. ASSUME NEW k \in 1..(n + 1) PROVE more[k].pl = t[k]
    <3>1. CASE k = n + 1
      BY <1>1, <2>1, <3>1
    <3>2. CASE k \in 1..n
      BY <1>1, <2>1, <3>2 DEF Results
    <3>. QED BY <1>1, <3>1, <3>2
  <2>3. Results(more) = t
    BY <1>1, <2>1, <2>2 DEF Results
  <2>. QED BY <2>3 DEF t
<1>. QED BY <1>2, <1>3, <1>4, TotalOfAppend DEF more

LEMMA ShareParts ==
  ASSUME NEW ls \in Seq(Share)
  PROVE  /\ Len(ls) \in Nat /\ DOMAIN ls = 1..Len(ls)
         /\ \A k \in 1..Len(ls) : /\ ls[k] \in Share /\ ls[k].px \in Int
                                  /\ ls[k].oz \in Nat \ {0} /\ ls[k].oz * ls[k].px \in Int
<1>1. \A k \in 1..Len(ls) : ls[k] \in Share
  BY ElementOfSeq
<1>2. ASSUME NEW l \in Share PROVE l.px \in Int /\ l.oz \in Nat \ {0} /\ l.oz * l.px \in Int
  <2>1. l.px \in Int /\ l.oz \in Nat \ {0}
    BY DEF Share
  <2>2. \A x, y \in Int : x * y \in Int
    OBVIOUS
  <2>. QED BY <2>1, <2>2
<1>. QED BY <1>1, <1>2, LenProperties

\* The two columns of the legs.
Sizes(ls) == [k \in DOMAIN ls |-> ls[k].oz]
Values(ls) == [k \in DOMAIN ls |-> ls[k].oz * ls[k].px]

LEMMA Columns ==
  ASSUME NEW ls \in Seq(Share)
  PROVE  /\ Sizes(ls) \in Seq(Int) /\ Len(Sizes(ls)) = Len(ls)
         /\ Values(ls) \in Seq(Int) /\ Len(Values(ls)) = Len(ls)
<1>. DEFINE n == Len(ls)
<1>1. /\ n \in Nat /\ DOMAIN ls = 1..n
      /\ \A k \in 1..n : ls[k].oz \in Int /\ ls[k].oz * ls[k].px \in Int
  BY ShareParts
<1>. HIDE DEF n
<1>2. Sizes(ls) \in [1..n -> Int] /\ Values(ls) \in [1..n -> Int]
  BY <1>1 DEF Sizes, Values
<1>. QED BY <1>1, <1>2, ListOfNumbers DEF n

\* A basket with a leg has ounces.
LEMMA OuncesPositive ==
  ASSUME NEW ls \in Seq(Share)
  PROVE  /\ Total(Sizes(ls)) \in Nat /\ Total(Values(ls)) \in Int
         /\ Len(ls) > 0 => Total(Sizes(ls)) > 0
<1>. DEFINE n == Len(ls)
<1>1. n \in Nat /\ \A k \in 1..n : Sizes(ls)[k] \in Nat \ {0}
  BY ShareParts DEF Sizes
<1>2. PICK f \in [0..n -> Int] : /\ f[0] = 0 /\ Total(Sizes(ls)) = f[n]
                                 /\ \A k \in 1..n : f[k] = f[k - 1] + Sizes(ls)[k]
  BY Columns, PartialSums
<1>3. PICK g \in [0..n -> Int] : Total(Values(ls)) = g[n]
  BY Columns, PartialSums, SMTT(30)
<1>. HIDE DEF n
<1>. DEFINE S == {k \in 0..n : f[k] >= k}
<1>4. 0..n \subseteq S
  <2>1. 0 \in S
    BY <1>1, <1>2
  <2>2. ASSUME NEW k \in 1..n, k - 1 \in S PROVE k \in S
    <3>1. k - 1 \in 0..n /\ k \in 0..n /\ f[k - 1] >= k - 1
      BY <1>1, <2>2
    <3>2. f[k] = f[k - 1] + Sizes(ls)[k] /\ f[k - 1] \in Int /\ Sizes(ls)[k] \in Nat \ {0}
      BY <1>1, <1>2, <3>1
    <3>3. f[k] >= k
      BY <1>1, <3>1, <3>2, SMTT(30)
    <3>. QED BY <3>1, <3>3
  <2>. HIDE DEF S
  <2>. QED BY <1>1, <2>1, <2>2, UpTo
<1>5. n \in 0..n
  BY <1>1
<1>6. f[n] >= n /\ f[n] \in Int /\ g[n] \in Int
  BY <1>4, <1>5
<1>. QED BY <1>1, <1>2, <1>3, <1>6 DEF n

\* The columns with one more leg.
LEMMA ColumnsOfAppend ==
  ASSUME NEW ls \in Seq(Share), NEW l \in Share
  PROVE  /\ Total(Sizes(Append(ls, l))) = Total(Sizes(ls)) + l.oz
         /\ Total(Values(Append(ls, l))) = Total(Values(ls)) + l.oz * l.px
<1>. DEFINE n == Len(ls)
            more == Append(ls, l)
<1>1. /\ more \in Seq(Share) /\ Len(more) = n + 1 /\ more[n + 1] = l /\ n \in Nat
      /\ \A k \in 1..n : more[k] = ls[k]
  BY AppendProperties, LenProperties
<1>2. l.oz \in Int /\ l.oz * l.px \in Int
  <2>. HIDE DEF more
  <2>1. n + 1 \in 1..(n + 1)
    BY <1>1
  <2>. QED BY <1>1, <2>1, ShareParts
<1>3. DOMAIN more = 1..(n + 1) /\ DOMAIN ls = 1..n
  <2>. HIDE DEF more
  <2>. QED BY <1>1, ShareParts
<1>. HIDE DEF more
<1>4. Sizes(more) = Append(Sizes(ls), l.oz)
  <2>. DEFINE t == Append(Sizes(ls), l.oz)
  <2>1. t \in Seq(Int) /\ Len(t) = n + 1 /\ t[n + 1] = l.oz /\ \A k \in 1..n : t[k] = Sizes(ls)[k]
    BY <1>2, Columns, AppendProperties
  <2>. HIDE DEF t
  <2>2. DOMAIN t = 1..(n + 1)
    BY <2>1, LenProperties
  <2>. HIDE DEF n
  <2>3. ASSUME NEW k \in 1..(n + 1) PROVE more[k].oz = t[k]
    <3>1. CASE k = n + 1
      BY <1>1, <2>1, <3>1
    <3>2. CASE k \in 1..n
      BY <1>1, <1>3, <2>1, <3>2 DEF Sizes
    <3>. QED BY <1>1, <3>1, <3>2
  <2>4. Sizes(more) = t
    BY <1>3, <2>1, <2>2, <2>3 DEF Sizes
  <2>. QED BY <2>4 DEF t
<1>5. Values(more) = Append(Values(ls), l.oz * l.px)
  <2>. DEFINE v == l.oz * l.px
              t == Append(Values(ls), v)
  <2>. HIDE DEF v
  <2>1. t \in Seq(Int) /\ Len(t) = n + 1 /\ t[n + 1] = v /\ \A k \in 1..n : t[k] = Values(ls)[k]
    BY <1>2, Columns, AppendProperties DEF v
  <2>. HIDE DEF t
  <2>2. DOMAIN t = 1..(n + 1)
    BY <2>1, LenProperties
  <2>. HIDE DEF n
  <2>3. ASSUME NEW k \in 1..(n + 1) PROVE more[k].oz * more[k].px = t[k]
    <3>1. CASE k = n + 1
      BY <1>1, <2>1, <3>1 DEF v
    <3>2. CASE k \in 1..n
      BY <1>1, <1>3, <2>1, <3>2 DEF Values
    <3>. QED BY <1>1, <3>1, <3>2
  <2>4. Values(more) = t
    BY <1>3, <2>1, <2>2, <2>3 DEF Values
  <2>. QED BY <2>4 DEF t, v
<1>. QED BY <1>2, <1>4, <1>5, Columns, TotalOfAppend DEF more

\* The money of a basket in terms of its legs.
LEMMA BasketMoney ==
  ASSUME NEW b, b.legs \in Seq(Share)
  PROVE  /\ Ounces(b) = Total(Sizes(b.legs)) /\ Cost(b) = Total(Values(b.legs))
         /\ Ounces(b) \in Nat /\ Cost(b) \in Int /\ (Len(b.legs) > 0 => Ounces(b) > 0)
<1>1. Ounces(b) = Total(Sizes(b.legs)) /\ Cost(b) = Total(Values(b.legs))
  BY DEF Ounces, Cost, Sizes, Values
<1>. QED BY <1>1, OuncesPositive

LEMMA ReplayNumbers ==
  /\ Moves \subseteq Int /\ FirstClose \in Int /\ EmaLine \in Int
  /\ Wick \in Nat /\ AddTrigger \in Nat /\ SpreadPerOz \in Nat /\ ExpoBars \in Nat
  /\ ConfirmClear \in Nat /\ ReviveClear \in Nat /\ FloorArm \in Nat
  /\ StopBuffer \in Nat /\ MinStop \in Nat
  /\ StartBalance \in Nat \ {0} /\ MaxPositions \in Nat \ {0} /\ ConfirmCloses \in Nat \ {0}
  /\ MinOz \in Nat \ {0} /\ FixedOz \in Nat \ {0}
  /\ SmallBalance \in Nat /\ MidBalance \in Nat /\ RiskPct \in Nat /\ TargetPct \in Nat
  /\ LockPct \in Nat /\ ActivateR \in Nat /\ MaxBars \in Nat /\ MaxSurprises \in Nat
BY ReplayAssumption

LEMMA SignIsUnit == ASSUME NEW d PROVE Sign(d) \in {1, -1}
BY DEF Sign

\* Products with the sign of a direction, for provers that do not multiply.
LEMMA Signed ==
  ASSUME NEW s \in {1, -1}, NEW x \in Int, NEW y \in Int
  PROVE  /\ x * s \in Int /\ s * x = x * s /\ (x - y) * s = x * s - y * s
         /\ (x + y) * s = x * s + y * s /\ (x * s) * s = x
         /\ s = 1 => x * s = x
         /\ s = -1 => x * s = -x
<1>1. CASE s = 1
  BY <1>1
<1>2. CASE s = -1
  BY <1>2
<1>. QED BY <1>1, <1>2

\* The result is a number, and a better price never pays less.
LEMMA PlGrows ==
  ASSUME NEW b, b.legs \in Seq(Share), NEW level \in Int, NEW qx \in Int
  PROVE  /\ BasketPl(b, level) \in Int
         /\ level * Sign(b.dir) <= qx * Sign(b.dir) => BasketPl(b, level) <= BasketPl(b, qx)
<1>. DEFINE n == Ounces(b)
            c == Cost(b)
            s == Sign(b.dir)
<1>1. n \in Nat /\ c \in Int /\ s \in {1, -1} /\ SpreadPerOz \in Nat
  BY BasketMoney, SignIsUnit, ReplayNumbers
<1>2. /\ BasketPl(b, level) = s * (level * n - c) - SpreadPerOz * n
      /\ BasketPl(b, qx) = s * (qx * n - c) - SpreadPerOz * n
  BY DEF BasketPl
<1>. HIDE DEF n, c, s
<1>3. level * n \in Int /\ qx * n \in Int /\ SpreadPerOz * n \in Int
  BY <1>1
<1>4. level <= qx => level * n <= qx * n
  BY <1>1
<1>5. qx <= level => qx * n <= level * n
  BY <1>1
<1>6. BasketPl(b, level) \in Int /\ BasketPl(b, qx) \in Int
  <2>1. CASE s = 1
    BY <1>1, <1>2, <1>3, <2>1
  <2>2. CASE s = -1
    BY <1>1, <1>2, <1>3, <2>2
  <2>. QED BY <1>1, <2>1, <2>2
<1>7. ASSUME level * s <= qx * s PROVE BasketPl(b, level) <= BasketPl(b, qx)
  <2>1. CASE s = 1
    <3>1. level * n <= qx * n
      BY <1>4, <1>7, <2>1
    <3>2. BasketPl(b, level) = level * n - c - SpreadPerOz * n
      BY <1>1, <1>2, <1>3, <2>1
    <3>3. BasketPl(b, qx) = qx * n - c - SpreadPerOz * n
      BY <1>1, <1>2, <1>3, <2>1
    <3>. QED BY <1>1, <1>3, <3>1, <3>2, <3>3
  <2>2. CASE s = -1
    <3>1. qx * n <= level * n
      BY <1>5, <1>7, <2>2
    <3>2. BasketPl(b, level) = c - level * n - SpreadPerOz * n
      BY <1>1, <1>2, <1>3, <2>2
    <3>3. BasketPl(b, qx) = c - qx * n - SpreadPerOz * n
      BY <1>1, <1>2, <1>3, <2>2
    <3>. QED BY <1>1, <1>3, <3>1, <3>2, <3>3
  <2>. QED BY <1>1, <2>1, <2>2
<1>. QED BY <1>6, <1>7 DEF s

\* What a floor price is for: the basket closed there pays what is owed.
LEMMA FloorPricePays ==
  ASSUME NEW b, b.legs \in Seq(Share), Len(b.legs) > 0, NEW amount \in Int
  PROVE  FloorPrice(b, amount) \in Int /\ BasketPl(b, FloorPrice(b, amount)) >= amount
<1>. DEFINE n == Ounces(b)
            c == Cost(b)
            cost == SpreadPerOz * n
            at == FloorPrice(b, amount)
<1>1. n \in Nat \ {0} /\ c \in Int /\ SpreadPerOz \in Nat
  BY BasketMoney, ReplayNumbers
<1>2. cost \in Int
  BY <1>1
<1>3. BasketPl(b, at) = Sign(b.dir) * (at * n - c) - cost
  BY DEF BasketPl
<1>4. at = LET due == c + Sign(b.dir) * (amount + cost)
           IN IF b.dir = "BUY" THEN -((-due) \div n) ELSE due \div n
  BY DEF FloorPrice
<1>. HIDE DEF n, c, cost, at
<1>5. CASE b.dir = "BUY"
  <2>. DEFINE due == c + (amount + cost)
              q == (-due) \div n
  <2>1. due \in Int /\ at = -q
    BY <1>1, <1>2, <1>4, <1>5 DEF Sign
  <2>. HIDE DEF due
  <2>2. q \in Int /\ q * n <= -due
    BY <1>1, <2>1
  <2>. HIDE DEF q
  <2>3. at \in Int /\ at * n \in Int /\ at * n >= due
    BY <1>1, <2>1, <2>2
  <2>4. BasketPl(b, at) = at * n - c - cost
    BY <1>1, <1>2, <1>3, <1>5, <2>3 DEF Sign
  <2>. QED BY <1>1, <1>2, <2>3, <2>4 DEF due, at
<1>6. CASE b.dir # "BUY"
  <2>. DEFINE due == c - (amount + cost)
  <2>1. due \in Int /\ at = due \div n
    BY <1>1, <1>2, <1>4, <1>6 DEF Sign
  <2>. HIDE DEF due
  <2>2. at \in Int /\ at * n \in Int /\ at * n <= due
    BY <1>1, <2>1
  <2>3. BasketPl(b, at) = c - at * n - cost
    BY <1>1, <1>2, <1>3, <1>6, <2>2 DEF Sign
  <2>. QED BY <1>1, <1>2, <2>2, <2>3 DEF due, at
<1>. QED BY <1>5, <1>6

\* Half the way from one price to another is between them.
LEMMA HalfWay ==
  ASSUME NEW s \in {1, -1}, NEW x \in Int, NEW y \in Int, x * s <= y * s
  PROVE  /\ (x + y) \div 2 \in Int
         /\ x * s <= ((x + y) \div 2) * s /\ ((x + y) \div 2) * s <= y * s
<1>. DEFINE h == (x + y) \div 2
<1>1. h \in Int /\ h * 2 <= x + y /\ x + y < h * 2 + 2
  OBVIOUS
<1>. HIDE DEF h
<1>2. CASE s = 1
  BY <1>1, <1>2 DEF h
<1>3. CASE s = -1
  BY <1>1, <1>3 DEF h
<1>. QED BY <1>2, <1>3

\* The bank takes less than the whole leg.
LEMMA HalfIsLess == ASSUME NEW oz \in Nat \ {0} PROVE oz - Half(oz) \in Nat \ {0} /\ Half(oz) \in Int
BY DEF Half

-----------------------------------------------------------------------------
(* Closing a basket                                                        *)

\* Updates of an open basket, field by field.
LEMMA BasketUpdates ==
  ASSUME NEW b \in OpenBaskets, NEW x \in Int, NEW y \in BOOLEAN, NEW ls \in Seq(Share)
  PROVE  /\ [b EXCEPT !.peak = x] \in OpenBaskets /\ [b EXCEPT !.stop = x] \in OpenBaskets
         /\ [b EXCEPT !.owed = x] \in OpenBaskets /\ [b EXCEPT !.floorAt = x] \in OpenBaskets
         /\ [b EXCEPT !.armed = y] \in OpenBaskets /\ [b EXCEPT !.banked = y] \in OpenBaskets
         /\ [b EXCEPT !.legs = ls] \in OpenBaskets
<1>1. [b EXCEPT !.peak = x] \in OpenBaskets
  BY DEF OpenBaskets
<1>2. [b EXCEPT !.stop = x] \in OpenBaskets
  BY DEF OpenBaskets
<1>3. [b EXCEPT !.owed = x] \in OpenBaskets
  BY DEF OpenBaskets
<1>4. [b EXCEPT !.floorAt = x] \in OpenBaskets
  BY DEF OpenBaskets
<1>5. [b EXCEPT !.armed = y] \in OpenBaskets
  BY DEF OpenBaskets
<1>6. [b EXCEPT !.banked = y] \in OpenBaskets
  BY DEF OpenBaskets
<1>7. [b EXCEPT !.legs = ls] \in OpenBaskets
  BY DEF OpenBaskets
<1>. QED BY <1>1, <1>2, <1>3, <1>4, <1>5, <1>6, <1>7

LEMMA BasketParts ==
  ASSUME NEW b \in OpenBaskets
  PROVE  /\ b.dir \in Dirs /\ b.legs \in Seq(Share) /\ b.stop \in Int /\ b.peak \in Int
         /\ b.cycle \in Int /\ b.entryStop \in Int /\ b.armed \in BOOLEAN /\ b.owed \in Int
         /\ b.floorAt \in Int /\ b.banked \in BOOLEAN /\ b.soft \in BOOLEAN /\ b.flip \in Nat
BY DEF OpenBaskets

LEMMA NoneIsOpen == NoBasket \notin OpenBaskets
<1>1. NoBasket.dir = "none"
  BY DEF NoBasket
<1>. QED BY <1>1, BasketParts DEF Dirs

LEMMA OpenIsOpen == ReplayKinds => (IsOpen <=> basket \in OpenBaskets)
BY NoneIsOpen DEF ReplayKinds, IsOpen

\* A close of the open basket, as it is then, at a price that pays what its
\* floor promised if it is the floor that is hit.
ClosesAt(b, money, level, why) ==
    /\ b \in OpenBaskets /\ b.flip = basket.flip /\ money \in Int /\ level \in Int
    /\ why \in Reasons /\ (mode.entry # "hybrid" => money = bal)
    /\ why = "floor stop" /\ mode.exit # "floor-a-adds" => BasketPl(b, level) >= b.owed
    /\ CloseBasket(b, money, level, why)

LEMMA AppendedRow ==
  ASSUME NEW rows \in Seq(Rows), NEW r \in Rows
  PROVE  /\ Append(rows, r) \in Seq(Rows) /\ Len(rows) \in Nat
         /\ DOMAIN Append(rows, r) = 1..(Len(rows) + 1) /\ DOMAIN rows = 1..Len(rows)
         /\ Append(rows, r)[Len(rows) + 1] = r
         /\ \A k \in DOMAIN rows : Append(rows, r)[k] = rows[k]
<1>. DEFINE more == Append(rows, r)
            n == Len(rows)
<1>1. /\ more \in Seq(Rows) /\ Len(more) = n + 1 /\ more[n + 1] = r
      /\ \A k \in 1..n : more[k] = rows[k]
  BY AppendProperties
<1>. HIDE DEF more
<1>2. DOMAIN more = 1..(n + 1) /\ n \in Nat /\ DOMAIN rows = 1..n
  BY <1>1, RowParts
<1>. QED BY <1>1, <1>2 DEF more

\* A close books the basket: of the flips none is forgotten, and the balance and
\* its marks follow the curve.
LEMMA CloseBooks ==
  ASSUME ReplayInv, IsOpen, mode' = mode,
         NEW b, NEW money, NEW level, NEW why, ClosesAt(b, money, level, why)
  PROVE  /\ basket' = NoBasket /\ ~IsOpen' /\ bal' \in Int /\ trades' \in Seq(Rows)
         /\ marks' \in BalanceMarks
         /\ OneBasketPerFlip' /\ UsedFlips' = UsedFlips /\ BalanceKept' /\ FloorPays'
<1>. DEFINE pl == BasketPl(b, level)
            row == [pl |-> pl, why |-> why, owed |-> b.owed, flip |-> b.flip]
            later == money + pl
            n == Len(trades)
<1>1. pl \in Int /\ b.owed \in Int /\ b.flip \in Nat /\ why \in Reasons /\ later \in Int
  <2>1. b \in OpenBaskets /\ level \in Int /\ money \in Int /\ why \in Reasons
    BY DEF ClosesAt
  <2>2. b.owed \in Int /\ b.flip \in Nat /\ b.legs \in Seq(Share)
    BY <2>1, BasketParts
  <2>3. pl \in Int
    BY <2>1, <2>2, PlGrows
  <2>. HIDE DEF pl
  <2>. QED BY <2>1, <2>2, <2>3
<1>2. bal' = later /\ basket' = NoBasket /\ trades' = Append(trades, row)
  BY DEF ClosesAt, CloseBasket
<1>3. marks' = [marks EXCEPT !.peakBal = Larger(@, later),
                             !.maxDd = Larger(@, Larger(marks.peakBal, later) - later)]
  BY DEF ClosesAt, CloseBasket
<1>4. row.pl = pl /\ row.why = why /\ row.owed = b.owed /\ row.flip = basket.flip
  BY DEF ClosesAt
<1>. HIDE DEF pl
<1>5. row \in Rows
  BY <1>1 DEF Rows
<1>. HIDE DEF row, later
<1>6. trades \in Seq(Rows) /\ marks \in BalanceMarks
  BY DEF ReplayInv, ReplayKinds
<1>7. /\ trades' \in Seq(Rows) /\ DOMAIN trades = 1..n /\ n \in Nat
      /\ DOMAIN trades' = 1..(n + 1) /\ trades'[n + 1] = row
      /\ \A k \in DOMAIN trades : trades'[k] = trades[k]
  BY <1>2, <1>5, <1>6, AppendedRow
<1>. HIDE DEF n
<1>8. /\ \A k \in DOMAIN trades' : k \in DOMAIN trades \/ k = n + 1
      /\ \A k \in DOMAIN trades : k \in DOMAIN trades'
      /\ n + 1 \in DOMAIN trades'
  <2>1. /\ \A k \in 1..(n + 1) : k \in 1..n \/ k = n + 1
        /\ \A k \in 1..n : k \in 1..(n + 1)
        /\ n + 1 \in 1..(n + 1)
    BY <1>7
  <2>. QED BY <1>7, <2>1
<1>9. ~IsOpen'
  BY <1>2 DEF IsOpen
<1>10. OneBasketPerFlip'
  <2>1. \A k \in DOMAIN trades : trades'[k] = trades[k] /\ trades[k].flip # row.flip
    BY <1>4, <1>7 DEF ReplayInv, FlipsKnown, OneBasketPerFlip
  <2>2. \A k, m \in DOMAIN trades : trades[k].flip = trades[m].flip => k = m
    BY DEF ReplayInv, FlipsKnown, OneBasketPerFlip
  <2>. SUFFICES ASSUME NEW k \in DOMAIN trades', NEW m \in DOMAIN trades',
                       trades'[k].flip = trades'[m].flip
                PROVE  k = m
    BY <1>9 DEF OneBasketPerFlip
  <2>. QED BY <1>7, <1>8, <2>1, <2>2
<1>11. UsedFlips' = UsedFlips
  <2>1. UsedFlips' = {trades'[k].flip : k \in DOMAIN trades'}
    BY <1>9 DEF UsedFlips
  <2>2. UsedFlips = {trades[k].flip : k \in DOMAIN trades} \union {row.flip}
    BY <1>4 DEF UsedFlips
  <2>. QED BY <1>7, <1>8, <2>1, <2>2
<1>12. /\ marks' \in BalanceMarks
       /\ marks'.peakBal = Larger(marks.peakBal, later)
       /\ marks'.maxDd = Larger(marks.maxDd, Larger(marks.peakBal, later) - later)
  <2>1. marks.peakBal \in Int /\ marks.maxDd \in Int
    BY <1>6 DEF BalanceMarks
  <2>2. /\ Larger(marks.peakBal, later) \in Int
        /\ Larger(marks.maxDd, Larger(marks.peakBal, later) - later) \in Int
    BY <1>1, <2>1 DEF Larger
  <2>. QED BY <1>3, <1>6, <2>2 DEF BalanceMarks
<1>13. BalanceKept'
  <2>. SUFFICES ASSUME mode.entry # "hybrid"
                PROVE  /\ bal' = StartBalance + Curve(trades').sum
                       /\ Curve(trades').sum = Total(Results(trades'))
                       /\ marks'.peakBal = StartBalance + Curve(trades').peak
                       /\ marks'.maxDd = Curve(trades').dd
    BY DEF BalanceKept, Booked
  <2>. DEFINE c == Curve(trades)
              sum == c.sum + pl
  <2>1. Curve(trades') = Further(c, pl) /\ c \in Points
    BY <1>2, <1>4, <1>5, <1>6, CurveOfAppend
  <2>2. /\ Total(Results(trades')) = Total(Results(trades)) + pl
        /\ Total(Results(trades)) \in Int
    BY <1>2, <1>4, <1>5, <1>6, ResultsOfAppend
  <2>3. /\ bal = StartBalance + c.sum /\ c.sum = Total(Results(trades))
        /\ marks.peakBal = StartBalance + c.peak /\ marks.maxDd = c.dd
    BY DEF ReplayInv, BalanceKept, Booked
  <2>4. /\ Further(c, pl).sum = sum /\ Further(c, pl).peak = Larger(c.peak, sum)
        /\ Further(c, pl).dd = Larger(c.dd, Larger(c.peak, sum) - sum)
    BY DEF Further
  <2>5. money = bal
    BY DEF ClosesAt
  <2>. HIDE DEF c
  <2>6. c.sum \in Int /\ c.peak \in Int /\ c.dd \in Int /\ StartBalance \in Int
    BY <2>1, ReplayNumbers DEF Points
  <2>7. later = StartBalance + sum /\ sum \in Int
    BY <1>1, <2>3, <2>5, <2>6 DEF later
  <2>. HIDE DEF sum
  <2>8. /\ Larger(StartBalance + c.peak, StartBalance + sum) = StartBalance + Larger(c.peak, sum)
        /\ Larger(c.peak, sum) \in Int
    BY <2>6, <2>7 DEF Larger
  <2>9. /\ marks'.peakBal = StartBalance + Larger(c.peak, sum)
        /\ marks'.maxDd = Larger(c.dd, Larger(c.peak, sum) - sum)
    <3>1. marks'.peakBal = StartBalance + Larger(c.peak, sum)
      BY <1>12, <2>3, <2>7, <2>8
    <3>2. marks'.maxDd = Larger(marks.maxDd, marks'.peakBal - later)
      BY <1>12
    <3>3. marks'.peakBal - later = Larger(c.peak, sum) - sum
      BY <2>6, <2>7, <2>8, <3>1
    <3>4. marks'.maxDd = Larger(c.dd, Larger(c.peak, sum) - sum)
      BY <2>3, <3>2, <3>3
    <3>. QED BY <3>1, <3>4
  <2>10. Total(Results(trades')) = sum
    BY <2>2, <2>3 DEF sum
  <2>. QED BY <1>2, <2>1, <2>4, <2>7, <2>9, <2>10
<1>14. FloorPays'
  <2>. SUFFICES ASSUME mode.exit # "floor-a-adds", NEW k \in DOMAIN trades',
                       trades'[k].why = "floor stop"
                PROVE  trades'[k].pl >= trades'[k].owed
    BY DEF FloorPays
  <2>1. CASE k \in DOMAIN trades
    <3>1. trades'[k] = trades[k]
      BY <1>7, <2>1
    <3>. QED BY <2>1, <3>1 DEF ReplayInv, FloorPays
  <2>2. CASE k = n + 1
    <3>1. trades'[k] = row
      BY <1>7, <2>2
    <3>2. why = "floor stop"
      BY <1>4, <3>1
    <3>3. BasketPl(b, level) >= b.owed
      BY <3>2 DEF ClosesAt
    <3>. QED BY <1>4, <3>1, <3>3 DEF pl
  <2>. QED BY <1>8, <2>1, <2>2
<1>. QED BY <1>1, <1>2, <1>7, <1>9, <1>10, <1>11, <1>12, <1>13, <1>14

-----------------------------------------------------------------------------
(* Flips and signals                                                       *)

LEMMA FlipParts ==
  ASSUME NEW f \in FlipStates
  PROVE  /\ f.last \in Nat /\ f.fired \in Nat /\ f.revive \in Nat /\ f.extreme \in Int
         /\ f.beyond \in Int
BY DEF FlipStates

LEMMA BarParts ==
  ASSUME NEW x \in Bars
  PROVE  x.i \in Nat /\ x.close \in Int /\ x.low \in Int /\ x.high \in Int /\ x.trend \in Dirs
BY DEF Bars

\* The extreme of a flip never lies before the close that updates it.
LEMMA FlippedSound ==
  ASSUME flips \in FlipStates, NEW used \in SUBSET Nat, FlipsSound(flips, used),
         NEW x \in Bars, flips.last < x.i, x.low <= x.close, x.close <= x.high,
         NEW turned \in BOOLEAN
  PROVE  /\ Flipped(x, turned) \in FlipStates /\ FlipsSound(Flipped(x, turned), used)
         /\ Flipped(x, turned).last \in 1..x.i
         /\ Flipped(x, turned).extreme * Sign(x.trend) <= x.close * Sign(x.trend)
<1>. DEFINE fresh == flips.last = 0 \/ turned
            extreme == IF fresh THEN IF x.trend = "BUY" THEN x.low ELSE x.high
                       ELSE IF x.trend = "BUY" THEN Smaller(flips.extreme, x.low)
                       ELSE Larger(flips.extreme, x.high)
            count == IF fresh THEN 0 ELSE flips.beyond
            beyond == IF x.close > EmaLine THEN Larger(count, 0) + 1
                      ELSE IF x.close < EmaLine THEN Smaller(count, 0) - 1
                      ELSE count
            last == IF fresh THEN x.i ELSE flips.last
            f == Flipped(x, turned)
<1>1. /\ flips.last \in Nat /\ flips.fired \in Nat /\ flips.revive \in Nat
      /\ flips.extreme \in Int /\ flips.beyond \in Int
  BY FlipParts
<1>2. x.i \in Nat /\ x.close \in Int /\ x.low \in Int /\ x.high \in Int
  BY BarParts
<1>3. extreme \in Int
  BY <1>1, <1>2 DEF Smaller, Larger
<1>4. extreme * Sign(x.trend) <= x.close * Sign(x.trend)
  <2>1. CASE x.trend = "BUY"
    <3>1. extreme <= x.close
      BY <1>1, <1>2, <2>1 DEF Smaller
    <3>2. Sign(x.trend) = 1
      BY <2>1 DEF Sign
    <3>. HIDE DEF extreme
    <3>. QED BY <1>2, <1>3, <3>1, <3>2
  <2>2. CASE x.trend # "BUY"
    <3>1. extreme >= x.close
      BY <1>1, <1>2, <2>2 DEF Larger
    <3>2. Sign(x.trend) = -1
      BY <2>2 DEF Sign
    <3>. HIDE DEF extreme
    <3>. QED BY <1>2, <1>3, <3>1, <3>2
  <2>. QED BY <2>1, <2>2
<1>5. beyond \in Int
  BY <1>1, <1>2, ReplayNumbers DEF Smaller, Larger
<1>6. last \in 1..x.i /\ flips.last <= last /\ (last = flips.last \/ last > flips.last)
  BY <1>1, <1>2
<1>7. f = [flips EXCEPT !.last = last, !.extreme = extreme, !.beyond = beyond]
  BY DEF Flipped
<1>. HIDE DEF extreme, beyond, last, f, fresh
<1>8. f \in FlipStates /\ f.last = last /\ f.extreme = extreme
  <2>1. last \in Nat
    BY <1>2, <1>6
  <2>. DEFINE a == [flips EXCEPT !.last = last]
              b == [a EXCEPT !.extreme = extreme]
              c == [b EXCEPT !.beyond = beyond]
  <2>2. a \in FlipStates /\ a.last = last
    BY <2>1 DEF FlipStates
  <2>3. b \in FlipStates /\ b.last = a.last /\ b.extreme = extreme
    BY <1>3, <2>2 DEF FlipStates
  <2>4. c \in FlipStates /\ c.last = b.last /\ c.extreme = b.extreme
    BY <1>5, <2>3 DEF FlipStates
  <2>5. f = c
    BY <1>7
  <2>. HIDE DEF a, b, c
  <2>. QED BY <2>2, <2>3, <2>4, <2>5
<1>9. f.fired = flips.fired /\ f.revive = flips.revive
  BY <1>7 DEF FlipStates
<1>10. FlipsSound(f, used)
  <2>1. last = flips.last => Spent(flips) = Spent(f)
    BY <1>8, <1>9 DEF Spent
  <2>2. /\ flips.fired <= flips.last /\ flips.revive <= flips.last
        /\ flips.revive = flips.last => flips.fired = flips.last
        /\ \A n \in used : n <= flips.last /\ (n = flips.last => Spent(flips))
    BY DEF FlipsSound
  <2>3. /\ f.fired <= f.last /\ f.revive <= f.last
        /\ f.revive = f.last => f.fired = f.last
    BY <1>1, <1>2, <1>6, <1>8, <1>9, <2>2
  <2>4. ASSUME NEW n \in used PROVE n <= f.last /\ (n = f.last => Spent(f))
    <3>1. n \in Nat /\ n <= flips.last /\ (n = flips.last => Spent(flips))
      BY <2>2
    <3>2. CASE last = flips.last
      BY <1>8, <2>1, <3>1, <3>2
    <3>3. CASE last > flips.last
      BY <1>1, <1>2, <1>6, <1>8, <3>1, <3>3
    <3>. QED BY <1>6, <3>2, <3>3
  <2>. QED BY <2>3, <2>4 DEF FlipsSound
<1>. QED BY <1>4, <1>6, <1>8, <1>10 DEF f

\* A decision about the newest flip.
Decides(d, x, f, used) ==
    /\ d[1] \in {x.trend, "none"} /\ d[2] \in FlipStates
    /\ d[2].last = f.last /\ d[2].extreme = f.extreme /\ FlipsSound(d[2], used)
    /\ d[1] # "none" => Spent(d[2]) /\ f.last \notin used

\* The flip was not fired: it is not used and not waiting for a revival.
LEMMA FlipIsNew ==
  ASSUME NEW f, NEW used, FlipsSound(f, used), f.fired # f.last
  PROVE  f.last \notin used /\ f.revive # f.last
BY DEF FlipsSound, Spent

LEMMA SilentDecides ==
  ASSUME NEW x, NEW f \in FlipStates, NEW used, FlipsSound(f, used)
  PROVE  Decides(Silent(f), x, f, used)
BY DEF Decides, Silent

LEMMA FireDecides ==
  ASSUME NEW x, NEW f \in FlipStates, NEW used \in SUBSET Nat, FlipsSound(f, used),
         f.fired # f.last
  PROVE  Decides(Fire(x, f), x, f, used)
<1>. DEFINE g == [f EXCEPT !.fired = f.last]
<1>1. f.last \in Nat /\ f.fired \in Nat /\ f.revive \in Nat
  BY FlipParts
<1>2. /\ g \in FlipStates /\ g.last = f.last /\ g.fired = f.last /\ g.revive = f.revive
      /\ g.extreme = f.extreme
  BY <1>1 DEF FlipStates
<1>. HIDE DEF g
<1>3. f.last \notin used /\ f.revive # f.last
  BY FlipIsNew
<1>4. Spent(g)
  BY <1>2, <1>3 DEF Spent
<1>5. FlipsSound(g, used)
  BY <1>1, <1>2, <1>3, <1>4 DEF FlipsSound
<1>6. Fire(x, f)[1] = x.trend /\ Fire(x, f)[2] = g
  BY DEF Fire, g
<1>. QED BY <1>2, <1>3, <1>4, <1>5, <1>6 DEF Decides

\* The confirm that fails: the flip is spent, or waits for its revival.
LEMMA FailedDecides ==
  ASSUME NEW x, NEW f \in FlipStates, NEW used \in SUBSET Nat, FlipsSound(f, used),
         f.fired # f.last, NEW again \in BOOLEAN
  PROVE  Decides(Silent([f EXCEPT !.fired = f.last, !.revive = IF again THEN f.last ELSE @]),
                 x, f, used)
<1>. DEFINE g == [f EXCEPT !.fired = f.last, !.revive = IF again THEN f.last ELSE @]
<1>1. f.last \in Nat /\ f.fired \in Nat /\ f.revive \in Nat
  BY FlipParts
<1>2. /\ g \in FlipStates /\ g.last = f.last /\ g.fired = f.last
      /\ g.revive \in {f.revive, f.last} /\ g.extreme = f.extreme
  BY <1>1 DEF FlipStates
<1>. HIDE DEF g
<1>3. f.last \notin used
  BY FlipIsNew
<1>4. FlipsSound(g, used)
  BY <1>1, <1>2, <1>3 DEF FlipsSound
<1>5. Silent(g)[1] = "none" /\ Silent(g)[2] = g
  BY DEF Silent
<1>6. Decides(Silent(g), x, f, used)
  BY <1>2, <1>4, <1>5 DEF Decides
<1>. QED BY <1>6 DEF g

LEMMA DecideDecides ==
  ASSUME NEW x, NEW f \in FlipStates, NEW used \in SUBSET Nat, FlipsSound(f, used),
         mode.revive \in BOOLEAN
  PROVE  Decides(Decide(x, f), x, f, used)
<1>1. CASE f.fired = f.last
  BY <1>1, SilentDecides DEF Decide
<1>2. CASE f.fired # f.last
  <2>. DEFINE failed == Silent([f EXCEPT !.fired = f.last,
                                         !.revive = IF mode.revive THEN f.last ELSE @])
  <2>1. Decide(x, f) \in {Silent(f), Fire(x, f), failed}
    BY <1>2 DEF Decide
  <2>2. Decides(Silent(f), x, f, used)
    BY SilentDecides
  <2>3. Decides(Fire(x, f), x, f, used)
    BY <1>2, FireDecides
  <2>4. Decides(failed, x, f, used)
    BY <1>2, FailedDecides
  <2>. HIDE DEF failed
  <2>. QED BY <2>1, <2>2, <2>3, <2>4
<1>. QED BY <1>1, <1>2

\* A revival: what waited for it was never used, and it waits no more.
LEMMA RevivedDecides ==
  ASSUME NEW x, NEW f \in FlipStates, f.last > 0, NEW used \in SUBSET Nat, NEW d,
         Decides(d, x, f, used)
  PROVE  Decides(Revived(x, d), x, f, used)
<1>. DEFINE g == d[2]
            h == [g EXCEPT !.revive = 0]
<1>1. CASE Revived(x, d) = d
  BY <1>1
<1>2. CASE Revived(x, d) # d
  <2>1. Revived(x, d) = <<x.trend, h>> /\ g.revive = g.last
    BY <1>2 DEF Revived
  <2>2. g \in FlipStates /\ g.last = f.last /\ g.extreme = f.extreme /\ FlipsSound(g, used)
    BY DEF Decides
  <2>. HIDE DEF g
  <2>3. g.last \in Nat /\ g.fired \in Nat /\ g.revive \in Nat
    BY <2>2, FlipParts
  <2>4. /\ h \in FlipStates /\ h.last = g.last /\ h.fired = g.fired /\ h.revive = 0
        /\ h.extreme = g.extreme
    BY <2>2 DEF FlipStates
  <2>5. g.fired = g.last /\ g.last \notin used
    BY <2>1, <2>2 DEF FlipsSound, Spent
  <2>. HIDE DEF h
  <2>6. Spent(h)
    BY <2>2, <2>3, <2>4, <2>5 DEF Spent
  <2>7. FlipsSound(h, used)
    BY <2>2, <2>3, <2>4, <2>5, <2>6 DEF FlipsSound
  <2>8. Revived(x, d)[1] = x.trend /\ Revived(x, d)[2] = h
    BY <2>1
  <2>. QED BY <2>2, <2>4, <2>5, <2>6, <2>7, <2>8 DEF Decides
<1>. QED BY <1>1, <1>2

\* The next bar, with an event or without.
LEMMA NextBarIsBar ==
  ASSUME ReplayInv, NEW move \in Moves, NEW e, NextBarWith(move, e)
  PROVE  /\ bar' \in Bars /\ bar'.i = bar.i + 1 /\ bar'.i <= MaxBars
         /\ bar'.low <= bar'.close /\ bar'.close <= bar'.high
         /\ held' \in 0..bar'.i /\ surprises' \in Int /\ phase = "observe"
<1>. DEFINE level == bar.close + move
            low == Smaller(bar.close, level) - (IF e = "wick" THEN Wick ELSE 0)
            high == Larger(bar.close, level) + (IF e = "wick" THEN Wick ELSE 0)
            trend == IF e # "turn" THEN bar.trend
                     ELSE IF bar.trend = "BUY" THEN "SELL" ELSE "BUY"
<1>1. bar \in Bars /\ held \in 0..bar.i /\ surprises \in Int
  BY DEF ReplayInv, ReplayKinds
<1>2. bar.i \in Nat /\ bar.close \in Int /\ bar.trend \in Dirs
  BY <1>1, BarParts
<1>3. move \in Int /\ Wick \in Nat /\ MaxBars \in Nat
  BY ReplayNumbers
<1>4. level \in Int /\ low \in Int /\ high \in Int /\ low <= level /\ level <= high
  BY <1>2, <1>3 DEF Smaller, Larger
<1>5. trend \in Dirs
  BY <1>2 DEF Dirs
<1>6. /\ bar' = [i |-> bar.i + 1, close |-> level, low |-> low, high |-> high, trend |-> trend]
      /\ bar.i < MaxBars /\ phase = "observe"
      /\ surprises' = surprises - (IF e = "none" THEN 0 ELSE 1)
      /\ held' = (IF e = "midnight" THEN 0 ELSE held) + (IF IsOpen THEN 1 ELSE 0)
  BY DEF NextBarWith, Bar, Happens
<1>. HIDE DEF level, low, high, trend
<1>7. bar' \in Bars
  BY <1>2, <1>4, <1>5, <1>6 DEF Bars
<1>8. bar'.i = bar.i + 1 /\ bar'.close = level /\ bar'.low = low /\ bar'.high = high
  BY <1>6
<1>9. held' \in 0..bar'.i /\ surprises' \in Int /\ bar.i + 1 <= MaxBars
  BY <1>1, <1>2, <1>3, <1>6, <1>8
<1>. QED BY <1>4, <1>6, <1>7, <1>8, <1>9

LEMMA UsedAreNaturals == ASSUME ReplayKinds PROVE UsedFlips \in SUBSET Nat
<1>1. \A k \in DOMAIN trades : trades[k].flip \in Nat
  <2>1. \A k \in 1..Len(trades) : trades[k] \in Rows
    BY RowParts DEF ReplayKinds
  <2>2. \A r \in Rows : r.flip \in Nat
    BY DEF Rows
  <2>3. DOMAIN trades = 1..Len(trades)
    BY RowParts DEF ReplayKinds
  <2>. QED BY <2>1, <2>2, <2>3
<1>2. IsOpen => basket.flip \in Nat
  BY OpenIsOpen, BasketParts
<1>. QED BY <1>1, <1>2 DEF UsedFlips

LEMMA ModeParts ==
  ASSUME ReplayKinds
  PROVE  /\ mode.entry \in EntryFlags /\ mode.exit \in ExitFlags
         /\ mode.confirm \in ConfirmFlags /\ mode.revive \in BOOLEAN
BY ReplayAssumption DEF ReplayKinds

\* What happens to the flip on a bar, before and with the decision.
LEMMA FlippedOnBar ==
  ASSUME ReplayInv, NEW move \in Moves, NEW e, NextBarWith(move, e), NEW turned \in BOOLEAN
  PROVE  LET f == Flipped(bar', turned)
         IN /\ f \in FlipStates /\ FlipsSound(f, UsedFlips) /\ f.last \in 1..bar'.i
            /\ f.extreme * Sign(bar'.trend) <= bar'.close * Sign(bar'.trend)
<1>1. /\ bar' \in Bars /\ bar'.i = bar.i + 1
      /\ bar'.low <= bar'.close /\ bar'.close <= bar'.high
  BY NextBarIsBar
<1>2. flips \in FlipStates /\ bar \in Bars /\ flips.last <= bar.i /\ FlipsSound(flips, UsedFlips)
  BY DEF ReplayInv, ReplayKinds, FlipsKnown
<1>3. UsedFlips \in SUBSET Nat
  BY UsedAreNaturals DEF ReplayInv
<1>4. flips.last < bar'.i
  <2>1. flips.last \in Nat /\ bar.i \in Nat
    BY <1>2, FlipParts, BarParts
  <2>. QED BY <1>1, <1>2, <2>1
<1>. QED BY <1>1, <1>2, <1>3, <1>4, FlippedSound

\* A basket that stays as it is remains as sound as it was.
LEMMA UntouchedKeeps ==
  ASSUME ReplayInv, UNCHANGED <<mode, bal, basket, trades, marks>>
  PROVE  /\ UsedFlips' = UsedFlips /\ OneBasketPerFlip' /\ BalanceKept' /\ FloorPays'
         /\ (IsOpen => Laddered(basket))'
<1>1. UsedFlips' = UsedFlips /\ OneBasketPerFlip' /\ BalanceKept' /\ FloorPays'
  BY DEF ReplayInv, FlipsKnown, UsedFlips, IsOpen, OneBasketPerFlip, BalanceKept, Booked, FloorPays
<1>2. (IsOpen => Laddered(basket))'
  BY DEF ReplayInv, IsOpen, Laddered, MostLegs
<1>. QED BY <1>1, <1>2

LEMMA ObserveKeeps ==
  ASSUME ReplayInv, NEW move \in Moves, NEW e, Observe(move, e)
  PROVE  ReplayInv'
<1>. DEFINE x == Bar(move, e = "wick", e = "turn")
            f == Flipped(bar', e = "turn")
            d == Revived(bar', Decide(bar', f))
<1>1. /\ NextBarWith(move, e) /\ bar' = x /\ phase' = "manage"
      /\ UNCHANGED <<mode, bal, basket, trades, marks>>
  BY DEF Observe, NextBarWith
<1>2. flips' = d[2] /\ signal' = IF e = "refuse" THEN "none" ELSE d[1]
  BY <1>1 DEF Observe
<1>3. /\ bar' \in Bars /\ bar'.i = bar.i + 1 /\ bar'.i <= MaxBars
      /\ held' \in 0..bar'.i /\ surprises' \in Int
  BY <1>1, NextBarIsBar
<1>4. /\ f \in FlipStates /\ FlipsSound(f, UsedFlips) /\ f.last \in 1..bar'.i
      /\ f.extreme * Sign(bar'.trend) <= bar'.close * Sign(bar'.trend)
  BY <1>1, FlippedOnBar
<1>5. UsedFlips \in SUBSET Nat /\ mode.revive \in BOOLEAN
  BY UsedAreNaturals, ModeParts DEF ReplayInv
<1>. HIDE DEF f, x
<1>6. Decides(Decide(bar', f), bar', f, UsedFlips)
  BY <1>4, <1>5, DecideDecides
<1>7. f.last > 0
  BY <1>4
<1>8. Decides(d, bar', f, UsedFlips)
  BY <1>4, <1>5, <1>6, <1>7, RevivedDecides
<1>. HIDE DEF d
<1>9. /\ UsedFlips' = UsedFlips /\ OneBasketPerFlip' /\ BalanceKept' /\ FloorPays'
      /\ (IsOpen => Laddered(basket))'
  BY <1>1, UntouchedKeeps
<1>10. ReplayKinds'
  <2>1. signal' \in Dirs \union {"none"}
    BY <1>2, <1>3, <1>8, BarParts DEF Decides
  <2>2. flips' \in FlipStates
    BY <1>2, <1>8 DEF Decides
  <2>. QED BY <1>1, <1>3, <2>1, <2>2 DEF ReplayInv, ReplayKinds
<1>11. FlipsKnown'
  <2>1. FlipsSound(flips', UsedFlips')
    BY <1>2, <1>8, <1>9 DEF Decides
  <2>2. flips'.last <= bar'.i
    BY <1>2, <1>3, <1>4, <1>8 DEF Decides
  <2>. QED BY <1>9, <2>1, <2>2 DEF FlipsKnown
<1>12. SignalNew'
  <2>. SUFFICES ASSUME signal' # "none"
                PROVE  /\ Spent(flips') /\ flips'.last \notin UsedFlips'
                       /\ flips'.extreme * Sign(signal') <= bar'.close * Sign(signal')
    BY DEF SignalNew
  <2>1. signal' = d[1] /\ d[1] # "none" /\ signal' = bar'.trend
    BY <1>2, <1>8 DEF Decides
  <2>. QED BY <1>2, <1>4, <1>8, <1>9, <2>1 DEF Decides
<1>. QED BY <1>9, <1>10, <1>11, <1>12 DEF ReplayInv

\* A close by a rule, at the price of the bar.
LEMMA BreakKeeps ==
  ASSUME ReplayInv, NEW move \in Moves, ObserveBreak(move)
  PROVE  ReplayInv'
<1>. DEFINE f == Flipped(bar', FALSE)
<1>1. NextBarWith(move, "break") /\ signal' = "none" /\ UNCHANGED <<mode, phase>>
  BY DEF ObserveBreak
<1>2. flips' = f /\ bar'.close = bar.close + move
  BY <1>1 DEF ObserveBreak, NextBarWith, Bar
<1>3. /\ bar' \in Bars /\ bar'.i = bar.i + 1 /\ bar'.i <= MaxBars
      /\ held' \in 0..bar'.i /\ surprises' \in Int /\ phase = "observe"
  BY <1>1, NextBarIsBar
<1>4. f \in FlipStates /\ FlipsSound(f, UsedFlips) /\ f.last \in 1..bar'.i
  BY <1>1, FlippedOnBar
<1>. HIDE DEF f
<1>5. /\ UsedFlips' = UsedFlips /\ OneBasketPerFlip' /\ BalanceKept' /\ FloorPays'
      /\ (IsOpen => Laddered(basket))'
      /\ bal' \in Int /\ basket' \in OpenBaskets \union {NoBasket} /\ trades' \in Seq(Rows)
      /\ marks' \in BalanceMarks
  <2>1. CASE ~IsOpen
    <3>1. UNCHANGED <<mode, bal, basket, trades, marks>>
      BY <2>1 DEF ObserveBreak
    <3>2. /\ bal' \in Int /\ basket' \in OpenBaskets \union {NoBasket}
          /\ trades' \in Seq(Rows) /\ marks' \in BalanceMarks
      BY <3>1 DEF ReplayInv, ReplayKinds
    <3>. QED BY <3>1, <3>2, UntouchedKeeps
  <2>2. CASE IsOpen
    <3>1. CloseBasket(basket, bal, bar'.close, "flatten")
      BY <1>2, <2>2 DEF ObserveBreak
    <3>2. ClosesAt(basket, bal, bar'.close, "flatten")
      <4>1. basket \in OpenBaskets /\ bal \in Int
        BY <2>2, OpenIsOpen DEF ReplayInv, ReplayKinds
      <4>. QED BY <1>3, <3>1, <4>1, BarParts DEF ClosesAt, Reasons
    <3>. QED BY <1>1, <2>2, <3>2, CloseBooks
  <2>. QED BY <2>1, <2>2
<1>6. ReplayKinds'
  BY <1>1, <1>2, <1>3, <1>4, <1>5 DEF ReplayInv, ReplayKinds
<1>7. FlipsKnown'
  BY <1>2, <1>4, <1>5 DEF FlipsKnown
<1>8. SignalNew'
  BY <1>1 DEF SignalNew
<1>. QED BY <1>5, <1>6, <1>7, <1>8 DEF ReplayInv

\* After a close: the flips, the signal and the bar are as they were.
LEMMA ClosedKeeps ==
  ASSUME ReplayInv, IsOpen, NEW b, NEW money, NEW level, NEW why, ClosesAt(b, money, level, why),
         UNCHANGED <<mode, bar, flips, signal, held, surprises>>,
         phase' \in {"observe", "manage", "enter", "end"},
         phase' \in {"manage", "enter"} => phase \in {"manage", "enter"}
  PROVE  ReplayInv'
<1>1. /\ basket' = NoBasket /\ ~IsOpen' /\ bal' \in Int /\ trades' \in Seq(Rows)
      /\ marks' \in BalanceMarks
      /\ OneBasketPerFlip' /\ UsedFlips' = UsedFlips /\ BalanceKept' /\ FloorPays'
  BY CloseBooks
<1>2. ReplayKinds'
  BY <1>1 DEF ReplayInv, ReplayKinds
<1>3. FlipsKnown'
  BY <1>1 DEF ReplayInv, FlipsKnown
<1>4. SignalNew'
  BY <1>1 DEF ReplayInv, SignalNew
<1>. QED BY <1>1, <1>2, <1>3, <1>4 DEF ReplayInv

LEMMA ManageNothingKeeps == ASSUME ReplayInv, ManageNothing PROVE ReplayInv'
<1>1. /\ UsedFlips' = UsedFlips /\ OneBasketPerFlip' /\ BalanceKept' /\ FloorPays'
      /\ (IsOpen => Laddered(basket))'
  BY UntouchedKeeps DEF ManageNothing
<1>2. ReplayKinds'
  BY DEF ManageNothing, ReplayInv, ReplayKinds
<1>3. FlipsKnown' /\ SignalNew'
  BY <1>1 DEF ManageNothing, ReplayInv, FlipsKnown, SignalNew
<1>. QED BY <1>1, <1>2, <1>3 DEF ReplayInv

\* A stop that is not beyond the floor is no floor stop; one that is pays at
\* least what the floor pays.
LEMMA ManageStopKeeps == ASSUME ReplayInv, ManageStop PROVE ReplayInv'
<1>. DEFINE floor == basket.armed /\ basket.stop * Sign(basket.dir)
                                       >= basket.floorAt * Sign(basket.dir)
            why == IF floor THEN "floor stop" ELSE "stop"
<1>1. /\ IsOpen /\ CloseBasket(basket, bal, basket.stop, why) /\ phase = "manage"
      /\ phase' = "enter" /\ UNCHANGED <<mode, bar, flips, signal, held, surprises>>
  BY DEF ManageStop
<1>2. basket \in OpenBaskets /\ bal \in Int
  BY <1>1, OpenIsOpen DEF ReplayInv, ReplayKinds
<1>3. ASSUME why = "floor stop", mode.exit # "floor-a-adds"
      PROVE  BasketPl(basket, basket.stop) >= basket.owed
  <2>1. floor
    BY <1>3
  <2>2. /\ basket.legs \in Seq(Share) /\ basket.stop \in Int /\ basket.floorAt \in Int
        /\ basket.owed \in Int
    BY <1>2, BasketParts
  <2>3. BasketPl(basket, basket.floorAt) >= basket.owed
    BY <1>1, <1>3, <2>1 DEF ReplayInv, Laddered
  <2>4. basket.floorAt * Sign(basket.dir) <= basket.stop * Sign(basket.dir)
    BY <2>1, <2>2, SignIsUnit, Signed
  <2>5. /\ BasketPl(basket, basket.floorAt) \in Int /\ BasketPl(basket, basket.stop) \in Int
        /\ BasketPl(basket, basket.floorAt) <= BasketPl(basket, basket.stop)
    BY <2>2, <2>4, PlGrows
  <2>. QED BY <2>2, <2>3, <2>5
<1>4. why \in Reasons
  BY DEF Reasons
<1>. HIDE DEF why
<1>5. ClosesAt(basket, bal, basket.stop, why)
  BY <1>1, <1>2, <1>3, <1>4, BasketParts DEF ClosesAt
<1>. QED BY <1>1, <1>5, ClosedKeeps

LEMMA EndOfDataKeeps == ASSUME ReplayInv, EndOfData PROVE ReplayInv'
<1>1. /\ phase' = "end" /\ UNCHANGED <<mode, bar, flips, signal, held, surprises>>
  BY DEF EndOfData
<1>2. CASE IsOpen
  <2>1. CloseBasket(basket, bal, bar.close, "eod-open")
    BY <1>2 DEF EndOfData
  <2>2. basket \in OpenBaskets /\ bal \in Int /\ bar.close \in Int
    BY <1>2, OpenIsOpen, BarParts DEF ReplayInv, ReplayKinds
  <2>3. ClosesAt(basket, bal, bar.close, "eod-open")
    BY <2>1, <2>2 DEF ClosesAt, Reasons
  <2>. QED BY <1>1, <1>2, <2>3, ClosedKeeps
<1>3. CASE ~IsOpen
  <2>1. UNCHANGED <<bal, basket, trades, marks>>
    BY <1>3 DEF EndOfData
  <2>2. /\ UsedFlips' = UsedFlips /\ OneBasketPerFlip' /\ BalanceKept' /\ FloorPays'
        /\ (IsOpen => Laddered(basket))'
    BY <1>1, <2>1, UntouchedKeeps
  <2>3. ReplayKinds'
    BY <1>1, <2>1 DEF ReplayInv, ReplayKinds
  <2>4. FlipsKnown' /\ SignalNew'
    BY <1>1, <2>2 DEF ReplayInv, FlipsKnown, SignalNew
  <2>. QED BY <2>2, <2>3, <2>4 DEF ReplayInv
<1>. QED BY <1>2, <1>3

\* The mark of the equity leaves the marks of the balance alone.
LEMMA MarkKeeps ==
  ASSUME ReplayInv, NEW b, b \in OpenBaskets \union {NoBasket}, Mark(b, bal)
  PROVE  /\ marks' \in BalanceMarks
         /\ marks'.peakBal = marks.peakBal /\ marks'.maxDd = marks.maxDd
<1>. DEFINE eq == bal + (IF b = NoBasket THEN 0 ELSE BasketPl(b, bar.close))
<1>1. marks \in BalanceMarks /\ bal \in Int /\ bar \in Bars
  BY DEF ReplayInv, ReplayKinds
<1>2. eq \in Int
  <2>1. CASE b = NoBasket
    BY <1>1, <2>1
  <2>2. CASE b # NoBasket
    <3>1. b.legs \in Seq(Share) /\ bar.close \in Int
      BY <1>1, <2>2, BasketParts, BarParts
    <3>2. BasketPl(b, bar.close) \in Int
      BY <3>1, PlGrows
    <3>. QED BY <1>1, <2>2, <3>2
  <2>. QED BY <2>1, <2>2
<1>3. marks' = [marks EXCEPT !.peakEq = Larger(@, eq),
                             !.maxValley = Larger(@, Larger(marks.peakEq, eq) - eq)]
  BY DEF Mark
<1>. HIDE DEF eq
<1>4. marks.peakEq \in Int /\ marks.maxValley \in Int
  BY <1>1 DEF BalanceMarks
<1>5. /\ Larger(marks.peakEq, eq) \in Int
      /\ Larger(marks.maxValley, Larger(marks.peakEq, eq) - eq) \in Int
  BY <1>2, <1>4 DEF Larger
<1>. QED BY <1>1, <1>3, <1>5 DEF BalanceMarks

LEMMA StayOutKeeps == ASSUME ReplayInv, StayOut PROVE ReplayInv'
<1>1. /\ phase' = "observe" /\ Mark(basket, bal)
      /\ UNCHANGED <<mode, bar, flips, signal, bal, basket, trades, held, surprises>>
  BY DEF StayOut
<1>2. /\ marks' \in BalanceMarks
      /\ marks'.peakBal = marks.peakBal /\ marks'.maxDd = marks.maxDd
  BY <1>1, MarkKeeps DEF ReplayInv, ReplayKinds
<1>3. ReplayKinds'
  BY <1>1, <1>2 DEF ReplayInv, ReplayKinds
<1>4. UsedFlips' = UsedFlips /\ OneBasketPerFlip' /\ FloorPays'
  BY <1>1 DEF ReplayInv, FlipsKnown, UsedFlips, IsOpen, OneBasketPerFlip, FloorPays
<1>5. FlipsKnown' /\ SignalNew'
  BY <1>1, <1>4 DEF ReplayInv, FlipsKnown, SignalNew
<1>6. BalanceKept'
  BY <1>1, <1>2 DEF ReplayInv, BalanceKept, Booked
<1>7. (IsOpen => Laddered(basket))'
  BY <1>1 DEF ReplayInv, IsOpen, Laddered, MostLegs
<1>. QED BY <1>3, <1>4, <1>5, <1>6, <1>7 DEF ReplayInv

-----------------------------------------------------------------------------
(* A new basket                                                            *)

\* The stop of an entry is behind the price.
LEMMA EntryStopBehind ==
  ASSUME ReplayInv, NEW dir \in Dirs,
         flips.extreme * Sign(dir) <= bar.close * Sign(dir)
  PROVE  /\ EntryStop(dir)[1] \in Int /\ EntryStop(dir)[2] \in Int
         /\ EntryStop(dir)[1] * Sign(dir) <= bar.close * Sign(dir)
<1>. DEFINE s == Sign(dir)
            level == bar.close
            far == flips.extreme - s * StopBuffer
            dist == (level - far) * s
            gap == IF dist < 0 THEN -dist ELSE dist
<1>1. level \in Int /\ flips.extreme \in Int /\ s \in {1, -1}
  BY FlipParts, BarParts, SignIsUnit DEF ReplayInv, ReplayKinds
<1>2. StopBuffer \in Nat /\ MinStop \in Nat
  BY ReplayNumbers
<1>3. EntryStop(dir) = IF gap < MinStop THEN <<level - s * MinStop, MinStop>> ELSE <<far, gap>>
  BY DEF EntryStop
<1>4. flips.extreme * s <= level * s
  OBVIOUS
<1>. HIDE DEF s, level
<1>5. far \in Int /\ far * s <= level * s
  <2>1. CASE s = 1
    BY <1>1, <1>2, <1>4, <2>1
  <2>2. CASE s = -1
    BY <1>1, <1>2, <1>4, <2>2
  <2>. QED BY <1>1, <2>1, <2>2
<1>6. level - s * MinStop \in Int /\ (level - s * MinStop) * s <= level * s
  <2>1. CASE s = 1
    BY <1>1, <1>2, <2>1
  <2>2. CASE s = -1
    BY <1>1, <1>2, <2>2
  <2>. QED BY <1>1, <2>1, <2>2
<1>. HIDE DEF far
<1>7. dist \in Int
  BY <1>1, <1>5
<1>. HIDE DEF dist
<1>8. gap \in Int
  BY <1>7
<1>. HIDE DEF gap
<1>9. \/ EntryStop(dir)[1] = level - s * MinStop /\ EntryStop(dir)[2] = MinStop
      \/ EntryStop(dir)[1] = far /\ EntryStop(dir)[2] = gap
  BY <1>3
<1>. QED BY <1>2, <1>5, <1>6, <1>8, <1>9 DEF s, level

LEMMA EntrySize ==
  ASSUME ReplayInv, NEW dist \in Nat \ {0}, NEW soft \in BOOLEAN
  PROVE  EntryOz(dist, soft) \in Nat \ {0}
<1>. DEFINE budget == bal * RiskPct
            unit == 100 * dist * (IF soft THEN 2 ELSE 1)
            want == budget \div unit
<1>1. bal \in Int
  BY DEF ReplayInv, ReplayKinds
<1>2. /\ MinOz \in Nat \ {0} /\ FixedOz \in Nat \ {0} /\ RiskPct \in Nat
      /\ SmallBalance \in Nat /\ MidBalance \in Nat
  BY ReplayNumbers
<1>3. budget \in Int
  BY <1>1, <1>2
<1>4. unit \in Nat \ {0}
  OBVIOUS
<1>. HIDE DEF budget, unit
<1>5. want \in Int
  BY <1>3, <1>4
<1>6. EntryOz(dist, soft) = IF mode.entry = "fixed" THEN Larger(MinOz, FixedOz)
                            ELSE IF mode.entry = "hybrid"
                            THEN Larger(HybridOz[1], Smaller(want, HybridOz[2]))
                            ELSE Larger(MinOz, want)
  BY DEF EntryOz, budget, unit
<1>. HIDE DEF want
<1>7. HybridOz[1] \in Nat \ {0} /\ HybridOz[2] \in Int
  <2>1. HybridOz \in {<<MinOz, MinOz>>, <<MinOz, 2 * MinOz>>, <<2 * MinOz, 5 * MinOz>>}
    BY DEF HybridOz
  <2>2. 2 * MinOz \in Nat \ {0} /\ 5 * MinOz \in Int /\ MinOz \in Int /\ 2 * MinOz \in Int
    BY <1>2
  <2>3. CASE HybridOz = <<MinOz, MinOz>>
    BY <1>2, <2>2, <2>3
  <2>4. CASE HybridOz = <<MinOz, 2 * MinOz>>
    BY <1>2, <2>2, <2>4
  <2>5. CASE HybridOz = <<2 * MinOz, 5 * MinOz>>
    BY <1>2, <2>2, <2>5
  <2>. QED BY <2>1, <2>3, <2>4, <2>5
<1>8. ASSUME NEW x \in Nat \ {0}, NEW y \in Int PROVE Larger(x, y) \in Nat \ {0}
  BY DEF Larger
<1>9. Smaller(want, HybridOz[2]) \in Int
  BY <1>5, <1>7 DEF Smaller
<1>10. Larger(MinOz, FixedOz) \in Nat \ {0} /\ Larger(MinOz, want) \in Nat \ {0}
  BY <1>2, <1>5, <1>8
<1>11. Larger(HybridOz[1], Smaller(want, HybridOz[2])) \in Nat \ {0}
  BY <1>7, <1>8, <1>9
<1>. QED BY <1>6, <1>10, <1>11

LEMMA OneShare ==
  ASSUME NEW l \in Share
  PROVE  <<l>> \in Seq(Share) /\ Len(<<l>>) = 1 /\ <<l>>[1] = l
OBVIOUS

LEMMA EnterKeeps ==
  ASSUME ReplayInv, NEW gate \in {"open", "soft", "blocked"}, Enter(gate)
  PROVE  ReplayInv'
<1>. DEFINE sized == EntryStop(signal)
            soft == gate = "soft"
            leg == [px |-> bar.close, oz |-> EntryOz(sized[2], soft)]
            fresh == [NoBasket EXCEPT
                        !.dir = signal, !.stop = sized[1], !.entryStop = sized[1],
                        !.cycle = bal, !.soft = soft, !.flip = flips.last,
                        !.legs = <<leg>>]
            opens == gate # "blocked" /\ sized[2] > 0
<1>1. /\ phase = "enter" /\ phase' = "observe" /\ signal # "none" /\ ~IsOpen
      /\ basket' = (IF opens THEN fresh ELSE NoBasket) /\ Mark(basket', bal)
      /\ UNCHANGED <<mode, bar, flips, signal, bal, trades, held, surprises>>
  BY DEF Enter, Allowed
<1>2. /\ signal \in Dirs /\ bal \in Int /\ flips.last \in Nat /\ bar.close \in Int
  BY <1>1, FlipParts, BarParts DEF ReplayInv, ReplayKinds
<1>3. /\ Spent(flips) /\ flips.last \notin UsedFlips
      /\ flips.extreme * Sign(signal) <= bar.close * Sign(signal)
  BY <1>1 DEF ReplayInv, SignalNew
<1>4. /\ sized[1] \in Int /\ sized[2] \in Int
      /\ sized[1] * Sign(signal) <= bar.close * Sign(signal)
  BY <1>2, <1>3, EntryStopBehind
<1>. HIDE DEF sized
<1>5. ASSUME opens
      PROVE  /\ fresh \in OpenBaskets /\ fresh.flip = flips.last /\ Laddered(fresh)
  <2>1. leg \in Share /\ leg.px = bar.close
    <3>1. sized[2] \in Nat \ {0} /\ soft \in BOOLEAN
      BY <1>4, <1>5
    <3>2. EntryOz(sized[2], soft) \in Nat \ {0}
      BY <3>1, EntrySize
    <3>. QED BY <1>2, <3>2 DEF Share
  <2>. HIDE DEF leg
  <2>2. <<leg>> \in Seq(Share) /\ Len(<<leg>>) = 1 /\ <<leg>>[1] = leg
    BY <2>1, OneShare
  <2>3. soft \in BOOLEAN
    OBVIOUS
  <2>. DEFINE shares == <<leg>>
  <2>. HIDE DEF shares, soft
  <2>. DEFINE b1 == [NoBasket EXCEPT !.dir = signal]
              b2 == [b1 EXCEPT !.stop = sized[1]]
              b3 == [b2 EXCEPT !.entryStop = sized[1]]
              b4 == [b3 EXCEPT !.cycle = bal]
              b5 == [b4 EXCEPT !.soft = soft]
              b6 == [b5 EXCEPT !.flip = flips.last]
              b7 == [b6 EXCEPT !.legs = shares]
  <2>4. b1 \in OpenBaskets /\ b1.dir = signal /\ ~b1.armed
    <3>1. <<>> \in Seq(Share) /\ 0 \in Int /\ 0 \in Nat
      BY EmptySeq
    <3>. QED BY <1>2, <3>1 DEF NoBasket, OpenBaskets
  <2>5. /\ fresh \in OpenBaskets /\ fresh.dir = signal /\ fresh.legs = shares
        /\ fresh.stop = sized[1] /\ ~fresh.armed /\ fresh.flip = flips.last
    <3>. HIDE DEF b1
    <3>1. shares \in Seq(Share)
      BY <2>2 DEF shares
    <3>2. b2 \in OpenBaskets /\ b2.dir = signal /\ ~b2.armed /\ b2.stop = sized[1]
      BY <1>4, <2>4 DEF OpenBaskets
    <3>. HIDE DEF b2
    <3>3. b3 \in OpenBaskets /\ b3.dir = signal /\ ~b3.armed /\ b3.stop = sized[1]
      BY <1>4, <3>2 DEF OpenBaskets
    <3>. HIDE DEF b3
    <3>4. b4 \in OpenBaskets /\ b4.dir = signal /\ ~b4.armed /\ b4.stop = sized[1]
      BY <1>2, <3>3 DEF OpenBaskets
    <3>. HIDE DEF b4
    <3>5. b5 \in OpenBaskets /\ b5.dir = signal /\ ~b5.armed /\ b5.stop = sized[1]
      BY <2>3, <3>4 DEF OpenBaskets
    <3>. HIDE DEF b5
    <3>6. /\ b6 \in OpenBaskets /\ b6.dir = signal /\ ~b6.armed /\ b6.stop = sized[1]
          /\ b6.flip = flips.last
      BY <1>2, <3>5 DEF OpenBaskets
    <3>. HIDE DEF b6
    <3>7. /\ b7 \in OpenBaskets /\ b7.dir = signal /\ ~b7.armed /\ b7.stop = sized[1]
          /\ b7.flip = flips.last /\ b7.legs = shares
      BY <3>1, <3>6 DEF OpenBaskets
    <3>8. fresh = b7
      BY DEF b1, b2, b3, b4, b5, b6, shares
    <3>. QED BY <3>7, <3>8
  <2>. HIDE DEF fresh
  <2>6. fresh.legs = shares
    BY <2>5
  <2>7. Len(fresh.legs) = 1 /\ fresh.legs[1].px = bar.close
    BY <2>1, <2>2, <2>6 DEF shares
  <2>8. 1 \in 1..MostLegs
    BY ReplayNumbers DEF MostLegs, Larger
  <2>9. Climbing(fresh)
    BY <2>7 DEF Climbing
  <2>10. fresh.stop * Sign(fresh.dir) <= Rung(fresh) * Sign(fresh.dir)
    BY <1>4, <2>5, <2>7 DEF Rung
  <2>11. Laddered(fresh)
    BY <2>5, <2>7, <2>8, <2>9, <2>10 DEF Laddered
  <2>. QED BY <2>5, <2>11
<1>. HIDE DEF fresh
<1>6. basket' \in OpenBaskets \union {NoBasket}
  BY <1>1, <1>5
<1>7. /\ marks' \in BalanceMarks
      /\ marks'.peakBal = marks.peakBal /\ marks'.maxDd = marks.maxDd
  BY <1>1, <1>6, MarkKeeps
<1>8. ReplayKinds'
  BY <1>1, <1>6, <1>7 DEF ReplayInv, ReplayKinds
<1>9. UsedFlips' \subseteq UsedFlips \union {flips.last}
  BY <1>1, <1>5 DEF UsedFlips, IsOpen
<1>10. FlipsKnown'
  <2>1. FlipsSound(flips, UsedFlips')
    BY <1>2, <1>3, <1>9 DEF ReplayInv, FlipsKnown, FlipsSound
  <2>2. IsOpen' => basket'.flip = flips.last
    BY <1>1, <1>5 DEF IsOpen
  <2>3. OneBasketPerFlip'
    <3>1. \A k \in DOMAIN trades : trades[k].flip # flips.last
      BY <1>3 DEF UsedFlips
    <3>2. \A k, n \in DOMAIN trades : trades[k].flip = trades[n].flip => k = n
      BY DEF ReplayInv, FlipsKnown, OneBasketPerFlip
    <3>. QED BY <1>1, <2>2, <3>1, <3>2 DEF OneBasketPerFlip
  <2>4. flips'.last <= bar'.i
    BY <1>1 DEF ReplayInv, FlipsKnown
  <2>. QED BY <1>1, <2>1, <2>3, <2>4 DEF FlipsKnown
<1>11. SignalNew'
  BY <1>1 DEF SignalNew
<1>12. BalanceKept' /\ FloorPays'
  BY <1>1, <1>7 DEF ReplayInv, BalanceKept, Booked, FloorPays
<1>13. (IsOpen => Laddered(basket))'
  <2>1. IsOpen' => Laddered(basket')
    BY <1>1, <1>5 DEF IsOpen
  <2>2. Laddered(basket') => Laddered(basket)'
    BY <1>1 DEF Laddered, MostLegs, Rung, Climbing, BasketPl, Ounces, Cost
  <2>. QED BY <2>1, <2>2
<1>. QED BY <1>8, <1>10, <1>11, <1>12, <1>13 DEF ReplayInv

-----------------------------------------------------------------------------
(* The rules at the close                                                  *)

\* What became of the basket b: the same basket, still sound, its stop no looser.
Works(c, b) ==
    /\ c \in OpenBaskets /\ Laddered(c) /\ c.dir = b.dir /\ c.flip = b.flip
    /\ c.stop * Sign(b.dir) >= b.stop * Sign(b.dir)

\* At the close only the spread of new ounces changes what a basket is worth.
Paid(c, b) == BasketPl(c, bar.close) = BasketPl(b, bar.close) - SpreadPerOz * (Ounces(c) - Ounces(b))

LEMMA StopIsInt ==
  ASSUME NEW b \in OpenBaskets, NEW d PROVE b.stop * Sign(d) \in Int
<1>1. b.stop \in Int /\ Sign(d) \in {1, -1}
  BY BasketParts, SignIsUnit
<1>. QED BY <1>1, Signed

LEMMA WorksOn ==
  ASSUME NEW b \in OpenBaskets, NEW c, Works(c, b), NEW d, Works(d, c)
  PROVE  Works(d, b)
<1>1. /\ c \in OpenBaskets /\ d \in OpenBaskets /\ c.dir = b.dir
      /\ c.stop * Sign(b.dir) >= b.stop * Sign(b.dir)
      /\ d.stop * Sign(b.dir) >= c.stop * Sign(b.dir)
  BY DEF Works
<1>2. /\ b.stop * Sign(b.dir) \in Int /\ c.stop * Sign(b.dir) \in Int
      /\ d.stop * Sign(b.dir) \in Int
  BY <1>1, StopIsInt
<1>3. d.stop * Sign(b.dir) >= b.stop * Sign(b.dir)
  BY <1>1, <1>2
<1>. QED BY <1>3 DEF Works

LEMMA WorksSelf == ASSUME NEW b \in OpenBaskets, Laddered(b) PROVE Works(b, b)
<1>1. b.stop * Sign(b.dir) \in Int
  BY StopIsInt
<1>. QED BY <1>1 DEF Works

LEMMA SamePl ==
  ASSUME NEW b, NEW c, c.legs = b.legs, c.dir = b.dir, NEW level
  PROVE  BasketPl(c, level) = BasketPl(b, level) /\ Ounces(c) = Ounces(b) /\ Cost(c) = Cost(b)
BY DEF BasketPl, Ounces, Cost

\* The legs the rules look at: there is a first and a last one.
LEMMA LegsOfBasket ==
  ASSUME NEW b \in OpenBaskets, Laddered(b)
  PROVE  /\ Len(b.legs) \in Nat \ {0} /\ b.legs[1] \in Share
         /\ b.legs[Len(b.legs)] \in Share
         /\ \A k \in 1..Len(b.legs) : b.legs[k].px \in Int /\ b.legs[k].oz \in Nat \ {0}
<1>1. b.legs \in Seq(Share) /\ Len(b.legs) \in 1..MostLegs
  BY BasketParts DEF Laddered
<1>2. Len(b.legs) \in Nat /\ Len(b.legs) >= 1
  BY <1>1, LenProperties
<1>3. 1 \in 1..Len(b.legs) /\ Len(b.legs) \in 1..Len(b.legs)
  BY <1>2
<1>. QED BY <1>1, <1>2, <1>3, ShareParts

LEMMA PeakedWorks ==
  ASSUME ReplayInv, IsOpen
  PROVE  /\ Peaked \in OpenBaskets /\ Works(Peaked, basket) /\ Peaked.legs = basket.legs
         /\ basket \in OpenBaskets /\ Laddered(basket)
<1>1. basket \in OpenBaskets /\ Laddered(basket) /\ bar.close \in Int
  BY OpenIsOpen, BarParts DEF ReplayInv, ReplayKinds
<1>2. basket.legs \in Seq(Share) /\ basket.peak \in Int
  BY <1>1, BasketParts
<1>3. Larger(basket.peak, BasketPl(basket, bar.close)) \in Int
  BY <1>1, <1>2, PlGrows DEF Larger
<1>. DEFINE c == Peaked
<1>4. /\ c \in OpenBaskets /\ c.legs = basket.legs /\ c.dir = basket.dir /\ c.flip = basket.flip
      /\ c.stop = basket.stop /\ c.armed = basket.armed /\ c.banked = basket.banked
      /\ c.floorAt = basket.floorAt /\ c.owed = basket.owed
  <2>. DEFINE x == Larger(basket.peak, BasketPl(basket, bar.close))
  <2>1. c = [basket EXCEPT !.peak = x]
    BY DEF Peaked
  <2>. HIDE DEF x, c
  <2>. QED BY <1>1, <1>3, <2>1 DEF OpenBaskets, x
<1>. HIDE DEF c
<1>5. BasketPl(c, c.floorAt) = BasketPl(basket, basket.floorAt)
  BY <1>4, SamePl
<1>6. Laddered(c)
  BY <1>1, <1>4, <1>5 DEF Laddered, Climbing, Rung
<1>7. c.stop * Sign(basket.dir) >= basket.stop * Sign(basket.dir)
  <2>1. basket.stop * Sign(basket.dir) \in Int
    BY <1>1, StopIsInt
  <2>. QED BY <1>4, <2>1
<1>. QED BY <1>1, <1>4, <1>6, <1>7 DEF Works, c

\* The bank of hybrid mode: with one leg and no floor the stop goes to the entry.
LEMMA BankedWorks ==
  ASSUME ReplayInv, NEW b \in OpenBaskets, Laddered(b)
  PROVE  /\ Works(BankedBasket(b), b) /\ BankedMoney(b) \in Int
         /\ mode.entry # "hybrid" => BankedBasket(b) = b /\ BankedMoney(b) = bal
<1>1. bal \in Int /\ bar.close \in Int
  BY BarParts DEF ReplayInv, ReplayKinds
<1>2. CASE ~MustBank(b)
  BY <1>1, <1>2, WorksSelf DEF BankedBasket, BankedMoney
<1>3. CASE MustBank(b)
  <2>. DEFINE first == b.legs[1]
              oz == first.oz - Half(first.oz)
              rest == [first EXCEPT !.oz = oz]
              shares == [b.legs EXCEPT ![1] = rest]
              c == BankedBasket(b)
  <2>1. mode.entry = "hybrid" /\ ~b.armed /\ Len(b.legs) = 1 /\ ~b.banked
    BY <1>3 DEF MustBank, Laddered
  <2>2. b.legs \in Seq(Share) /\ first \in Share /\ first.px \in Int /\ first.oz \in Nat \ {0}
    <3>1. 1 \in 1..Len(b.legs)
      BY <2>1
    <3>. QED BY <3>1, LegsOfBasket, BasketParts
  <2>3. oz \in Nat \ {0} /\ Half(first.oz) \in Int
    BY <2>2, HalfIsLess
  <2>4. c = [b EXCEPT !.banked = TRUE, !.legs = shares, !.stop = first.px]
    BY <1>3 DEF BankedBasket
  <2>5. BankedMoney(b) = bal + Advance(b, 1) * Half(first.oz)
    BY <1>3 DEF BankedMoney
  <2>6. Advance(b, 1) \in Int
    BY <1>1, <2>2, SignIsUnit, Signed DEF Advance
  <2>7. BankedMoney(b) \in Int
    <3>. HIDE DEF first
    <3>. QED BY <1>1, <2>3, <2>5, <2>6
  <2>. HIDE DEF first, oz, c
  <2>8. rest \in Share /\ rest.px = first.px
    BY <2>2, <2>3 DEF Share
  <2>. HIDE DEF rest
  <2>9. shares \in Seq(Share) /\ Len(shares) = 1 /\ shares[1] = rest
    BY <2>1, <2>2, <2>8, ExceptSeq
  <2>. HIDE DEF shares
  <2>10. /\ c \in OpenBaskets /\ c.legs = shares /\ c.stop = first.px /\ c.banked
         /\ c.dir = b.dir /\ c.flip = b.flip /\ ~c.armed
    <3>. DEFINE b1 == [b EXCEPT !.banked = TRUE]
                b2 == [b1 EXCEPT !.legs = shares]
                b3 == [b2 EXCEPT !.stop = first.px]
    <3>1. /\ b1 \in OpenBaskets /\ b1.banked /\ b1.dir = b.dir /\ b1.flip = b.flip /\ ~b1.armed
      BY <2>1 DEF OpenBaskets
    <3>. HIDE DEF b1
    <3>2. /\ b2 \in OpenBaskets /\ b2.banked /\ b2.dir = b.dir /\ b2.flip = b.flip /\ ~b2.armed
          /\ b2.legs = shares
      BY <2>9, <3>1 DEF OpenBaskets
    <3>. HIDE DEF b2
    <3>3. /\ b3 \in OpenBaskets /\ b3.banked /\ b3.dir = b.dir /\ b3.flip = b.flip /\ ~b3.armed
          /\ b3.legs = shares /\ b3.stop = first.px
      BY <2>2, <3>2 DEF OpenBaskets
    <3>4. c = b3
      BY <2>4 DEF b1, b2
    <3>. QED BY <3>3, <3>4
  <2>11. Rung(c) = first.px /\ Climbing(c) /\ Rung(b) = first.px
    <3>1. Len(c.legs) = 1 /\ c.legs[1].px = first.px
      BY <2>8, <2>9, <2>10
    <3>2. Rung(c) = first.px /\ Rung(b) = first.px
      BY <2>1, <3>1 DEF Rung, first
    <3>3. Climbing(c)
      BY <3>1 DEF Climbing
    <3>. QED BY <3>2, <3>3
  <2>12. first.px * Sign(b.dir) \in Int
    BY <2>2, SignIsUnit, Signed
  <2>13. Laddered(c)
    <3>1. c.stop * Sign(c.dir) <= Rung(c) * Sign(c.dir)
      BY <2>10, <2>11, <2>12
    <3>2. Len(c.legs) = 1 /\ 1 \in 1..MostLegs
      BY <2>1, <2>9, <2>10 DEF Laddered
    <3>. QED BY <2>10, <2>11, <3>1, <3>2 DEF Laddered
  <2>14. c.stop * Sign(b.dir) >= b.stop * Sign(b.dir)
    <3>1. b.stop * Sign(b.dir) <= first.px * Sign(b.dir) /\ b.stop * Sign(b.dir) \in Int
      BY <2>1, <2>11, StopIsInt DEF Laddered
    <3>. QED BY <2>10, <2>12, <3>1
  <2>. QED BY <2>1, <2>7, <2>10, <2>13, <2>14 DEF Works, c
<1>. QED BY <1>2, <1>3

\* A floor is armed at a price that pays what it promises.
LEMMA ArmedWorks ==
  ASSUME ReplayInv, NEW b \in OpenBaskets, Laddered(b), NEW pl
  PROVE  Works(Armed(b, pl), b) /\ Armed(b, pl).legs = b.legs
<1>1. CASE ~MustArm(b, pl)
  BY <1>1, WorksSelf DEF Armed
<1>2. CASE MustArm(b, pl)
  <2>. DEFINE owed == Target(b) - (IF mode.exit = "floor-b" THEN 0 ELSE Margin(b))
              at == FloorPrice(b, owed)
              stop == IF Tighter(b, at) THEN at ELSE b.stop
              c == Armed(b, pl)
  <2>1. mode.entry # "hybrid" /\ ~b.armed
    BY <1>2 DEF MustArm, HasTarget
  <2>2. b.legs \in Seq(Share) /\ b.stop \in Int /\ b.cycle \in Int /\ Len(b.legs) > 0
    BY BasketParts, LegsOfBasket
  <2>3. owed \in Int
    <3>1. b.cycle * TargetPct \in Int
      BY <2>2, ReplayNumbers
    <3>2. Target(b) \in Int
      BY <3>1 DEF Target
    <3>3. Margin(b) \in Int
      BY <2>2, BasketMoney, ReplayNumbers DEF Margin
    <3>. QED BY <3>2, <3>3
  <2>4. c = [b EXCEPT !.armed = TRUE, !.owed = owed, !.floorAt = at, !.stop = stop]
    BY <1>2 DEF Armed
  <2>. HIDE DEF owed, c
  <2>5. at \in Int /\ BasketPl(b, at) >= owed
    BY <2>2, <2>3, FloorPricePays
  <2>. HIDE DEF at
  <2>6. stop \in Int /\ stop * Sign(b.dir) >= b.stop * Sign(b.dir)
    <3>1. b.stop * Sign(b.dir) \in Int /\ at * Sign(b.dir) \in Int
      BY <2>2, <2>5, SignIsUnit, Signed
    <3>2. CASE Tighter(b, at)
      BY <2>5, <3>1, <3>2 DEF Tighter
    <3>3. CASE ~Tighter(b, at)
      BY <2>2, <3>1, <3>3
    <3>. QED BY <3>2, <3>3
  <2>. HIDE DEF stop
  <2>7. /\ c \in OpenBaskets /\ c.legs = b.legs /\ c.dir = b.dir /\ c.flip = b.flip
        /\ c.armed /\ c.owed = owed /\ c.floorAt = at /\ c.stop = stop
    <3>. DEFINE b1 == [b EXCEPT !.armed = TRUE]
                b2 == [b1 EXCEPT !.owed = owed]
                b3 == [b2 EXCEPT !.floorAt = at]
                b4 == [b3 EXCEPT !.stop = stop]
    <3>1. /\ b1 \in OpenBaskets /\ b1.legs = b.legs /\ b1.dir = b.dir /\ b1.flip = b.flip
          /\ b1.armed
      BY DEF OpenBaskets
    <3>. HIDE DEF b1
    <3>2. /\ b2 \in OpenBaskets /\ b2.legs = b.legs /\ b2.dir = b.dir /\ b2.flip = b.flip
          /\ b2.armed /\ b2.owed = owed
      BY <2>3, <3>1 DEF OpenBaskets
    <3>. HIDE DEF b2
    <3>3. /\ b3 \in OpenBaskets /\ b3.legs = b.legs /\ b3.dir = b.dir /\ b3.flip = b.flip
          /\ b3.armed /\ b3.owed = owed /\ b3.floorAt = at
      BY <2>5, <3>2 DEF OpenBaskets
    <3>. HIDE DEF b3
    <3>4. /\ b4 \in OpenBaskets /\ b4.legs = b.legs /\ b4.dir = b.dir /\ b4.flip = b.flip
          /\ b4.armed /\ b4.owed = owed /\ b4.floorAt = at /\ b4.stop = stop
      BY <2>6, <3>3 DEF OpenBaskets
    <3>5. c = b4
      BY <2>4 DEF b1, b2, b3
    <3>. QED BY <3>4, <3>5
  <2>8. BasketPl(c, c.floorAt) >= c.owed
    <3>1. BasketPl(c, at) = BasketPl(b, at)
      BY <2>7, SamePl
    <3>. QED BY <2>5, <2>7, <3>1
  <2>9. Laddered(c)
    BY <2>1, <2>7, <2>8 DEF Laddered, Climbing
  <2>. QED BY <2>6, <2>7, <2>9 DEF Works, c
<1>. QED BY <1>1, <1>2

LEMMA PositionsBound ==
  ASSUME ReplayInv, NEW money
  PROVE  Positions(money) \in Nat \ {0} /\ Positions(money) <= MostLegs /\ MostLegs \in Nat
<1>1. MaxPositions \in Nat \ {0}
  BY ReplayNumbers
<1>2. CASE mode.entry = "hybrid"
  BY <1>1, <1>2 DEF Positions, MostLegs, Larger
<1>3. CASE mode.entry # "hybrid"
  BY <1>1, <1>3 DEF Positions, MostLegs
<1>. QED BY <1>2, <1>3

\* The next rung of the ladder is between the stop and the last price.
LEMMA LadderBetween ==
  ASSUME NEW b \in OpenBaskets, Laddered(b)
  PROVE  /\ Ladder(b) \in Int
         /\ ~b.armed => b.stop * Sign(b.dir) <= Ladder(b) * Sign(b.dir)
         /\ ~b.armed => Ladder(b) * Sign(b.dir) <= b.legs[Len(b.legs)].px * Sign(b.dir)
<1>. DEFINE n == Len(b.legs)
            s == Sign(b.dir)
            last == b.legs[n].px
            before == b.legs[n - 1].px
<1>1. /\ n \in Nat \ {0} /\ s \in {1, -1} /\ b.stop \in Int
      /\ \A k \in 1..n : b.legs[k].px \in Int
  BY LegsOfBasket, BasketParts, SignIsUnit
<1>2. n \in 1..n /\ (n # 1 => n - 1 \in 1..(n - 1) /\ n - 1 \in 1..n /\ n - 1 + 1 = n)
  <2>. HIDE DEF n
  <2>1. n \in 1..n
    BY <1>1
  <2>2. ASSUME n # 1 PROVE n - 1 \in 1..(n - 1) /\ n - 1 \in 1..n /\ n - 1 + 1 = n
    BY <1>1, <2>2
  <2>. QED BY <2>1, <2>2
<1>3. last \in Int /\ (n # 1 => before \in Int)
  BY <1>1, <1>2
<1>4. Ladder(b) = IF n = 1 THEN (b.stop + b.legs[1].px) \div 2 ELSE (before + last) \div 2
  BY DEF Ladder
<1>5. ~b.armed => b.stop * s <= (IF n = 1 THEN last ELSE before) * s
  BY DEF Laddered, Rung
<1>6. n # 1 => before * s <= last * s
  <2>1. \A k \in 1..(n - 1) : b.legs[k].px * s <= b.legs[k + 1].px * s
    BY DEF Laddered, Climbing
  <2>. QED BY <1>2, <2>1
<1>. HIDE DEF n, s, last, before
<1>7. CASE n = 1
  <2>1. Ladder(b) = (b.stop + last) \div 2
    BY <1>4, <1>7 DEF last
  <2>2. Ladder(b) \in Int
    BY <1>1, <1>3, <2>1
  <2>3. ~b.armed => b.stop * s <= Ladder(b) * s /\ Ladder(b) * s <= last * s
    BY <1>1, <1>3, <1>5, <1>7, <2>1, HalfWay
  <2>. QED BY <2>2, <2>3 DEF s, last, n
<1>8. CASE n # 1
  <2>1. Ladder(b) = (before + last) \div 2
    BY <1>4, <1>8
  <2>2. /\ Ladder(b) \in Int
        /\ before * s <= Ladder(b) * s /\ Ladder(b) * s <= last * s
    BY <1>1, <1>3, <1>6, <1>8, <2>1, HalfWay
  <2>3. b.stop * s \in Int /\ before * s \in Int /\ Ladder(b) * s \in Int
    BY <1>1, <1>3, <1>8, <2>2, Signed
  <2>4. ~b.armed => b.stop * s <= Ladder(b) * s
    BY <1>5, <1>8, <2>2, <2>3
  <2>. QED BY <2>2, <2>4 DEF s, last, n
<1>. QED BY <1>7, <1>8

\* An add: one more leg beyond the last one, the stop on the ladder or tighter.
LEMMA AddWorks ==
  ASSUME ReplayInv, NEW b \in OpenBaskets, Laddered(b), NEW money, NEW pl, MayAdd(b, money, pl)
  PROVE  Works(WithAdd(b), b) /\ Paid(WithAdd(b), b)
<1>. DEFINE n == Len(b.legs)
            s == Sign(b.dir)
            last == b.legs[n]
            share == [px |-> bar.close, oz |-> Larger(MinOz, (7 * last.oz) \div 10)]
            shares == Append(b.legs, share)
            stop == IF b.armed /\ ~Tighter(b, Ladder(b)) THEN b.stop ELSE Ladder(b)
            c == WithAdd(b)
<1>1. /\ bar.close \in Int /\ s \in {1, -1} /\ n \in Nat \ {0} /\ b.stop \in Int
      /\ b.legs \in Seq(Share) /\ last.oz \in Nat \ {0} /\ last.px \in Int
  <2>1. bar \in Bars
    BY DEF ReplayInv, ReplayKinds
  <2>2. n \in Nat \ {0} /\ n \in 1..n
    BY LegsOfBasket
  <2>. QED BY <2>1, <2>2, BarParts, BasketParts, LegsOfBasket, SignIsUnit
<1>2. /\ n < Positions(money) /\ Advance(b, n) >= AddTrigger
      /\ b.armed => mode.exit = "floor-a-adds"
      /\ mode.entry = "hybrid" => b.banked
  BY DEF MayAdd, Frozen
<1>3. last.px * s <= bar.close * s
  <2>1. Advance(b, n) = (bar.close - last.px) * s
    BY DEF Advance
  <2>2. AddTrigger \in Nat
    BY ReplayNumbers
  <2>. HIDE DEF s, last, n
  <2>3. CASE s = 1
    BY <1>1, <1>2, <2>1, <2>2, <2>3
  <2>4. CASE s = -1
    BY <1>1, <1>2, <2>1, <2>2, <2>4
  <2>. QED BY <1>1, <2>3, <2>4
<1>4. share \in Share /\ share.px = bar.close
  <2>1. (7 * last.oz) \div 10 \in Int
    BY <1>1
  <2>2. Larger(MinOz, (7 * last.oz) \div 10) \in Nat \ {0}
    BY <2>1, ReplayNumbers DEF Larger
  <2>. QED BY <1>1, <2>2 DEF Share
<1>5. Last(b.legs) = last
  BY DEF Last
<1>6. c = [b EXCEPT !.legs = shares, !.stop = stop]
  BY <1>5 DEF WithAdd
<1>7. Ladder(b) \in Int
  BY LadderBetween
<1>. HIDE DEF share, c
<1>8. /\ shares \in Seq(Share) /\ Len(shares) = n + 1 /\ shares[n + 1] = share
      /\ \A k \in 1..n : shares[k] = b.legs[k]
  BY <1>1, <1>4, AppendProperties
<1>9. stop \in Int /\ stop * s >= b.stop * s
  <2>1. b.stop * s \in Int /\ Ladder(b) * s \in Int
    BY <1>1, <1>7, Signed
  <2>2. CASE ~b.armed
    BY <1>7, <2>1, <2>2, LadderBetween
  <2>3. CASE b.armed /\ Tighter(b, Ladder(b))
    BY <1>7, <2>1, <2>3 DEF Tighter
  <2>4. CASE b.armed /\ ~Tighter(b, Ladder(b))
    BY <1>1, <2>1, <2>4
  <2>. QED BY <2>2, <2>3, <2>4
<1>10. ~b.armed => stop * s <= last.px * s
  BY LadderBetween
<1>. HIDE DEF stop
<1>11. /\ c \in OpenBaskets /\ c.legs = shares /\ c.stop = stop /\ c.dir = b.dir /\ c.flip = b.flip
       /\ c.armed = b.armed /\ c.banked = b.banked
  <2>. HIDE DEF shares
  <2>. DEFINE b1 == [b EXCEPT !.legs = shares]
              b2 == [b1 EXCEPT !.stop = stop]
  <2>1. /\ b1 \in OpenBaskets /\ b1.legs = shares /\ b1.dir = b.dir /\ b1.flip = b.flip
        /\ b1.armed = b.armed /\ b1.banked = b.banked
    BY <1>8 DEF OpenBaskets
  <2>. HIDE DEF b1
  <2>2. /\ b2 \in OpenBaskets /\ b2.legs = shares /\ b2.stop = stop /\ b2.dir = b.dir
        /\ b2.flip = b.flip /\ b2.armed = b.armed /\ b2.banked = b.banked
    BY <1>9, <2>1 DEF OpenBaskets
  <2>3. c = b2
    BY <1>6 DEF b1
  <2>. QED BY <2>2, <2>3
<1>. HIDE DEF shares
<1>12. Climbing(c)
  <2>1. \A k \in 1..(n - 1) : b.legs[k].px * s <= b.legs[k + 1].px * s
    BY DEF Laddered, Climbing
  <2>. SUFFICES ASSUME NEW k \in 1..n PROVE shares[k].px * s <= shares[k + 1].px * s
    BY <1>1, <1>8, <1>11 DEF Climbing
  <2>2. CASE k = n
    <3>1. shares[k] = last /\ shares[k + 1] = share
      BY <1>1, <1>8, <2>2
    <3>. QED BY <1>3, <1>4, <3>1
  <2>3. CASE k # n
    <3>1. k \in 1..(n - 1) /\ k + 1 \in 1..n
      BY <1>1, <2>3
    <3>2. shares[k] = b.legs[k] /\ shares[k + 1] = b.legs[k + 1]
      BY <1>8, <3>1
    <3>. QED BY <2>1, <3>1, <3>2
  <2>. QED BY <2>2, <2>3
<1>13. Rung(c) = last.px
  <2>1. n + 1 # 1 /\ n + 1 - 1 = n /\ n \in 1..n
    BY <1>1
  <2>2. Rung(c) = shares[n].px
    BY <1>8, <1>11, <2>1 DEF Rung
  <2>. QED BY <1>8, <2>1, <2>2
<1>14. Len(c.legs) \in 1..MostLegs /\ Len(c.legs) # 1
  <2>1. Positions(money) \in Nat /\ Positions(money) <= MostLegs /\ MostLegs \in Nat
    BY PositionsBound
  <2>2. Len(c.legs) = n + 1
    BY <1>8, <1>11
  <2>. HIDE DEF n
  <2>. QED BY <1>1, <1>2, <2>1, <2>2
<1>15. Laddered(c)
  <2>1. mode.entry = "hybrid" => ~b.armed
    BY DEF Laddered
  <2>2. ~c.armed => c.stop * Sign(c.dir) <= Rung(c) * Sign(c.dir)
    BY <1>10, <1>11, <1>13
  <2>. QED BY <1>2, <1>11, <1>12, <1>14, <2>1, <2>2 DEF Laddered
<1>16. Paid(c, b)
  <2>. DEFINE oz == share.oz
              level == bar.close
              cost == Cost(b)
              ounces == Ounces(b)
  <2>1. /\ Ounces(c) = ounces + oz /\ Cost(c) = cost + oz * level
        /\ ounces \in Int /\ cost \in Int /\ oz \in Int
    <3>1. /\ Ounces(c) = Total(Sizes(shares)) /\ Cost(c) = Total(Values(shares))
          /\ ounces = Total(Sizes(b.legs)) /\ cost = Total(Values(b.legs))
          /\ ounces \in Nat /\ cost \in Int
      BY <1>1, <1>8, <1>11, BasketMoney
    <3>2. /\ Total(Sizes(shares)) = Total(Sizes(b.legs)) + share.oz
          /\ Total(Values(shares)) = Total(Values(b.legs)) + share.oz * share.px
      BY <1>1, <1>4, ColumnsOfAppend DEF shares
    <3>3. share.oz \in Int
      BY <1>4 DEF Share
    <3>. QED BY <1>4, <3>1, <3>2, <3>3
  <2>2. /\ BasketPl(c, level) = s * (level * Ounces(c) - Cost(c)) - SpreadPerOz * Ounces(c)
        /\ BasketPl(b, level) = s * (level * ounces - cost) - SpreadPerOz * ounces
    BY <1>11 DEF BasketPl
  <2>3. level \in Int /\ SpreadPerOz \in Int
    BY <1>1, ReplayNumbers
  <2>. HIDE DEF oz, level, cost, ounces, s
  <2>4. level * Ounces(c) - Cost(c) = level * ounces - cost
    <3>1. level * (ounces + oz) = level * ounces + oz * level
      BY <2>1, <2>3
    <3>2. level * ounces \in Int /\ oz * level \in Int
      BY <2>1, <2>3
    <3>. QED BY <2>1, <3>1, <3>2
  <2>5. SpreadPerOz * Ounces(c) = SpreadPerOz * ounces + SpreadPerOz * oz
    BY <2>1, <2>3
  <2>6. Ounces(c) - ounces = oz
    BY <2>1
  <2>7. /\ SpreadPerOz * ounces \in Int /\ SpreadPerOz * oz \in Int
        /\ s * (level * ounces - cost) \in Int
    BY <1>1, <2>1, <2>3
  <2>8. BasketPl(c, level) = s * (level * ounces - cost) - (SpreadPerOz * ounces + SpreadPerOz * oz)
    BY <2>2, <2>4, <2>5
  <2>9. BasketPl(c, level) = BasketPl(b, level) - SpreadPerOz * oz
    BY <2>2, <2>7, <2>8
  <2>. QED BY <2>6, <2>9 DEF Paid, level, ounces
<1>. QED BY <1>9, <1>11, <1>15, <1>16 DEF Works, c

LEMMA GrownWorks ==
  ASSUME ReplayInv, NEW b \in OpenBaskets, Laddered(b), NEW money, NEW pl
  PROVE  Works(Grown(b, money, pl), b) /\ Paid(Grown(b, money, pl), b)
<1>1. CASE MayAdd(b, money, pl)
  BY <1>1, AddWorks DEF Grown
<1>2. CASE ~MayAdd(b, money, pl)
  <2>1. Paid(b, b)
    <3>1. Ounces(b) \in Int /\ BasketPl(b, bar.close) \in Int
      BY BasketParts, BarParts, BasketMoney, PlGrows DEF ReplayInv, ReplayKinds
    <3>2. SpreadPerOz * (Ounces(b) - Ounces(b)) = 0
      BY <3>1, ReplayNumbers
    <3>. QED BY <3>1, <3>2 DEF Paid
  <2>. QED BY <1>2, <2>1, WorksSelf DEF Grown
<1>. QED BY <1>1, <1>2

\* What the rules of the close leave: a closed basket, or the same one, at work.
LEMMA ManageCloseDoes ==
  ASSUME ReplayInv, ManageClose
  PROVE  /\ IsOpen /\ phase = "manage" /\ phase' = "enter"
         /\ UNCHANGED <<mode, bar, flips, signal, held, surprises>>
         /\ basket \in OpenBaskets /\ basket.legs \in Seq(Share)
         /\ \/ \E b, money, why :
                   /\ ClosesAt(b, money, bar.close, why)
                   /\ mode.entry # "hybrid" => b.legs = basket.legs /\ b.dir = basket.dir
            \/ /\ Works(basket', basket) /\ bal' \in Int /\ UNCHANGED <<trades, marks>>
               /\ mode.entry # "hybrid" => bal' = bal /\ Paid(basket', basket)
<1>. DEFINE pl == BasketPl(basket, bar.close)
            b == BankedBasket(Peaked)
            money == BankedMoney(Peaked)
            why == IF ReachesTarget(b, pl) THEN "profit target"
                   ELSE IF LocksProfit(b, pl) THEN "profit lock"
                   ELSE IF Reverses(b) THEN "reversal" ELSE "stay"
            last == Grown(Armed(b, pl), money, pl)
<1>1. /\ IsOpen /\ phase = "manage" /\ phase' = "enter"
      /\ UNCHANGED <<mode, bar, flips, signal, held, surprises>>
  BY DEF ManageClose
<1>2. \/ why # "stay" /\ CloseBasket(b, money, bar.close, why)
      \/ why = "stay" /\ basket' = last /\ bal' = money /\ UNCHANGED <<trades, marks>>
  BY DEF ManageClose
<1>3. why = "stay" \/ (why \in Reasons /\ why # "floor stop")
  BY DEF Reasons
<1>4. /\ Peaked \in OpenBaskets /\ Works(Peaked, basket) /\ Peaked.legs = basket.legs
      /\ basket \in OpenBaskets /\ Laddered(basket)
  BY <1>1, PeakedWorks
<1>5. /\ Works(b, Peaked) /\ money \in Int
      /\ mode.entry # "hybrid" => b = Peaked /\ money = bal
  BY <1>4, BankedWorks DEF Works
<1>. HIDE DEF b, money, why, pl
<1>6. b \in OpenBaskets /\ Laddered(b) /\ Works(b, basket)
  BY <1>4, <1>5, WorksOn DEF Works
<1>7. basket.legs \in Seq(Share) /\ bar.close \in Int
  BY <1>4, BasketParts, BarParts DEF ReplayInv, ReplayKinds
<1>8. mode.entry # "hybrid" => b.legs = basket.legs /\ b.dir = basket.dir
  BY <1>4, <1>5 DEF Works
<1>9. CASE why # "stay"
  <2>1. CloseBasket(b, money, bar.close, why) /\ why \in Reasons /\ why # "floor stop"
    BY <1>2, <1>3, <1>9
  <2>2. ClosesAt(b, money, bar.close, why)
    BY <1>5, <1>6, <1>7, <2>1 DEF ClosesAt, Works
  <2>. QED BY <1>1, <1>4, <1>7, <1>8, <2>2
<1>10. CASE why = "stay"
  <2>. DEFINE a == Armed(b, pl)
  <2>1. Works(a, b) /\ a.legs = b.legs
    BY <1>6, ArmedWorks
  <2>2. a \in OpenBaskets /\ Laddered(a) /\ a.dir = b.dir
    BY <2>1 DEF Works
  <2>. HIDE DEF a
  <2>3. Works(last, a) /\ Paid(last, a)
    BY <2>2, GrownWorks DEF a
  <2>. HIDE DEF last
  <2>4. Works(last, basket)
    <3>1. Works(a, basket)
      BY <1>4, <1>6, <2>1, WorksOn
    <3>. QED BY <1>4, <2>3, <3>1, WorksOn
  <2>5. mode.entry # "hybrid" => Paid(last, basket)
    <3>. SUFFICES ASSUME mode.entry # "hybrid" PROVE Paid(last, basket)
      OBVIOUS
    <3>1. a.legs = basket.legs /\ a.dir = basket.dir
      BY <1>8, <2>1, <2>2
    <3>2. BasketPl(a, bar.close) = BasketPl(basket, bar.close) /\ Ounces(a) = Ounces(basket)
      BY <3>1, SamePl
    <3>. QED BY <2>3, <3>2 DEF Paid
  <2>6. basket' = last /\ bal' = money /\ UNCHANGED <<trades, marks>>
    BY <1>2, <1>10
  <2>. QED BY <1>1, <1>4, <1>5, <1>7, <2>4, <2>5, <2>6
<1>. QED BY <1>9, <1>10

LEMMA ManageCloseKeeps == ASSUME ReplayInv, ManageClose PROVE ReplayInv'
<1>1. /\ IsOpen /\ phase = "manage" /\ phase' = "enter"
      /\ UNCHANGED <<mode, bar, flips, signal, held, surprises>>
  BY ManageCloseDoes
<1>2. \/ \E b, money, why : ClosesAt(b, money, bar.close, why)
      \/ /\ Works(basket', basket) /\ bal' \in Int /\ UNCHANGED <<trades, marks>>
         /\ mode.entry # "hybrid" => bal' = bal
  BY ManageCloseDoes
<1>3. CASE \E b, money, why : ClosesAt(b, money, bar.close, why)
  <2>1. PICK b, money, why : ClosesAt(b, money, bar.close, why)
    BY <1>3
  <2>. QED BY <1>1, <2>1, ClosedKeeps
<1>4. CASE /\ Works(basket', basket) /\ bal' \in Int /\ UNCHANGED <<trades, marks>>
           /\ mode.entry # "hybrid" => bal' = bal
  <2>1. /\ basket' \in OpenBaskets /\ Laddered(basket') /\ basket'.flip = basket.flip
    BY <1>4 DEF Works
  <2>2. ReplayKinds'
    BY <1>1, <1>4, <2>1 DEF ReplayInv, ReplayKinds
  <2>3. IsOpen'
    BY <2>1, NoneIsOpen DEF IsOpen
  <2>4. UsedFlips' = UsedFlips /\ OneBasketPerFlip'
    BY <1>1, <1>4, <2>1, <2>3 DEF ReplayInv, FlipsKnown, UsedFlips, OneBasketPerFlip
  <2>5. FlipsKnown' /\ SignalNew'
    BY <1>1, <2>4 DEF ReplayInv, FlipsKnown, SignalNew
  <2>6. BalanceKept' /\ FloorPays'
    BY <1>1, <1>4 DEF ReplayInv, BalanceKept, Booked, FloorPays
  <2>7. Laddered(basket)'
    BY <1>1, <2>1 DEF Laddered, MostLegs, Rung, Climbing, BasketPl, Ounces, Cost
  <2>. QED BY <2>2, <2>5, <2>6, <2>7 DEF ReplayInv
<1>. QED BY <1>2, <1>3, <1>4

-----------------------------------------------------------------------------
(* Every replay                                                            *)

LEMMA ReplayStart == ASSUME ReplayInit PROVE ReplayInv
<1>1. /\ mode \in ReplayModes /\ phase = "observe" /\ signal = "none" /\ bal = StartBalance
      /\ basket = NoBasket /\ trades = <<>> /\ held = 0 /\ surprises = MaxSurprises
      /\ bar = [i |-> 0, close |-> FirstClose, low |-> FirstClose, high |-> FirstClose,
                trend |-> "BUY"]
      /\ flips = [last |-> 0, fired |-> 0, revive |-> 0, extreme |-> 0, beyond |-> 0]
      /\ marks = [peakBal |-> StartBalance, maxDd |-> 0, peakEq |-> StartBalance,
                  maxValley |-> 0]
  BY DEF ReplayInit
<1>2. /\ StartBalance \in Int /\ FirstClose \in Int /\ MaxSurprises \in Int /\ MaxBars \in Nat
      /\ 0 \in Int /\ 0 \in Nat
  BY ReplayNumbers
<1>3. trades \in Seq(Rows) /\ Len(trades) = 0 /\ DOMAIN trades = {}
  BY <1>1, EmptySeq
<1>4. bar \in Bars /\ bar.i = 0
  BY <1>1, <1>2 DEF Bars, Dirs
<1>5. flips \in FlipStates /\ flips.last = 0 /\ flips.fired = 0 /\ flips.revive = 0
  BY <1>1, <1>2 DEF FlipStates
<1>6. marks \in BalanceMarks /\ marks.peakBal = StartBalance /\ marks.maxDd = 0
  BY <1>1, <1>2 DEF BalanceMarks
<1>7. ReplayKinds
  BY <1>1, <1>2, <1>3, <1>4, <1>5, <1>6 DEF ReplayKinds
<1>8. ~IsOpen
  BY <1>1 DEF IsOpen
<1>9. FlipsKnown
  BY <1>3, <1>4, <1>5, <1>8 DEF FlipsKnown, FlipsSound, UsedFlips, OneBasketPerFlip
<1>10. SignalNew /\ FloorPays
  BY <1>1, <1>3 DEF SignalNew, FloorPays
<1>11. BalanceKept
  <2>1. Curve(trades) = [sum |-> 0, peak |-> 0, dd |-> 0]
    BY <1>3, CurvePoints
  <2>2. Booked = 0
    <3>1. Results(trades) = <<>>
      BY <1>3 DEF Results
    <3>2. <<>> \in Seq(Int) /\ Len(<<>>) = 0
      BY EmptySeq
    <3>3. PICK f \in [0..0 -> Int] : f[0] = 0 /\ Total(<<>>) = f[0]
      BY <3>2, PartialSums
    <3>. QED BY <3>1, <3>3 DEF Booked
  <2>. QED BY <1>1, <1>2, <1>6, <2>1, <2>2 DEF BalanceKept
<1>. QED BY <1>7, <1>8, <1>9, <1>10, <1>11 DEF ReplayInv

LEMMA ReplayRests == ASSUME ReplayInv, UNCHANGED replayVars PROVE ReplayInv'
<1>1. /\ UsedFlips' = UsedFlips /\ OneBasketPerFlip' /\ BalanceKept' /\ FloorPays'
      /\ (IsOpen => Laddered(basket))'
  BY UntouchedKeeps DEF replayVars
<1>2. ReplayKinds'
  BY DEF replayVars, ReplayInv, ReplayKinds
<1>3. FlipsKnown' /\ SignalNew'
  BY <1>1 DEF replayVars, ReplayInv, FlipsKnown, SignalNew
<1>. QED BY <1>1, <1>2, <1>3 DEF ReplayInv

LEMMA ReplayStep == ASSUME ReplayInv, [ReplayNext]_replayVars PROVE ReplayInv'
<1>1. ASSUME NEW move \in Moves, ObserveBreak(move) PROVE ReplayInv'
  BY <1>1, BreakKeeps
<1>2. ASSUME NEW move \in Moves, NEW e \in Events, Observe(move, e) PROVE ReplayInv'
  BY <1>2, ObserveKeeps
<1>3. ASSUME NEW gate \in {"open", "soft", "blocked"}, Enter(gate) PROVE ReplayInv'
  BY <1>3, EnterKeeps
<1>. QED BY <1>1, <1>2, <1>3, ManageNothingKeeps, ManageStopKeeps, ManageCloseKeeps,
            StayOutKeeps, EndOfDataKeeps, ReplayRests DEF ReplayNext

LEMMA ReplayHolds == ReplaySpec => []ReplayInv
<1>. QED BY ReplayStart, ReplayStep, PTL DEF ReplaySpec

\* While a basket is open, no rule moves its stop away from the market: neither the
\* bank, nor the floor, nor the first add, nor the ladder.
THEOREM StopsTighten == ReplaySpec => StopOnlyTightens
<1>. DEFINE Tightens == IsOpen /\ basket' # NoBasket
                        => basket'.stop * Sign(basket.dir) >= basket.stop * Sign(basket.dir)
<1>1. ASSUME ReplayInv, [ReplayNext]_replayVars PROVE Tightens
  <2>. SUFFICES ASSUME IsOpen, basket' # NoBasket
                PROVE  basket'.stop * Sign(basket.dir) >= basket.stop * Sign(basket.dir)
    OBVIOUS
  <2>1. CASE basket' = basket
    <3>1. basket.stop * Sign(basket.dir) \in Int
      BY <1>1, OpenIsOpen, StopIsInt DEF ReplayInv
    <3>. QED BY <2>1, <3>1
  <2>2. CASE ManageClose
    <3>1. Works(basket', basket)
      BY <1>1, <2>2, ManageCloseDoes DEF ClosesAt, CloseBasket
    <3>. QED BY <3>1 DEF Works
  <2>. QED
    BY <1>1, <2>1, <2>2 DEF ReplayNext, replayVars, ObserveBreak, Observe, ManageNothing,
       ManageStop, Enter, StayOut, EndOfData, CloseBasket, Allowed
<1>. HIDE DEF Tightens
<1>2. ReplayInv /\ [ReplayNext]_replayVars => [Tightens]_replayVars
  BY <1>1
<1>3. StopOnlyTightens <=> [][Tightens]_replayVars
  BY PTL DEF StopOnlyTightens, Tightens
<1>. QED BY <1>2, <1>3, ReplayHolds, PTL DEF ReplaySpec

\* A floor pays what it promised, a flip opens one basket at most, and the
\* statistics of the account are those of the list of trades.
THEOREM TradesHold == ReplaySpec => [](ReplayTypeOK /\ TradesAreRight)
<1>1. ASSUME ReplayInv PROVE ReplayTypeOK
  <2>1. /\ mode \in ReplayModes /\ phase \in {"observe", "manage", "enter", "end"}
        /\ signal \in {"BUY", "SELL", "none"} /\ bal \in Int
    BY <1>1 DEF ReplayInv, ReplayKinds, Dirs
  <2>2. bar.i \in Nat /\ bar.i <= MaxBars /\ held \in 0..bar.i
    BY <1>1, BarParts DEF ReplayInv, ReplayKinds
  <2>3. flips.last <= bar.i /\ flips.fired <= flips.last
    BY <1>1 DEF ReplayInv, FlipsKnown, FlipsSound
  <2>4. ASSUME IsOpen
        PROVE  /\ Len(basket.legs) \in 1..MostLegs
               /\ \A k \in DOMAIN basket.legs : basket.legs[k].oz > 0
    <3>1. basket \in OpenBaskets /\ Laddered(basket)
      BY <1>1, <2>4, OpenIsOpen DEF ReplayInv
    <3>2. \A k \in DOMAIN basket.legs : basket.legs[k].oz \in Nat \ {0}
      BY <3>1, BasketParts, ShareParts
    <3>. QED BY <3>1, <3>2 DEF Laddered
  <2>5. \A k \in DOMAIN trades : trades[k].pl \in Int
    BY <1>1, RowParts DEF ReplayInv, ReplayKinds
  <2>6. bar.i \in 0..MaxBars /\ held \in 0..MaxBars
    BY <2>2, ReplayNumbers
  <2>. QED BY <2>1, <2>3, <2>4, <2>5, <2>6 DEF ReplayTypeOK
<1>2. ASSUME ReplayInv PROVE TradesAreRight
  <2>1. FloorPays /\ OneBasketPerFlip
    BY <1>2 DEF ReplayInv, FlipsKnown
  <2>2. ASSUME mode.entry # "hybrid" PROVE RunStats = LaneStats(trades)
    <3>1. /\ bal = StartBalance + Curve(trades).sum /\ Curve(trades).sum = Total(Results(trades))
          /\ marks.maxDd = Curve(trades).dd
      BY <1>2, <2>2 DEF ReplayInv, BalanceKept, Booked
    <3>2. Curve(trades) \in Points
      <4>1. trades \in Seq(Rows)
        BY <1>2 DEF ReplayInv, ReplayKinds
      <4>2. PICK f \in [0..Len(trades) -> Points] : Curve(trades) = f[Len(trades)]
        BY <4>1, CurvePoints
      <4>3. Len(trades) \in 0..Len(trades)
        BY <4>1, RowParts
      <4>. QED BY <4>2, <4>3
    <3>3. bal - StartBalance = Total(Results(trades))
      <4>1. Curve(trades).sum \in Int /\ StartBalance \in Int
        BY <3>2, ReplayNumbers DEF Points
      <4>. QED BY <3>1, <4>1
    <3>. QED BY <3>1, <3>3 DEF RunStats, LaneStats
  <2>. QED BY <2>1, <2>2 DEF TradesAreRight, StatsAgree
<1>. QED BY <1>1, <1>2, ReplayHolds, PTL

\* Money neither appears nor vanishes: outside hybrid mode the balance is the start
\* plus the booked trades, and at a close only the spread of new ounces changes
\* what the account is worth.
THEOREM MoneyStays == ReplaySpec => MoneyConserved
<1>. DEFINE Balance == mode.entry # "hybrid" => bal' = StartBalance + Booked'
            Close == phase = "manage" /\ ~(IsOpen /\ Hit) /\ mode.entry # "hybrid"
                     => \/ basket' = NoBasket /\ Worth' = Worth
                        \/ Worth' = Worth - SpreadPerOz * (Ounces(basket') - Ounces(basket))
<1>1. ASSUME ReplayInv, [ReplayNext]_replayVars PROVE Balance
  <2>1. ReplayInv' /\ mode' = mode
    BY <1>1, ReplayStep DEF ReplayNext, replayVars, ObserveBreak, Observe, ManageNothing,
       ManageStop, ManageClose, Enter, StayOut, EndOfData
  <2>. QED BY <2>1 DEF ReplayInv, BalanceKept
<1>2. ASSUME ReplayInv, ReplayNext PROVE Close
  <2>. SUFFICES ASSUME phase = "manage", ~(IsOpen /\ Hit), mode.entry # "hybrid"
                PROVE  \/ basket' = NoBasket /\ Worth' = Worth
                       \/ Worth' = Worth - SpreadPerOz * (Ounces(basket') - Ounces(basket))
    OBVIOUS
  <2>1. ManageNothing \/ ManageClose
    BY <1>2 DEF ReplayNext, ObserveBreak, Observe, NextBarWith, ManageStop, Enter, StayOut,
       EndOfData
  <2>2. CASE ManageNothing
    <3>1. ~IsOpen /\ UNCHANGED <<bar, bal, basket>>
      BY <2>2 DEF ManageNothing
    <3>. QED BY <3>1 DEF Worth, IsOpen
  <2>3. CASE ManageClose
    <3>1. /\ IsOpen /\ bar' = bar /\ basket \in OpenBaskets /\ basket.legs \in Seq(Share)
          /\ \/ \E b, money, why :
                    /\ ClosesAt(b, money, bar.close, why)
                    /\ b.legs = basket.legs /\ b.dir = basket.dir
             \/ /\ Works(basket', basket) /\ bal' = bal /\ Paid(basket', basket)
      BY <1>2, <2>3, ManageCloseDoes
    <3>2. Worth = bal + BasketPl(basket, bar.close)
      BY <3>1 DEF Worth
    <3>3. CASE \E b, money, why : /\ ClosesAt(b, money, bar.close, why)
                                  /\ b.legs = basket.legs /\ b.dir = basket.dir
      <4>1. PICK b, money, why : /\ ClosesAt(b, money, bar.close, why)
                                 /\ b.legs = basket.legs /\ b.dir = basket.dir
        BY <3>3
      <4>2. basket' = NoBasket /\ bal' = bal + BasketPl(b, bar.close)
        BY <4>1 DEF ClosesAt, CloseBasket
      <4>3. BasketPl(b, bar.close) = BasketPl(basket, bar.close)
        BY <4>1, SamePl
      <4>4. bal' \in Int
        BY <1>2, ReplayStep DEF ReplayInv, ReplayKinds
      <4>5. Worth' = bal'
        BY <4>2, <4>4 DEF Worth, IsOpen
      <4>. QED BY <3>2, <4>2, <4>3, <4>5
    <3>4. CASE Works(basket', basket) /\ bal' = bal /\ Paid(basket', basket)
      <4>1. IsOpen'
        <5>1. basket' \in OpenBaskets
          BY <3>4 DEF Works
        <5>. QED BY <5>1, NoneIsOpen DEF IsOpen
      <4>2. Worth' = bal + BasketPl(basket', bar.close)
        BY <3>1, <3>4, <4>1 DEF Worth, BasketPl, Ounces, Cost
      <4>3. BasketPl(basket', bar.close)
              = BasketPl(basket, bar.close) - SpreadPerOz * (Ounces(basket') - Ounces(basket))
        BY <3>4 DEF Paid
      <4>4. /\ BasketPl(basket, bar.close) \in Int /\ bal \in Int
            /\ SpreadPerOz * (Ounces(basket') - Ounces(basket)) \in Int
        <5>1. bal \in Int /\ bar.close \in Int
          BY <1>2, BarParts DEF ReplayInv, ReplayKinds
        <5>2. basket'.legs \in Seq(Share)
          BY <3>4, BasketParts DEF Works
        <5>3. Ounces(basket') \in Int /\ Ounces(basket) \in Int /\ SpreadPerOz \in Int
          BY <3>1, <5>2, BasketMoney, ReplayNumbers
        <5>. QED BY <3>1, <5>1, <5>3, PlGrows
      <4>. QED BY <3>2, <4>2, <4>3, <4>4
    <3>. QED BY <3>1, <3>3, <3>4
  <2>. QED BY <2>1, <2>2, <2>3
<1>. HIDE DEF Balance, Close
<1>3. ReplayInv /\ [ReplayNext]_replayVars => [Balance /\ Close]_replayVars
  BY <1>1, <1>2
<1>4. MoneyConserved <=> [][Balance /\ Close]_replayVars
  BY PTL DEF MoneyConserved, Balance, Close
<1>. QED BY <1>3, <1>4, ReplayHolds, PTL DEF ReplaySpec

-----------------------------------------------------------------------------
(* The trading rules and the records together                              *)

\* A behaviour of the whole is one of each of its parts, which rests while another
\* is in focus.
LEMMA PartsBehave ==
  TradingSpec => /\ ReplaySpec /\ BasketSpec /\ RiskSpec /\ StoreSpec /\ ReportsSpec
                 /\ CandlesSpec /\ BandsSpec
<1>1. TradingInit => /\ ReplayInit /\ BasketInit /\ RiskInit /\ StoreInit /\ ReportsInit
                     /\ CandlesInit /\ BandsInit
  BY DEF TradingInit
<1>2. TradingNext => \/ ReplayNext /\ UNCHANGED ButReplay
                     \/ BasketNext /\ UNCHANGED ButBasket
                     \/ RiskNext /\ UNCHANGED ButRisk
                     \/ StoreNext /\ UNCHANGED ButStore
                     \/ ReportsNext /\ UNCHANGED ButReports
                     \/ CandlesNext /\ UNCHANGED ButCandles
                     \/ BandsNext /\ UNCHANGED ButBands
  BY DEF TradingNext
<1>3. [TradingNext]_TradingVars => /\ [ReplayNext]_replayVars /\ [BasketNext]_basketVars
                                   /\ [RiskNext]_riskVars /\ [StoreNext]_storeVars
                                   /\ [ReportsNext]_reportVars /\ [CandlesNext]_candleVars
                                   /\ [BandsNext]_bandVars
  BY <1>2 DEF TradingVars, ButReplay, ButBasket, ButRisk, ButStore, ButReports, ButCandles,
              ButBands
<1>. QED BY <1>1, <1>3, PTL DEF TradingSpec, ReplaySpec, BasketSpec, RiskSpec, StoreSpec,
            ReportsSpec, CandlesSpec, BandsSpec

\* What the numbers and the flags of the risk manager are.
LEMMA RiskTypes == RiskSpec => []RiskTypeOK
<1>1. RiskInv => RiskTypeOK
  BY DEF RiskInv, RiskKinds, RiskTypeOK, Marks, Accounts, Equity
<1>. QED BY <1>1, RiskSafe, PTL

\* However the back-test engine, the EA's basket and its risk manager, the data base,
\* the candles, the reports and the bands behave: the statistics of a back-test are
\* those of its trades and the money of the account is theirs, a stop only tightens;
\* the legs and flags of a chart are of one basket, and its stop stays at the entry;
\* the limits of the risk manager survive restarts; the reports are what the rows
\* add up to; and what is served is what the file holds.
THEOREM TradingHolds ==
  TradingSpec => /\ [](TradingTypeOK /\ TradesAreRight /\ OneBasket /\ ReportsAreTrue
                       /\ ServesTheFile)
                 /\ StopOnlyTightens /\ MoneyConserved /\ RiskFreeStays
                 /\ LimitsSurvive /\ BrakeBoundsLoss
<1>1. /\ ReplayTypeOK /\ BasketTypeOK /\ RiskTypeOK /\ StoreTypeOK /\ ReportsTypeOK
      /\ CandlesTypeOK /\ BandsTypeOK
      => TradingTypeOK
  BY DEF TradingTypeOK
<1>. QED
  BY <1>1, PartsBehave, TradesHold, StopsTighten, MoneyStays, LegsAreOneBasket,
     StopsStayRiskFree, RiskTypes, LimitsHold, BrakeHolds, StoreServes, CandlesHold,
     BandsHold, RecordsServe, ReportsHold, PTL
=============================================================================
