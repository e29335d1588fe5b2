---------------------------- MODULE TradingProofs ----------------------------
(***************************************************************************)
(* Proofs about the trading rules of the EA: the limits of the risk        *)
(* manager survive restarts and its brake bounds the loss of a day; the    *)
(* legs and the flags of a chart are of one basket, and a stop that has    *)
(* reached its entry stays there.  And about the reports on the trades:    *)
(* the two walkers over the rows agree, and what the months, the days, the *)
(* balances and the pages say is what the rows add up to.                  *)
(***************************************************************************)
EXTENDS Risk, Basket, TradeReports, NatLemmas

-----------------------------------------------------------------------------
(* The risk manager                                                        *)

Accounts == [balance : Int, floating : Int, realized : Int]
Marks == [hwm : Int, kill : BOOLEAN, expo : Nat, resetDay : Nat, base : Int]

RiskKinds ==
    /\ account \in Accounts /\ holding \in BOOLEAN /\ untold \in Nat
    /\ marksGv \in Marks /\ marksDisk \in Marks
    /\ marksGv.resetDay <= today /\ marksDisk.resetDay <= today
    /\ reading \in [valid : BOOLEAN, value : Int]
    /\ expoLimit \in {0, ExpoLimit} /\ today \in Nat
    /\ riskPast \in [stop : BOOLEAN, held : Nat, unread : BOOLEAN]
    /\ riskLeft \in [bars : Nat, trouble : Nat]

\* The marks know what happened, in the terminal and on its disk: a bar at the
\* kill line has tripped the switch, and no bar with a position is missing from
\* the exposure of the day.
MarksKnow(m) == (riskPast.stop => m.kill) /\ riskPast.held <= m.expo

\* A reading that is kept is the truth, but for what the brake cannot know.
ReadingTrue ==
    OwnMagic /\ untold = 0 /\ ~riskPast.unread /\ reading.valid => reading.value = account.realized

RiskInv == RiskKinds /\ MarksKnow(marksGv) /\ MarksKnow(marksDisk) /\ ReadingTrue

LEMMA RiskStart == ASSUME RiskInit PROVE RiskInv
<1>1. marksGv \in Marks /\ account \in Accounts
  BY RiskAssumption DEF RiskInit, Marks, Accounts
<1>2. marksDisk = marksGv /\ marksGv.resetDay = 0 /\ marksGv.expo = 0 /\ today = 1
  BY DEF RiskInit
<1>3. /\ riskPast \in [stop : BOOLEAN, held : Nat, unread : BOOLEAN]
      /\ ~riskPast.stop /\ riskPast.held = 0
  BY DEF RiskInit
<1>4. reading \in [valid : BOOLEAN, value : Int] /\ ~reading.valid
  BY DEF RiskInit, NoReading
<1>5. RiskBars \in Nat /\ RiskTrouble \in Nat /\ ExpoLimit \in Nat
  BY RiskAssumption
<1>6. riskLeft \in [bars : Nat, trouble : Nat]
  BY <1>5 DEF RiskInit
<1>7. holding \in BOOLEAN /\ untold \in Nat /\ expoLimit \in {0, ExpoLimit}
  BY DEF RiskInit
<1>8. RiskKinds
  BY <1>1, <1>2, <1>3, <1>4, <1>6, <1>7 DEF RiskKinds
<1>. QED
  BY <1>2, <1>3, <1>4, <1>8 DEF RiskInv, MarksKnow, ReadingTrue

\* The numbers of the account and of a reading are integers.
LEMMA RiskNumbers ==
  ASSUME RiskKinds
  PROVE  /\ Equity \in Int /\ account.balance \in Int /\ account.realized \in Int
         /\ reading.value \in Int /\ Readings \subseteq Int
<1>1. /\ account.balance \in Int /\ account.floating \in Int /\ account.realized \in Int
      /\ reading.value \in Int
  BY DEF RiskKinds, Accounts
<1>. QED BY <1>1 DEF Equity, Readings

\* What the EA reads is the truth unless the scan fails, which the history notes.
LEMMA ReadsTruth ==
  ASSUME RiskInv, NEW now \in Readings, OwnMagic, untold = 0, ~Missed(now)
  PROVE  now = account.realized
<1>1. PICK scanned \in Scans : TodayRealized(now, scanned)
  BY DEF Readings
<1>2. CASE reading.valid
  BY <1>1, <1>2 DEF RiskInv, ReadingTrue, TodayRealized, Missed
<1>3. CASE ~reading.valid
  BY <1>3 DEF Missed
<1>. QED BY <1>2, <1>3

\* A heartbeat and an entry take a reading and note what was missed.
LEMMA ReadSafe ==
  ASSUME RiskInv, NEW now \in Readings, Read(now), Noted(now), holding' \in BOOLEAN,
         UNCHANGED <<account, untold, marksGv, marksDisk, expoLimit, today, riskLeft>>
  PROVE  RiskInv'
<1>. USE DEF RiskInv
<1>1. /\ reading' \in [valid : BOOLEAN, value : Int] /\ reading'.value = now
      /\ riskPast' \in [stop : BOOLEAN, held : Nat, unread : BOOLEAN]
      /\ riskPast'.stop = riskPast.stop /\ riskPast'.held = riskPast.held
      /\ riskPast'.unread <=> Missed(now)
  <2>1. now \in Int
    BY RiskNumbers
  <2>2. Missed(now) \in BOOLEAN
    BY DEF Missed, RiskKinds
  <2>. QED BY <2>1, <2>2 DEF Read, Noted, RiskKinds
<1>2. RiskKinds'
  BY <1>1 DEF RiskKinds
<1>3. ReadingTrue'
  BY <1>1, ReadsTruth DEF ReadingTrue
<1>. QED BY <1>1, <1>2, <1>3 DEF MarksKnow

LEMMA BarSafe == ASSUME RiskInv, NEW midnight \in BOOLEAN, OnBarUpdate(midnight) PROVE RiskInv'
<1>. USE DEF RiskInv
<1>. DEFINE hwm == MaxOf(marksGv.hwm, Equity)
            falls == hwm > 0 /\ 100 * Equity <= hwm * (100 - DrawdownPct)
            used == IF midnight THEN 0 ELSE marksGv.expo
            expo == IF expoLimit = 0 THEN 0 ELSE IF holding THEN used + 1 ELSE used
            before == IF midnight THEN 0 ELSE riskPast.held
            held == IF expoLimit = 0 THEN 0 ELSE before + (IF holding THEN 1 ELSE 0)
<1>1. /\ riskLeft.bars > 0 /\ riskLeft' = [riskLeft EXCEPT !.bars = @ - 1]
      /\ today' = (IF midnight THEN today + 1 ELSE today)
      /\ account' = (IF midnight THEN [account EXCEPT !.realized = 0] ELSE account)
      /\ marksGv' = [marksGv EXCEPT !.hwm = hwm, !.kill = @ \/ falls, !.expo = expo]
      /\ riskPast' = [stop |-> riskPast.stop \/ falls, unread |-> FALSE, held |-> held]
      /\ marksDisk' = marksGv' /\ reading' = NoReading
      /\ UNCHANGED <<holding, untold, expoLimit>>
  BY DEF OnBarUpdate, Flush
<1>2. hwm \in Int /\ falls \in BOOLEAN
  BY RiskNumbers DEF MaxOf, RiskKinds, Marks
<1>3. expo \in Nat /\ held \in Nat /\ held <= expo
  BY DEF RiskKinds, Marks, MarksKnow
<1>. HIDE DEF hwm, falls, expo, held
<1>4. /\ marksGv' \in Marks /\ marksGv'.resetDay = marksGv.resetDay /\ marksGv'.expo = expo
      /\ marksGv'.kill <=> marksGv.kill \/ falls
  BY <1>1, <1>2, <1>3 DEF RiskKinds, Marks
<1>5. /\ riskPast' \in [stop : BOOLEAN, held : Nat, unread : BOOLEAN]
      /\ riskPast'.held = held /\ (riskPast'.stop <=> riskPast.stop \/ falls)
  BY <1>1, <1>2, <1>3 DEF RiskKinds
<1>6. account' \in Accounts
  BY <1>1 DEF RiskKinds, Accounts
<1>7. riskLeft' \in [bars : Nat, trouble : Nat]
  BY <1>1 DEF RiskKinds
<1>8. today' \in Nat /\ marksGv'.resetDay <= today'
  BY <1>1, <1>4 DEF RiskKinds, Marks
<1>9. reading' \in [valid : BOOLEAN, value : Int] /\ ~reading'.valid
  BY <1>1 DEF NoReading
<1>10. RiskKinds'
  BY <1>1, <1>4, <1>5, <1>6, <1>7, <1>8, <1>9 DEF RiskKinds
<1>. QED BY <1>1, <1>3, <1>4, <1>5, <1>9, <1>10 DEF MarksKnow, ReadingTrue

\* The market and the broker: a closing deal is untold until its transaction.
LEMMA BrokerSafe ==
  ASSUME RiskInv, (\E move \in EquityMoves : Drift(move)) \/ DealCloses \/ OnTransaction
  PROVE  RiskInv'
<1>. USE DEF RiskInv
<1>1. ASSUME NEW move \in EquityMoves, Drift(move) PROVE RiskInv'
  <2>1. /\ riskLeft' = [riskLeft EXCEPT !.trouble = @ - 1] /\ riskLeft.trouble > 0
        /\ account' = [account EXCEPT !.floating = @ + move]
        /\ UNCHANGED <<holding, untold, marksGv, marksDisk, reading, expoLimit, today, riskPast>>
    BY <1>1 DEF Drift, Trouble
  <2>2. account' \in Accounts /\ account'.realized = account.realized
    BY <2>1, RiskAssumption DEF RiskKinds, Accounts
  <2>3. riskLeft' \in [bars : Nat, trouble : Nat]
    BY <2>1 DEF RiskKinds
  <2>. QED BY <2>1, <2>2, <2>3 DEF RiskKinds, MarksKnow, ReadingTrue
<1>2. ASSUME DealCloses PROVE RiskInv'
  <2>1. /\ holding' = FALSE /\ untold' = untold + 1
        /\ account' = [balance |-> Equity, floating |-> 0,
                       realized |-> account.realized + account.floating]
        /\ UNCHANGED <<marksGv, marksDisk, reading, expoLimit, today, riskPast, riskLeft>>
    BY <1>2 DEF DealCloses
  <2>2. account' \in Accounts
    BY <2>1, RiskNumbers DEF RiskKinds, Accounts
  <2>3. untold' \in Nat /\ untold' # 0
    BY <2>1 DEF RiskKinds
  <2>. QED BY <2>1, <2>2, <2>3 DEF RiskKinds, MarksKnow, ReadingTrue
<1>3. ASSUME OnTransaction PROVE RiskInv'
  <2>1. /\ untold > 0 /\ untold' = untold - 1
        /\ reading' = (IF OwnMagic THEN NoReading ELSE reading)
        /\ UNCHANGED <<account, holding, marksGv, marksDisk, expoLimit, today, riskPast, riskLeft>>
    BY <1>3 DEF OnTransaction
  <2>2. untold' \in Nat /\ reading' \in [valid : BOOLEAN, value : Int]
    BY <2>1 DEF RiskKinds, NoReading
  <2>3. OwnMagic => ~reading'.valid
    BY <2>1 DEF NoReading
  <2>. QED BY <2>1, <2>2, <2>3 DEF RiskKinds, MarksKnow, ReadingTrue
<1>. QED BY <1>1, <1>2, <1>3

LEMMA ResetSafe == ASSUME RiskInv, ResetDailyBrake PROVE RiskInv'
<1>. USE DEF RiskInv
<1>1. PICK scanned \in Scans :
        LET now == IF scanned THEN account.realized ELSE 0
        IN /\ marksGv' = [marksGv EXCEPT !.base = now, !.resetDay = today]
           /\ Read(now)
           /\ riskPast' = [riskPast EXCEPT !.unread = now # account.realized]
  BY DEF ResetDailyBrake
<1>. DEFINE now == IF scanned THEN account.realized ELSE 0
<1>2. /\ marksGv' = [marksGv EXCEPT !.base = now, !.resetDay = today]
      /\ reading' = [valid |-> TRUE, value |-> now]
      /\ riskPast' = [riskPast EXCEPT !.unread = now # account.realized]
      /\ marksDisk' = marksGv'
      /\ riskLeft' = [riskLeft EXCEPT !.trouble = @ - 1] /\ riskLeft.trouble > 0
      /\ UNCHANGED <<account, holding, untold, expoLimit, today>>
  BY <1>1 DEF ResetDailyBrake, Read, Flush, Trouble
<1>3. now \in Int
  BY RiskNumbers
<1>. HIDE DEF now
<1>4. /\ marksGv' \in Marks /\ marksGv'.resetDay = today
      /\ marksGv'.kill = marksGv.kill /\ marksGv'.expo = marksGv.expo
  BY <1>2, <1>3 DEF RiskKinds, Marks
<1>5. /\ riskPast' \in [stop : BOOLEAN, held : Nat, unread : BOOLEAN]
      /\ riskPast'.stop = riskPast.stop /\ riskPast'.held = riskPast.held
      /\ riskPast'.unread <=> now # account.realized
  BY <1>2 DEF RiskKinds
<1>6. riskLeft' \in [bars : Nat, trouble : Nat]
  BY <1>2 DEF RiskKinds
<1>7. reading' \in [valid : BOOLEAN, value : Int] /\ reading'.value = now
  BY <1>2, <1>3
<1>8. RiskKinds'
  BY <1>2, <1>4, <1>5, <1>6, <1>7 DEF RiskKinds
<1>. QED BY <1>2, <1>4, <1>5, <1>7, <1>8 DEF MarksKnow, ReadingTrue

LEMMA ConfigSafe == ASSUME RiskInv, ApplyRuntimeConfig PROVE RiskInv'
<1>. USE DEF RiskInv
<1>1. /\ riskLeft' = [riskLeft EXCEPT !.trouble = @ - 1] /\ riskLeft.trouble > 0
      /\ expoLimit' = (IF expoLimit = 0 THEN ExpoLimit ELSE 0)
      /\ marksGv' = (IF expoLimit' = 0 THEN [marksGv EXCEPT !.expo = 0] ELSE marksGv)
      /\ riskPast' = [riskPast EXCEPT !.held = IF expoLimit' = 0 THEN 0 ELSE @]
      /\ UNCHANGED <<account, holding, untold, marksDisk, reading, today>>
  BY DEF ApplyRuntimeConfig, Trouble
<1>2. /\ marksGv' \in Marks /\ marksGv'.resetDay = marksGv.resetDay
      /\ marksGv'.kill = marksGv.kill
      /\ marksGv'.expo = IF expoLimit' = 0 THEN 0 ELSE marksGv.expo
  BY <1>1 DEF RiskKinds, Marks
<1>3. /\ riskPast' \in [stop : BOOLEAN, held : Nat, unread : BOOLEAN]
      /\ riskPast'.stop = riskPast.stop /\ riskPast'.unread = riskPast.unread
      /\ riskPast'.held = IF expoLimit' = 0 THEN 0 ELSE riskPast.held
  BY <1>1 DEF RiskKinds
<1>4. riskLeft' \in [bars : Nat, trouble : Nat]
  BY <1>1 DEF RiskKinds
<1>5. RiskKinds'
  BY <1>1, <1>2, <1>3, <1>4 DEF RiskKinds
<1>6. marksDisk.expo \in Nat
  BY DEF RiskKinds, Marks
<1>. QED BY <1>1, <1>2, <1>3, <1>5, <1>6 DEF MarksKnow, ReadingTrue

LEMMA MaintenanceSafe == ASSUME RiskInv, Maintenance PROVE RiskInv'
<1>. USE DEF RiskInv
<1>1. /\ riskLeft' = [riskLeft EXCEPT !.trouble = @ - 1] /\ riskLeft.trouble > 0
      /\ marksGv' = [marksGv EXCEPT !.kill = FALSE, !.hwm = Equity]
      /\ riskPast' = [riskPast EXCEPT !.stop = FALSE]
      /\ UNCHANGED <<account, holding, untold, marksDisk, reading, expoLimit, today>>
  BY DEF Maintenance, Trouble
<1>2. marksGv' \in Marks /\ marksGv'.resetDay = marksGv.resetDay /\ marksGv'.expo = marksGv.expo
  BY <1>1, RiskNumbers DEF RiskKinds, Marks
<1>3. /\ riskPast' \in [stop : BOOLEAN, held : Nat, unread : BOOLEAN] /\ ~riskPast'.stop
      /\ riskPast'.unread = riskPast.unread /\ riskPast'.held = riskPast.held
  BY <1>1 DEF RiskKinds
<1>4. riskLeft' \in [bars : Nat, trouble : Nat]
  BY <1>1 DEF RiskKinds
<1>. QED BY <1>1, <1>2, <1>3, <1>4 DEF RiskKinds, MarksKnow, ReadingTrue

LEMMA RestartSafe == ASSUME RiskInv, NEW hard \in BOOLEAN, RiskRestart(hard) PROVE RiskInv'
<1>. USE DEF RiskInv
<1>1. /\ riskLeft' = [riskLeft EXCEPT !.trouble = @ - 1] /\ riskLeft.trouble > 0
      /\ marksGv' \in {marksGv, marksDisk} /\ marksDisk' = marksGv'
      /\ reading' = NoReading /\ untold' = 0 /\ expoLimit' = ExpoLimit
      /\ riskPast' = [riskPast EXCEPT !.unread = FALSE]
      /\ UNCHANGED <<account, holding, today>>
  BY DEF RiskRestart, Trouble
<1>2. /\ riskPast' \in [stop : BOOLEAN, held : Nat, unread : BOOLEAN]
      /\ riskPast'.stop = riskPast.stop /\ riskPast'.held = riskPast.held
  BY <1>1 DEF RiskKinds
<1>3. riskLeft' \in [bars : Nat, trouble : Nat]
  BY <1>1 DEF RiskKinds
<1>4. reading' \in [valid : BOOLEAN, value : Int] /\ ~reading'.valid
  BY <1>1 DEF NoReading
<1>. QED BY <1>1, <1>2, <1>3, <1>4 DEF RiskKinds, MarksKnow, ReadingTrue

LEMMA RiskStep == ASSUME RiskInv, [RiskNext]_riskVars PROVE RiskInv'
<1>1. CASE Heartbeat
  <2>1. PICK now \in Readings : Read(now) /\ Noted(now)
    BY <1>1 DEF Heartbeat
  <2>2. holding' \in BOOLEAN
    BY <1>1 DEF Heartbeat, RiskInv, RiskKinds
  <2>. QED BY <1>1, <2>1, <2>2, ReadSafe DEF Heartbeat
<1>2. CASE EntryOpens
  <2>1. PICK now \in Readings : Read(now) /\ Noted(now)
    BY <1>2 DEF EntryOpens
  <2>. QED BY <1>2, <2>1, ReadSafe DEF EntryOpens
<1>3. CASE UNCHANGED riskVars
  BY <1>3 DEF riskVars, RiskInv, RiskKinds, MarksKnow, ReadingTrue
<1>. QED
  BY <1>1, <1>2, <1>3, BarSafe, BrokerSafe, ResetSafe, ConfigSafe, MaintenanceSafe, RestartSafe
     DEF RiskNext

\* Only an entry opens a position.
LEMMA EntersBy == ASSUME [RiskNext]_riskVars, Entering PROVE EntryOpens
BY DEF RiskNext, riskVars, Entering, OnBarUpdate, Drift, DealCloses, OnTransaction, Heartbeat,
       ResetDailyBrake, ApplyRuntimeConfig, Maintenance, RiskRestart

\* The marks of the terminal and of its disk know every bar that tripped the kill
\* switch or held a position (OnBarUpdate flushes them), and a reading that is kept
\* is the loss of the day (TodayRealized and the events that drop it).
THEOREM RiskSafe == RiskSpec => []RiskInv
BY RiskStart, RiskStep, PTL DEF RiskSpec

\* Neither a clean nor a hard restart, at any moment, brings back an entry that
\* the kill switch or the exposure of the day forbids (CanEnter, OnBarUpdate and
\* the flushes of RiskManager.mqh).
THEOREM LimitsHold == RiskSpec => LimitsSurvive
<1>1. ASSUME RiskInv, [RiskNext]_riskVars, Entering
      PROVE  ~riskPast.stop /\ (expoLimit = 0 \/ riskPast.held < expoLimit)
  <2>1. PICK now \in Readings : CanEnter(now)
    BY <1>1, EntersBy DEF EntryOpens
  <2>2. ~marksGv.kill /\ ~(expoLimit > 0 /\ marksGv.expo >= expoLimit)
    BY <2>1 DEF CanEnter, ExposureSpent
  <2>. QED BY <1>1, <2>2, RiskAssumption DEF RiskInv, RiskKinds, MarksKnow, Marks
<1>2. RiskInv /\ [RiskNext]_riskVars =>
        [Entering => ~riskPast.stop /\ (expoLimit = 0 \/ riskPast.held < expoLimit)]_riskVars
  BY <1>1
<1>. QED BY <1>2, RiskSafe, PTL DEF RiskSpec, LimitsSurvive

\* No entry is made at or beyond the limit of the loss of the day, but in the
\* cases the property names (DailyLossBreached and OnTradeTransaction).
THEOREM BrakeHolds == RiskSpec => BrakeBoundsLoss
<1>1. ASSUME RiskInv, [RiskNext]_riskVars, Entering, OwnMagic, untold = 0, ~riskPast'.unread
      PROVE  ~DailyLossBreached(account.realized)
  <2>1. PICK now \in Readings : CanEnter(now) /\ Noted(now)
    BY <1>1, EntersBy DEF EntryOpens
  <2>2. ~Missed(now)
    BY <1>1, <2>1 DEF Noted, RiskInv, RiskKinds
  <2>3. now = account.realized
    BY <1>1, <2>2, ReadsTruth
  <2>. QED BY <2>1, <2>3 DEF CanEnter
<1>2. RiskInv /\ [RiskNext]_riskVars =>
        [Entering /\ OwnMagic /\ untold = 0 /\ ~riskPast'.unread
           => ~DailyLossBreached(account.realized)]_riskVars
  BY <1>1
<1>. QED BY <1>2, RiskSafe, PTL DEF RiskSpec, BrakeBoundsLoss

-----------------------------------------------------------------------------
(* The legs that are kept                                                  *)

\* The elements of `new` are elements of `old` up to the m-th, in their order.
Picks(new, old, m) ==
    \E at \in [1..Len(new) -> 1..m] :
        /\ \A i \in 1..Len(new) : new[i] = old[at[i]]
        /\ \A i, j \in 1..Len(new) : i < j => at[i] < at[j]

LEMMA PicksOneMore ==
  ASSUME NEW L, NEW new \in Seq(L), NEW old, NEW m \in Nat \ {0}, Picks(new, old, m - 1)
  PROVE  Picks(new, old, m) /\ Picks(Append(new, old[m]), old, m)
<1>. DEFINE n == Len(new)
            longer == Append(new, old[m])
<1>1. PICK at \in [1..n -> 1..(m - 1)] :
          /\ \A i \in 1..n : new[i] = old[at[i]]
          /\ \A i, j \in 1..n : i < j => at[i] < at[j]
  BY DEF Picks
<1>2. n \in Nat /\ Len(longer) = n + 1 /\ longer[n + 1] = old[m]
      /\ \A i \in 1..n : longer[i] = new[i]
  BY AppendProperties, LenProperties
<1>3. Picks(new, old, m)
  <2>1. at \in [1..n -> 1..m]
    OBVIOUS
  <2>. QED BY <1>1, <2>1 DEF Picks
<1>. DEFINE to == [i \in 1..(n + 1) |-> IF i = n + 1 THEN m ELSE at[i]]
<1>. HIDE DEF n, longer
<1>4. \A i \in 1..(n + 1) : i # n + 1 => i \in 1..n
  BY <1>2
<1>5. to \in [1..(n + 1) -> 1..m]
  BY <1>1, <1>2, <1>4
<1>6. \A i \in 1..(n + 1) : longer[i] = old[to[i]]
  BY <1>1, <1>2, <1>4
<1>7. ASSUME NEW i \in 1..(n + 1), NEW j \in 1..(n + 1), i < j PROVE to[i] < to[j]
  <2>1. i \in 1..n /\ to[i] = at[i] /\ at[i] < m
    BY <1>1, <1>2, <1>7
  <2>2. CASE j = n + 1
    BY <2>1, <2>2
  <2>3. CASE j # n + 1
    BY <1>1, <1>4, <1>7, <2>1, <2>3
  <2>. QED BY <2>2, <2>3
<1>. HIDE DEF to
<1>8. Picks(longer, old, m)
  BY <1>2, <1>5, <1>6, <1>7 DEF Picks
<1>. QED BY <1>3, <1>8 DEF longer

LEMMA KeptLegs ==
  ASSUME NEW L, NEW ls \in Seq(L), NEW numbers
  PROVE  /\ Kept(ls, numbers) \in Seq(L) /\ Len(Kept(ls, numbers)) <= Len(ls)
         /\ Picks(Kept(ls, numbers), ls, Len(ls))
         /\ \A i \in 1..Len(Kept(ls, numbers)) : Kept(ls, numbers)[i].n \in numbers
         /\ ls # <<>> /\ ls[1].n \in numbers => Kept(ls, numbers) # <<>>
<1>. DEFINE n == Len(ls)
            Grown(q, k) == IF ls[k].n \in numbers THEN Append(q, ls[k]) ELSE q
            Is(f) == f = [k \in 0..n |-> IF k = 0 THEN <<>> ELSE Grown(f[k - 1], k)]
            step == [k \in 1..n |-> [q \in Seq(L) |-> Grown(q, k)]]
            left == CHOOSE f : Is(f)
<1>1. n \in Nat /\ \A k \in 1..n : ls[k] \in L
  BY ElementOfSeq, LenProperties
<1>2. step \in [1..n -> [Seq(L) -> Seq(L)]] /\ <<>> \in Seq(L)
  BY <1>1, AppendProperties, EmptySeq
<1>3. PICK f \in [0..n -> Seq(L)] : Recurs(f, n, <<>>, step)
  <2>. HIDE DEF n, step
  <2>. QED BY <1>1, <1>2, Recursion
<1>4. Is(f)
  <2>1. \A k \in 1..n : k - 1 \in 0..n
    BY <1>1
  <2>. HIDE DEF Grown
  <2>2. \A k \in 1..n : f[k] = Grown(f[k - 1], k)
    BY <1>3, <2>1 DEF Recurs
  <2>3. f[0] = <<>>
    BY <1>3 DEF Recurs
  <2>. QED BY <1>1, <1>3, <2>2, <2>3
<1>. HIDE DEF Is
<1>5. Is(left)
  BY <1>4
<1>6. Kept(ls, numbers) = left[n]
  BY DEF Kept, Is
<1>. HIDE DEF left
<1>7. left[0] = <<>> /\ \A k \in 1..n : left[k] = Grown(left[k - 1], k)
  <2>. HIDE DEF Grown
  <2>1. left = [k \in 0..n |-> IF k = 0 THEN <<>> ELSE Grown(left[k - 1], k)]
    BY <1>5 DEF Is
  <2>. HIDE DEF n
  <2>. QED BY <1>1, <2>1
<1>. DEFINE Right(k) == /\ left[k] \in Seq(L) /\ Len(left[k]) <= k
                        /\ Picks(left[k], ls, k)
                        /\ \A i \in 1..Len(left[k]) : left[k][i].n \in numbers
                        /\ k >= 1 /\ ls[1].n \in numbers => Len(left[k]) >= 1
            S == {k \in 0..n : Right(k)}
<1>8. Right(0)
  <2>1. Picks(<<>>, ls, 0)
    <3>1. <<>> \in [1..0 -> 1..0] /\ Len(<<>>) = 0 /\ 1..0 = {}
      OBVIOUS
    <3>. QED BY <3>1 DEF Picks
  <2>. QED BY <1>7, <2>1
<1>9. ASSUME NEW k \in 1..n, Right(k - 1) PROVE Right(k)
  <2>1. Picks(left[k - 1], ls, k) /\ Picks(Append(left[k - 1], ls[k]), ls, k)
    BY <1>9, PicksOneMore
  <2>2. ls[k] \in L /\ Len(left[k - 1]) \in Nat
    BY <1>1, <1>9, LenProperties
  <2>3. Append(left[k - 1], ls[k]) \in Seq(L)
        /\ Len(Append(left[k - 1], ls[k])) = Len(left[k - 1]) + 1
        /\ Append(left[k - 1], ls[k])[Len(left[k - 1]) + 1] = ls[k]
        /\ \A i \in 1..Len(left[k - 1]) : Append(left[k - 1], ls[k])[i] = left[k - 1][i]
    BY <1>9, <2>2, AppendProperties
  <2>4. \/ left[k] = Append(left[k - 1], ls[k]) /\ ls[k].n \in numbers
        \/ left[k] = left[k - 1] /\ ls[k].n \notin numbers
    BY <1>7
  <2>. HIDE DEF Grown, step, n
  <2>5. CASE left[k] = Append(left[k - 1], ls[k]) /\ ls[k].n \in numbers
    <3>1. \A i \in 1..Len(left[k]) : i = Len(left[k - 1]) + 1 \/ i \in 1..Len(left[k - 1])
      BY <2>2, <2>3, <2>5
    <3>2. \A i \in 1..Len(left[k]) : left[k][i].n \in numbers
      BY <1>9, <2>3, <2>5, <3>1
    <3>3. left[k] \in Seq(L) /\ Len(left[k]) = Len(left[k - 1]) + 1 /\ Picks(left[k], ls, k)
      BY <2>1, <2>3, <2>5
    <3>4. Len(left[k]) <= k /\ Len(left[k]) >= 1
      BY <1>1, <1>9, <2>2, <3>3
    <3>. QED BY <3>2, <3>3, <3>4
  <2>6. CASE left[k] = left[k - 1] /\ ls[k].n \notin numbers
    <3>1. Len(left[k]) <= k
      BY <1>1, <1>9, <2>2, <2>6
    <3>2. left[k] \in Seq(L) /\ Picks(left[k], ls, k)
          /\ \A i \in 1..Len(left[k]) : left[k][i].n \in numbers
      BY <1>9, <2>1, <2>6
    <3>3. k >= 1 /\ ls[1].n \in numbers => Len(left[k]) >= 1
      <4>1. k # 1 \/ ls[1].n \notin numbers
        BY <2>6
      <4>2. k - 1 >= 1 \/ k = 1
        BY <1>1
      <4>. QED BY <1>9, <2>6, <4>1, <4>2
    <3>. QED BY <3>1, <3>2, <3>3
  <2>. QED BY <2>4, <2>5, <2>6
<1>. HIDE DEF Right
<1>10. 0..n \subseteq S
  <2>1. 0 \in S
    BY <1>1, <1>8
  <2>2. \A k \in 1..n : k - 1 \in S => k \in S
    BY <1>9
  <2>. HIDE DEF S, n
  <2>. QED BY <1>1, <2>1, <2>2, UpTo
<1>11. Right(n)
  BY <1>1, <1>10
<1>12. ls # <<>> => n >= 1
  BY <1>1, EmptySeq
<1>. QED BY <1>6, <1>11, <1>12 DEF Right

-----------------------------------------------------------------------------
(* What is left of a basket                                                *)

Sides == {"BUY", "SELL"}
Leg == [n : Nat \ {0}, dir : Sides, open : Nat \ {0}, lots : Nat \ {0}, sl : Int]
Ordered(ls) == \A i, j \in 1..Len(ls) : i < j => ls[i].n < ls[j].n

\* Every leg of `new` is a leg of `old`, perhaps with another stop or smaller;
\* a stop of the oldest one that has reached its entry has not fallen behind.
Stays(new, old) ==
    /\ new \in Seq(Leg) /\ Ordered(new) /\ Len(new) <= Len(old)
    /\ \A k \in 1..Len(new) : \E j \in 1..Len(old) :
          /\ new[k].n = old[j].n /\ new[k].dir = old[j].dir /\ new[k].open = old[j].open
          /\ j = 1 /\ RiskFree(old[1]) => RiskFree(new[k])

LEMMA StaysLonger ==
  ASSUME NEW a \in Seq(Leg), Ordered(a), NEW b, Stays(b, a), NEW c, Stays(c, b)
  PROVE  Stays(c, a)
<1>1. /\ b \in Seq(Leg) /\ c \in Seq(Leg) /\ Len(a) \in Nat /\ Len(b) \in Nat /\ Len(c) \in Nat
      /\ Len(c) <= Len(a)
  BY LenProperties DEF Stays
<1>2. /\ \A k \in 1..Len(a) : a[k].n \in Nat
      /\ \A k \in 1..Len(b) : b[k].n \in Nat
  <2>1. (\A k \in 1..Len(a) : a[k] \in Leg) /\ (\A k \in 1..Len(b) : b[k] \in Leg)
    BY <1>1, ElementOfSeq
  <2>. QED BY <2>1 DEF Leg
<1>3. ASSUME NEW k \in 1..Len(c)
      PROVE  \E j \in 1..Len(a) :
                 /\ c[k].n = a[j].n /\ c[k].dir = a[j].dir /\ c[k].open = a[j].open
                 /\ j = 1 /\ RiskFree(a[1]) => RiskFree(c[k])
  <2>1. PICK i \in 1..Len(b) :
            /\ c[k].n = b[i].n /\ c[k].dir = b[i].dir /\ c[k].open = b[i].open
            /\ i = 1 /\ RiskFree(b[1]) => RiskFree(c[k])
    BY DEF Stays
  <2>2. PICK j \in 1..Len(a) :
            /\ b[i].n = a[j].n /\ b[i].dir = a[j].dir /\ b[i].open = a[j].open
            /\ j = 1 /\ RiskFree(a[1]) => RiskFree(b[i])
    BY DEF Stays
  <2>3. ASSUME j = 1 PROVE i = 1
    <3>1. 1 \in 1..Len(b) /\ 1 \in 1..Len(a)
      BY <1>1
    <3>2. PICK m \in 1..Len(a) : b[1].n = a[m].n
      BY <3>1 DEF Stays
    <3>3. a[1].n <= a[m].n
      BY <1>1, <1>2, <3>1 DEF Ordered
    <3>4. ASSUME i # 1 PROVE b[1].n < b[i].n
      <4>1. 1 < i
        BY <1>1, <3>4
      <4>2. Ordered(b)
        BY DEF Stays
      <4>. QED BY <3>1, <4>1, <4>2 DEF Ordered
    <3>. QED BY <1>2, <2>2, <2>3, <3>1, <3>2, <3>3, <3>4
  <2>. QED BY <2>1, <2>2, <2>3
<1>. QED BY <1>1, <1>3 DEF Stays

LEMMA KeptStays ==
  ASSUME NEW ls \in Seq(Leg), Ordered(ls), NEW numbers
  PROVE  /\ Stays(Kept(ls, numbers), ls)
         /\ \A i \in 1..Len(Kept(ls, numbers)) : Kept(ls, numbers)[i].n \in numbers
         /\ ls # <<>> /\ ls[1].n \in numbers => Kept(ls, numbers) # <<>>
         /\ \A i \in 1..Len(Kept(ls, numbers)) :
               \E j \in 1..Len(ls) : Kept(ls, numbers)[i] = ls[j]
<1>. DEFINE new == Kept(ls, numbers)
<1>1. /\ new \in Seq(Leg) /\ Len(new) <= Len(ls) /\ Picks(new, ls, Len(ls))
      /\ \A i \in 1..Len(new) : new[i].n \in numbers
      /\ ls # <<>> /\ ls[1].n \in numbers => new # <<>>
  BY KeptLegs
<1>. HIDE DEF new
<1>2. PICK at \in [1..Len(new) -> 1..Len(ls)] :
          /\ \A i \in 1..Len(new) : new[i] = ls[at[i]]
          /\ \A i, j \in 1..Len(new) : i < j => at[i] < at[j]
  BY <1>1 DEF Picks
<1>3. Ordered(new)
  BY <1>2 DEF Ordered
<1>4. Stays(new, ls)
  <2>1. \A k \in 1..Len(new) : \E j \in 1..Len(ls) : new[k] = ls[j] /\ (j = 1 => new[k] = ls[1])
    BY <1>2
  <2>. QED BY <1>1, <1>3, <2>1 DEF Stays
<1>. QED BY <1>1, <1>2, <1>4 DEF new

\* The same legs with other stops or sizes.
LEMMA SameLegs ==
  ASSUME NEW ls \in Seq(Leg), Ordered(ls), NEW new \in Seq(Leg), Len(new) = Len(ls),
         \A k \in 1..Len(ls) : new[k].n = ls[k].n /\ new[k].dir = ls[k].dir
                               /\ new[k].open = ls[k].open,
         ls # <<>> /\ RiskFree(ls[1]) => RiskFree(new[1])
  PROVE  Stays(new, ls)
<1>1. Ordered(new)
  BY DEF Ordered
<1>2. \A k \in 1..Len(ls) : ls # <<>>
  BY LenProperties
<1>. QED BY <1>1, <1>2, LenProperties DEF Stays

LEMMA StaysSelf == ASSUME NEW ls \in Seq(Leg), Ordered(ls) PROVE Stays(ls, ls)
BY SameLegs

-----------------------------------------------------------------------------
(* Stops                                                                   *)

LEMMA LegParts ==
  ASSUME NEW ls \in Seq(Leg), NEW k \in 1..Len(ls)
  PROVE  /\ ls[k] \in Leg /\ ls[k].n \in Nat \ {0} /\ ls[k].dir \in Sides
         /\ ls[k].open \in Nat \ {0} /\ ls[k].lots \in Nat \ {0} /\ ls[k].sl \in Int
<1>1. ls[k] \in Leg
  BY ElementOfSeq
<1>. QED BY <1>1 DEF Leg

LEMMA Restop ==
  ASSUME NEW l \in Leg, NEW stop \in Int
  PROVE  LET m == [l EXCEPT !.sl = stop]
         IN m \in Leg /\ m.n = l.n /\ m.dir = l.dir /\ m.open = l.open
BY DEF Leg

\* A stop at the entry or beyond it takes the risk off a leg.
LEMMA AtEntry ==
  ASSUME px \in Nat \ {0}, NEW l \in Leg, NEW stop \in Int, NEW deaf, Accepts(l, stop, deaf),
         (stop - l.open) * Toward(l.dir) >= 0
  PROVE  [l EXCEPT !.sl = stop] \in Leg /\ RiskFree([l EXCEPT !.sl = stop])
<1>1. l.open \in Nat \ {0} /\ l.dir \in Sides
  BY DEF Leg
<1>2. [l EXCEPT !.sl = stop] \in Leg
  BY DEF Leg
<1>3. /\ [l EXCEPT !.sl = stop].sl = stop /\ [l EXCEPT !.sl = stop].dir = l.dir
      /\ [l EXCEPT !.sl = stop].open = l.open
  BY DEF Leg
<1>4. stop # 0 /\ ~IsTighter(l.dir, l.open, stop)
  <2>1. CASE l.dir = "BUY"
    BY <1>1, <2>1 DEF Accepts, Toward, IsTighter
  <2>2. CASE l.dir = "SELL"
    BY <1>1, <2>2 DEF Accepts, Toward, IsTighter
  <2>. QED BY <1>1, <2>1, <2>2 DEF Sides
<1>. QED BY <1>2, <1>3, <1>4 DEF RiskFree

\* So does a stop that is tighter than one that did.
LEMMA TighterKeeps ==
  ASSUME px \in Nat \ {0}, NEW l \in Leg, RiskFree(l), NEW stop \in Int, NEW deaf,
         Accepts(l, stop, deaf), IsTighter(l.dir, stop, l.sl)
  PROVE  RiskFree([l EXCEPT !.sl = stop])
<1>1. l.open \in Nat \ {0} /\ l.dir \in Sides /\ l.sl \in Int
  BY DEF Leg
<1>2. (stop - l.open) * Toward(l.dir) >= 0
  <2>1. CASE l.dir = "BUY"
    BY <1>1, <2>1 DEF RiskFree, Toward, IsTighter
  <2>2. CASE l.dir = "SELL"
    BY <1>1, <2>2 DEF RiskFree, Toward, IsTighter
  <2>. QED BY <1>1, <2>1, <2>2 DEF Sides
<1>. QED BY <1>2, AtEntry

LEMMA RestoppedStays ==
  ASSUME px \in Nat \ {0}, NEW ls \in Seq(Leg), Ordered(ls), NEW which, NEW deaf, NEW stop,
         ls # <<>> => stop \in Int,
         ls # <<>> /\ ls[1].n \in which /\ RiskFree(ls[1]) /\ Accepts(ls[1], stop, deaf)
             => RiskFree([ls[1] EXCEPT !.sl = stop])
  PROVE  /\ Stays(Restopped(ls, which, stop, deaf), ls)
         /\ Len(Restopped(ls, which, stop, deaf)) = Len(ls)
<1>. DEFINE new == Restopped(ls, which, stop, deaf)
<1>1. Len(ls) \in Nat /\ DOMAIN ls = 1..Len(ls) /\ (1..Len(ls) # {} => ls # <<>>)
      /\ (ls # <<>> => 1 \in 1..Len(ls))
  BY LenProperties, EmptySeq
<1>2. \A k \in 1..Len(ls) : ls[k] \in Leg /\ stop \in Int
  BY <1>1, LegParts
<1>3. \A k \in 1..Len(ls) : \/ new[k] = ls[k]
                            \/ new[k] = [ls[k] EXCEPT !.sl = stop] /\ ls[k].n \in which
                               /\ Accepts(ls[k], stop, deaf)
  BY <1>1 DEF Restopped
<1>4. \A k \in 1..Len(ls) : new[k] \in Leg /\ new[k].n = ls[k].n
                              /\ new[k].dir = ls[k].dir /\ new[k].open = ls[k].open
  <2>. SUFFICES ASSUME NEW k \in 1..Len(ls)
                PROVE  new[k] \in Leg /\ new[k].n = ls[k].n
                       /\ new[k].dir = ls[k].dir /\ new[k].open = ls[k].open
    OBVIOUS
  <2>. DEFINE l == ls[k]
  <2>1. l \in Leg
    BY <1>2
  <2>2. CASE new[k] = l
    BY <2>1, <2>2
  <2>3. CASE new[k] = [l EXCEPT !.sl = stop]
    <3>1. stop \in Int
      BY <1>2
    <3>. HIDE DEF l, new
    <3>2. [l EXCEPT !.sl = stop] \in Leg /\ [l EXCEPT !.sl = stop].n = l.n
          /\ [l EXCEPT !.sl = stop].dir = l.dir /\ [l EXCEPT !.sl = stop].open = l.open
      BY <2>1, <3>1, Restop
    <3>. QED BY <2>3, <3>2 DEF l
  <2>. QED BY <1>3, <2>2, <2>3
<1>5. new \in Seq(Leg) /\ Len(new) = Len(ls)
  <2>1. new = [k \in 1..Len(ls) |-> new[k]]
    BY <1>1 DEF Restopped
  <2>. HIDE DEF new
  <2>. QED BY <1>1, <1>4, <2>1
<1>6. ls # <<>> /\ RiskFree(ls[1]) => RiskFree(new[1])
  BY <1>1, <1>3
<1>. HIDE DEF new
<1>7. Stays(new, ls)
  <2>1. \A k \in 1..Len(ls) : new[k].n = ls[k].n /\ new[k].dir = ls[k].dir
                              /\ new[k].open = ls[k].open
    BY <1>4
  <2>. QED BY <1>5, <1>6, <2>1, SameLegs
<1>. QED BY <1>5, <1>7 DEF new

\* A stop at the entry of the oldest leg is of use to that leg alone.
LEMMA ProtectedStays ==
  ASSUME px \in Nat \ {0}, NEW ls \in Seq(Leg), Ordered(ls), ls # <<>>, NEW deaf
  PROVE  Stays(Restopped(ls, {ls[1].n}, ls[1].open, deaf), ls)
<1>1. 1 \in 1..Len(ls)
  BY LenProperties, EmptySeq
<1>2. ls[1] \in Leg /\ ls[1].open \in Int
  BY <1>1, LegParts
<1>3. (ls[1].open - ls[1].open) * Toward(ls[1].dir) >= 0
  BY <1>2 DEF Toward
<1>. QED BY <1>2, <1>3, AtEntry, RestoppedStays

-----------------------------------------------------------------------------
(* A pass of Manage, rule after rule                                       *)

EntryModes == {"adr", "fixed", "hybrid"}
Flags == [mode : EntryModes, peak : Int, peakAdv : Int, taken : 0..2, initR : Nat,
          armed : Sides \cup {"none"}, raked : BOOLEAN, alerted : BOOLEAN]
Passes == [legs : Seq(Leg), gv : Flags, done : BOOLEAN]

LEMMA FlagUpdates ==
  ASSUME NEW g \in Flags
  PROVE  /\ \A v \in Int : [g EXCEPT !.peak = v] \in Flags
         /\ \A v \in Int : [g EXCEPT !.peakAdv = v] \in Flags
         /\ \A v \in 0..2 : [g EXCEPT !.taken = v] \in Flags
         /\ \A v \in Sides \cup {"none"} : [g EXCEPT !.armed = v] \in Flags
         /\ \A v \in BOOLEAN : [g EXCEPT !.raked = v] \in Flags
         /\ \A v \in BOOLEAN : [g EXCEPT !.alerted = v] \in Flags
<1>1. \A v \in Int : [g EXCEPT !.peak = v] \in Flags
  BY DEF Flags
<1>2. \A v \in Int : [g EXCEPT !.peakAdv = v] \in Flags
  BY DEF Flags
<1>3. \A v \in 0..2 : [g EXCEPT !.taken = v] \in Flags
  BY DEF Flags
<1>4. \A v \in Sides \cup {"none"} : [g EXCEPT !.armed = v] \in Flags
  BY DEF Flags
<1>5. \A v \in BOOLEAN : [g EXCEPT !.raked = v] \in Flags
  BY DEF Flags
<1>6. \A v \in BOOLEAN : [g EXCEPT !.alerted = v] \in Flags
  BY DEF Flags
<1>. QED BY <1>1, <1>2, <1>3, <1>4, <1>5, <1>6

LEMMA QuietFlags ==
  ASSUME NEW g \in Flags
  PROVE  LET quiet == [g EXCEPT !.peak = 0, !.peakAdv = 0]
         IN quiet \in Flags /\ quiet.mode = g.mode /\ quiet.taken = g.taken
<1>1. [g EXCEPT !.peak = 0] \in Flags
  BY DEF Flags
<1>2. [[g EXCEPT !.peak = 0] EXCEPT !.peakAdv = 0] \in Flags
  BY <1>1 DEF Flags
<1>3. /\ [g EXCEPT !.peak = 0, !.peakAdv = 0].mode = g.mode
      /\ [g EXCEPT !.peak = 0, !.peakAdv = 0].taken = g.taken
  BY DEF Flags
<1>. QED BY <1>2, <1>3

\* A pass goes on while there are legs.
Sound(s) == s \in Passes /\ Ordered(s.legs) /\ (s.done \/ s.legs # <<>>)

\* A rule takes the basket on: no leg is new, and no target is forgotten.
Leads(t, s) == /\ Sound(t) /\ Stays(t.legs, s.legs)
               /\ t.gv.mode = s.gv.mode /\ (t.gv.taken = 0 => s.gv.taken = 0)

\* The market and the basket as a pass finds them.
Market == /\ px \in Nat \ {0} /\ lastEntry \in Int
          /\ legs \in Seq(Leg) /\ Ordered(legs) /\ legs # <<>>

LEMMA BasketNumbers ==
  /\ BarAtr \in Nat \ {0} /\ StopMult \in Nat \ {0} /\ EntryLots \in Nat \ {0}
  /\ MaxLegs \in Nat \ {0} /\ StopsLevel \in Nat \ {0} /\ FirstPrice \in Nat \ {0}
  /\ Tp1R \in Nat /\ Tp2R \in Nat /\ FirstAddAtr \in Nat /\ AddAtr \in Nat
  /\ TargetMoney \in Nat /\ BudgetMoney \in Nat
  /\ BasketBars \in Nat /\ MaxRestarts \in Nat /\ MaxEvents \in Nat
  /\ BasketModes \subseteq EntryModes /\ PriceMoves \subseteq Int
BY BasketAssumption DEF EntryModes

LEMMA LeadsOn ==
  ASSUME NEW s, Sound(s), NEW t, Leads(t, s), NEW u, Leads(u, t)
  PROVE  Leads(u, s)
<1>1. s.legs \in Seq(Leg) /\ s.gv.taken \in Int /\ t.gv.taken \in Int /\ u.gv.taken \in Int
  BY DEF Sound, Leads, Passes, Flags
<1>2. Stays(u.legs, s.legs)
  BY <1>1, StaysLonger DEF Sound, Leads
<1>. QED BY <1>1, <1>2 DEF Leads

LEMMA LeadsSelf == ASSUME NEW s, Sound(s) PROVE Leads(s, s)
<1>1. s.legs \in Seq(Leg) /\ s.gv.taken \in Int
  BY DEF Sound, Passes, Flags
<1>. QED BY <1>1, StaysSelf DEF Sound, Leads

\* A rule that leaves the legs alone.
LEMMA FlagsLead ==
  ASSUME NEW s, Sound(s), NEW gvNext \in Flags, NEW d \in BOOLEAN, s.done => d,
         gvNext.mode = s.gv.mode, gvNext.taken = 0 => s.gv.taken = 0
  PROVE  Leads([s EXCEPT !.gv = gvNext, !.done = d], s)
<1>. DEFINE t == [s EXCEPT !.gv = gvNext, !.done = d]
<1>1. t \in Passes /\ t.legs = s.legs /\ t.gv = gvNext /\ t.done = d
  BY DEF Sound, Passes
<1>2. Stays(t.legs, s.legs)
  BY <1>1, StaysSelf DEF Sound, Passes
<1>. HIDE DEF t
<1>3. Sound(t)
  BY <1>1 DEF Sound
<1>4. Leads(t, s)
  BY <1>1, <1>2, <1>3 DEF Leads
<1>. QED BY <1>4 DEF t

\* A rule that leaves the flags alone, or marks a target as taken, and keeps some legs.
LEMMA LegsLead ==
  ASSUME NEW s, Sound(s), NEW t \in Passes, Stays(t.legs, s.legs), t.legs # <<>>,
         t.gv.mode = s.gv.mode, t.gv.taken = 0 => s.gv.taken = 0
  PROVE  Leads(t, s)
BY DEF Leads, Sound, Stays

LEMMA ProfitIsInt == ASSUME px \in Nat \ {0}, NEW ls \in Seq(Leg) PROVE Profit(ls) \in Int
<1>. DEFINE part == [k \in DOMAIN ls |-> Toward(ls[k].dir) * ls[k].lots * (px - ls[k].open)]
<1>1. DOMAIN ls = 1..Len(ls) /\ Len(ls) \in Nat
  BY LenProperties
<1>2. \A k \in 1..Len(ls) : Toward(ls[k].dir) * ls[k].lots * (px - ls[k].open) \in Int
  <2>. SUFFICES ASSUME NEW k \in 1..Len(ls)
                PROVE  Toward(ls[k].dir) * ls[k].lots * (px - ls[k].open) \in Int
    OBVIOUS
  <2>1. ls[k].lots \in Int /\ ls[k].open \in Int /\ Toward(ls[k].dir) \in Int
    BY LegParts DEF Toward
  <2>. QED BY <2>1
<1>3. part \in Seq(Int)
  BY <1>1, <1>2
<1>4. Total(part) \in Int
  <2>. HIDE DEF part
  <2>1. PICK f \in [0..Len(part) -> Int] : Total(part) = f[Len(part)]
    BY <1>3, PartialSums
  <2>2. Len(part) \in 0..Len(part)
    BY <1>3, LenProperties
  <2>. QED BY <2>1, <2>2
<1>. QED BY <1>4 DEF Profit

LEMMA AdvIsInt == ASSUME Market PROVE Adv \in Int
<1>1. (px - lastEntry) \in Int /\ Toward(Side(legs)) \in Int
  BY DEF Market, Toward
<1>. QED BY <1>1 DEF Adv, AdvanceFrom

LEMMA AllClosedLeads ==
  ASSUME NEW s, Sound(s), NEW deaf
  PROVE  Leads(AllClosed(s, deaf), s) /\ AllClosed(s, deaf).done
<1>1. s \in Passes /\ s.legs \in Seq(Leg) /\ s.gv \in Flags /\ Ordered(s.legs)
  BY DEF Sound, Passes
<1>2. Stays(Kept(s.legs, deaf), s.legs)
  BY <1>1, KeptStays
<1>. DEFINE quiet == [s.gv EXCEPT !.peak = 0, !.peakAdv = 0]
            ls == Kept(s.legs, deaf)
<1>3. AllClosed(s, deaf) = [legs |-> ls, gv |-> quiet, done |-> TRUE]
  <2>. HIDE DEF ls
  <2>1. s = [legs |-> s.legs, gv |-> s.gv, done |-> s.done]
    BY <1>1 DEF Passes
  <2>2. AllClosed(s, deaf) = [s EXCEPT !.legs = ls, !.gv = quiet, !.done = TRUE]
    BY DEF AllClosed, ls
  <2>. HIDE DEF quiet
  <2>. QED BY <2>1, <2>2
<1>4. quiet \in Flags /\ quiet.mode = s.gv.mode /\ quiet.taken = s.gv.taken
  BY <1>1, QuietFlags
<1>5. s.gv.taken \in Int
  BY <1>1 DEF Flags
<1>. HIDE DEF quiet
<1>6. Kept(s.legs, deaf) \in Seq(Leg)
  BY <1>2 DEF Stays
<1>7. AllClosed(s, deaf) \in Passes
  BY <1>3, <1>4, <1>6 DEF Passes
<1>8. AllClosed(s, deaf).legs = ls /\ AllClosed(s, deaf).gv = quiet /\ AllClosed(s, deaf).done
  BY <1>3
<1>9. Sound(AllClosed(s, deaf))
  <2>1. Ordered(ls)
    BY <1>2 DEF Stays
  <2>. QED BY <1>7, <1>8, <2>1 DEF Sound
<1>. HIDE DEF ls
<1>10. Stays(ls, s.legs)
  BY <1>2 DEF ls
<1>. QED BY <1>4, <1>5, <1>8, <1>9, <1>10 DEF Leads

LEMMA StagnationLeads ==
  ASSUME NEW s, Sound(s), NEW deaf
  PROVE  Leads(Stagnation(s, deaf), s)
BY AllClosedLeads, LeadsSelf DEF Stagnation

LEMMA PassParts ==
  ASSUME NEW s, Sound(s)
  PROVE  /\ s.legs \in Seq(Leg) /\ Ordered(s.legs) /\ s.gv \in Flags /\ s.done \in BOOLEAN
         /\ s = [legs |-> s.legs, gv |-> s.gv, done |-> s.done]
         /\ s.gv.taken \in 0..2 /\ s.gv.initR \in Nat /\ s.gv.mode \in EntryModes
         /\ s.gv.peak \in Int /\ s.gv.peakAdv \in Int
BY DEF Sound, Passes, Flags

LEMMA OldestLeg ==
  ASSUME NEW s, Sound(s), s.legs # <<>>
  PROVE  /\ 1 \in 1..Len(s.legs) /\ Oldest(s) = s.legs[1] /\ Oldest(s) \in Leg
         /\ Oldest(s).open \in Nat \ {0} /\ Oldest(s).lots \in Nat \ {0} /\ Oldest(s).dir \in Sides
<1>1. s.legs \in Seq(Leg) /\ 1 \in 1..Len(s.legs)
  BY LenProperties, EmptySeq, PassParts
<1>. QED BY <1>1, LegParts DEF Oldest

LEMMA TakenLeads ==
  ASSUME NEW s, Sound(s), NEW v \in 1..2
  PROVE  /\ Leads([s EXCEPT !.gv.taken = v], s)
         /\ [s EXCEPT !.gv.taken = v].legs = s.legs /\ [s EXCEPT !.gv.taken = v].done = s.done
         /\ [s EXCEPT !.gv.taken = v].gv.taken = v /\ [s EXCEPT !.gv.taken = v].gv.initR = s.gv.initR
<1>. DEFINE g == [s.gv EXCEPT !.taken = v]
<1>1. /\ s.legs \in Seq(Leg) /\ s.gv \in Flags /\ s.done \in BOOLEAN
      /\ s = [legs |-> s.legs, gv |-> s.gv, done |-> s.done]
  BY PassParts
<1>2. g \in Flags /\ g.mode = s.gv.mode /\ g.taken = v /\ g.initR = s.gv.initR
      /\ g.taken # 0 /\ (s.done => s.done)
  BY <1>1 DEF Flags
<1>3. [s EXCEPT !.gv.taken = v] = [s EXCEPT !.gv = g, !.done = s.done]
  <2>1. [s EXCEPT !.gv.taken = v] = [s EXCEPT !.gv = g]
    OBVIOUS
  <2>. HIDE DEF g
  <2>. QED BY <1>1, <2>1
<1>. HIDE DEF g
<1>4. Leads([s EXCEPT !.gv = g, !.done = s.done], s)
  BY <1>1, <1>2, FlagsLead
<1>5. /\ [s EXCEPT !.gv = g, !.done = s.done].legs = s.legs
      /\ [s EXCEPT !.gv = g, !.done = s.done].done = s.done
      /\ [s EXCEPT !.gv = g, !.done = s.done].gv = g
  BY <1>1
<1>. QED BY <1>2, <1>3, <1>4, <1>5

\* Half of an oldest leg that splits is banked, and a lot or more stays.
LEMMA BankLeads ==
  ASSUME px \in Nat \ {0}, NEW s, Sound(s), s.legs # <<>>, Splits(s), NEW deaf, NEW stop \in Int,
         Accepts(Oldest(s), stop, deaf)
             => (stop - Oldest(s).open) * Toward(Oldest(s).dir) >= 0
  PROVE  Leads(Bank(s, stop, deaf), s) /\ Bank(s, stop, deaf).gv = s.gv
         /\ Bank(s, stop, deaf).done = s.done
<1>. DEFINE first == Oldest(s)
            half == [first EXCEPT !.lots = @ - HalfLots(@)]
            halved == [s.legs EXCEPT ![1] = half]
            left == Restopped(halved, {first.n}, stop, deaf)
<1>1. /\ s.legs \in Seq(Leg) /\ Ordered(s.legs) /\ s.gv \in Flags /\ s.done \in BOOLEAN
      /\ s = [legs |-> s.legs, gv |-> s.gv, done |-> s.done]
  BY PassParts
<1>2. /\ 1 \in 1..Len(s.legs) /\ first = s.legs[1] /\ first \in Leg
      /\ first.lots \in Nat \ {0} /\ first.dir \in Sides
  BY OldestLeg
<1>3. /\ half \in Leg /\ half.n = first.n /\ half.dir = first.dir /\ half.open = first.open
      /\ half.sl = first.sl
  <2>1. first.lots - HalfLots(first.lots) \in Nat \ {0}
    BY <1>2 DEF Splits, HalfLots
  <2>. HIDE DEF first
  <2>. QED BY <1>2, <2>1 DEF Leg
<1>4. Bank(s, stop, deaf) = [s EXCEPT !.legs = left]
  <2>1. [s EXCEPT !.legs[1].lots = @ - HalfLots(@)] = [s EXCEPT !.legs = halved]
    BY <1>2
  <2>2. [s EXCEPT !.legs = halved].legs = halved
    BY <1>1
  <2>. HIDE DEF halved
  <2>. QED BY <1>1, <2>1, <2>2 DEF Bank
<1>. HIDE DEF half, first
<1>5. /\ halved \in Seq(Leg) /\ Len(halved) = Len(s.legs) /\ halved[1] = half
      /\ \A k \in 1..Len(s.legs) : k # 1 => halved[k] = s.legs[k]
  BY <1>1, <1>2, <1>3
<1>6. Stays(halved, s.legs)
  <2>1. RiskFree(s.legs[1]) => RiskFree(half)
    BY <1>2, <1>3 DEF RiskFree
  <2>. HIDE DEF halved
  <2>. QED BY <1>1, <1>2, <1>3, <1>5, <2>1, SameLegs
<1>. HIDE DEF halved
<1>7. Stays(left, halved) /\ Len(left) = Len(halved)
  <2>1. Accepts(half, stop, deaf) = Accepts(first, stop, deaf)
    BY <1>3 DEF Accepts
  <2>2. Accepts(half, stop, deaf) => RiskFree([half EXCEPT !.sl = stop])
    BY <1>3, <2>1, AtEntry DEF first
  <2>3. Ordered(halved)
    BY <1>6 DEF Stays
  <2>. QED BY <1>5, <2>2, <2>3, RestoppedStays
<1>. HIDE DEF left
<1>8. Stays(left, s.legs) /\ left \in Seq(Leg) /\ left # <<>>
  <2>1. Stays(left, s.legs)
    BY <1>1, <1>6, <1>7, StaysLonger
  <2>. QED BY <1>2, <1>5, <1>7, <2>1, EmptySeq DEF Stays
<1>9. /\ [s EXCEPT !.legs = left] \in Passes /\ [s EXCEPT !.legs = left].legs = left
      /\ [s EXCEPT !.legs = left].gv = s.gv /\ [s EXCEPT !.legs = left].done = s.done
  BY <1>1, <1>8 DEF Passes
<1>. QED BY <1>4, <1>8, <1>9, LegsLead

LEMMA ProtectLeads ==
  ASSUME px \in Nat \ {0}, NEW s, Sound(s), s.legs # <<>>, NEW deaf
  PROVE  Leads(Protect(s, deaf), s) /\ Protect(s, deaf).gv = s.gv
         /\ Protect(s, deaf).done = s.done
<1>. DEFINE left == Restopped(s.legs, {Oldest(s).n}, Oldest(s).open, deaf)
<1>1. /\ s.legs \in Seq(Leg) /\ Ordered(s.legs) /\ s.gv \in Flags /\ s.done \in BOOLEAN
      /\ s = [legs |-> s.legs, gv |-> s.gv, done |-> s.done]
  BY PassParts
<1>2. Stays(left, s.legs)
  BY <1>1, OldestLeg, ProtectedStays
<1>3. Len(left) = Len(s.legs) /\ 1 \in 1..Len(s.legs)
  <2>1. Oldest(s).open \in Int /\ 1 \in 1..Len(s.legs) /\ Oldest(s) \in Leg /\ Oldest(s) = s.legs[1]
    BY OldestLeg
  <2>2. Accepts(Oldest(s), Oldest(s).open, deaf)
           => RiskFree([Oldest(s) EXCEPT !.sl = Oldest(s).open])
    BY <2>1, AtEntry DEF Toward
  <2>. QED BY <1>1, <2>1, <2>2, RestoppedStays
<1>4. Protect(s, deaf) = [s EXCEPT !.legs = left]
  BY DEF Protect
<1>. HIDE DEF left
<1>5. left \in Seq(Leg) /\ left # <<>>
  BY <1>2, <1>3, EmptySeq DEF Stays
<1>6. /\ [s EXCEPT !.legs = left] \in Passes /\ [s EXCEPT !.legs = left].legs = left
      /\ [s EXCEPT !.legs = left].gv = s.gv /\ [s EXCEPT !.legs = left].done = s.done
  BY <1>1, <1>5 DEF Passes
<1>. QED BY <1>2, <1>4, <1>5, <1>6, LegsLead

\* The first target counts once it is banked.
LEMMA Tp1Leads ==
  ASSUME Market, NEW s, Sound(s), NEW deaf
  PROVE  /\ Leads(Tp1(s, deaf), s)
         /\ Tp1Banks(s, deaf) => s.gv.taken = 0 /\ Tp1(s, deaf).gv.taken # 0
<1>. DEFINE took == [s EXCEPT !.gv.taken = 1]
<1>1. px \in Nat \ {0}
  BY DEF Market
<1>2. /\ Leads(took, s) /\ took.legs = s.legs /\ took.done = s.done /\ took.gv.taken = 1
      /\ Sound(took)
  <2>1. 1 \in 1..2
    OBVIOUS
  <2>2. Leads(took, s) /\ took.legs = s.legs /\ took.done = s.done /\ took.gv.taken = 1
    BY <2>1, TakenLeads
  <2>. HIDE DEF took
  <2>. QED BY <2>2 DEF Leads
<1>. HIDE DEF took
<1>3. CASE Tp1Banks(s, deaf)
  <2>1. s.legs # <<>> /\ Splits(s) /\ s.gv.taken = 0
    BY <1>3 DEF Tp1Banks, Tp1Due, Sound
  <2>2. Oldest(took) = Oldest(s) /\ Splits(took) /\ took.legs # <<>>
    BY <1>2, <2>1 DEF Oldest, Splits
  <2>3. Oldest(s).open \in Int /\ (Oldest(s).open - Oldest(s).open) * Toward(Oldest(s).dir) >= 0
    BY <2>1, OldestLeg DEF Toward
  <2>4. Leads(Bank(took, Oldest(s).open, deaf), took) /\ Bank(took, Oldest(s).open, deaf).gv = took.gv
    BY <1>1, <1>2, <2>2, <2>3, BankLeads
  <2>5. Tp1(s, deaf) = Bank(took, Oldest(s).open, deaf)
    BY <1>3 DEF Tp1, took
  <2>. QED BY <1>2, <2>1, <2>4, <2>5, LeadsOn
<1>4. CASE ~Tp1Banks(s, deaf) /\ Tp1Due(s) /\ ~Splits(s)
  <2>1. took.legs # <<>>
    BY <1>2, <1>4 DEF Tp1Due, Sound
  <2>2. Leads(Protect(took, deaf), took)
    BY <1>1, <1>2, <2>1, ProtectLeads
  <2>3. Tp1(s, deaf) = Protect(took, deaf)
    BY <1>4 DEF Tp1, took
  <2>. QED BY <1>2, <1>4, <2>2, <2>3, LeadsOn
<1>5. CASE ~Tp1Banks(s, deaf) /\ ~(Tp1Due(s) /\ ~Splits(s))
  BY <1>5, LeadsSelf DEF Tp1
<1>. QED BY <1>3, <1>4, <1>5

LEMMA Tp2Leads == ASSUME Market, NEW s, Sound(s), NEW deaf PROVE Leads(Tp2(s, deaf), s)
<1>. DEFINE took == [s EXCEPT !.gv.taken = 2]
            stop == Oldest(s).open + Toward(Oldest(s).dir) * Tp1R * s.gv.initR
            Due == /\ ~s.done /\ s.gv.taken = 1 /\ s.gv.initR > 0 /\ Adv >= Tp2R * s.gv.initR
                   /\ Splits(s) /\ Oldest(s).n \notin deaf
<1>1. px \in Nat \ {0}
  BY DEF Market
<1>2. Leads(took, s) /\ took.legs = s.legs /\ took.done = s.done /\ Sound(took)
  <2>1. 2 \in 1..2
    OBVIOUS
  <2>2. Leads(took, s) /\ took.legs = s.legs /\ took.done = s.done
    BY <2>1, TakenLeads
  <2>. HIDE DEF took
  <2>. QED BY <2>2 DEF Leads
<1>. HIDE DEF took
<1>3. Tp2(s, deaf) = IF Due THEN Bank(took, stop, deaf) ELSE s
  BY DEF Tp2, took
<1>4. ASSUME Due PROVE Leads(Bank(took, stop, deaf), s)
  <2>1. s.legs # <<>> /\ Splits(s)
    BY <1>4 DEF Sound
  <2>. HIDE DEF Due
  <2>2. Oldest(took) = Oldest(s) /\ Splits(took) /\ took.legs # <<>>
    BY <1>2, <2>1 DEF Oldest, Splits
  <2>3. stop \in Int /\ (stop - Oldest(s).open) * Toward(Oldest(s).dir) >= 0
    <3>0. Oldest(s).open \in Nat /\ Oldest(s).dir \in Sides
      BY <2>1, OldestLeg
    <3>4. Tp1R \in Nat /\ s.gv.initR \in Nat
      BY PassParts, BasketNumbers
    <3>1. /\ Oldest(s).open \in Nat /\ Oldest(s).dir \in Sides
          /\ Tp1R \in Nat /\ s.gv.initR \in Nat /\ Tp1R * s.gv.initR \in Nat
      BY <3>0, <3>4
    <3>2. CASE Oldest(s).dir = "BUY"
      <4>1. stop = Oldest(s).open + Tp1R * s.gv.initR /\ Toward(Oldest(s).dir) = 1
        BY <3>1, <3>2 DEF Toward
      <4>. HIDE DEF stop
      <4>. QED BY <3>1, <4>1
    <3>3. CASE Oldest(s).dir = "SELL"
      <4>1. Toward(Oldest(s).dir) = -1
        BY <3>3 DEF Toward
      <4>2. -1 * Tp1R * s.gv.initR = -(Tp1R * s.gv.initR)
        BY <3>1
      <4>3. stop = Oldest(s).open - Tp1R * s.gv.initR
        BY <3>1, <4>1, <4>2
      <4>. HIDE DEF stop
      <4>. QED BY <3>1, <4>1, <4>3
    <3>. QED BY <3>1, <3>2, <3>3 DEF Sides
  <2>. HIDE DEF stop
  <2>4. Leads(Bank(took, stop, deaf), took)
    BY <1>1, <1>2, <2>2, <2>3, BankLeads
  <2>. QED BY <1>2, <2>4, LeadsOn
<1>. HIDE DEF stop, Due
<1>. QED BY <1>3, <1>4, LeadsSelf

LEMMA PeakAdvanceLeads ==
  ASSUME Market, NEW s, Sound(s) PROVE Leads(PeakAdvance(s), s)
<1>. DEFINE g == [s.gv EXCEPT !.peakAdv = Adv]
<1>1. /\ s.gv \in Flags /\ s.done \in BOOLEAN /\ Adv \in Int
      /\ s = [legs |-> s.legs, gv |-> s.gv, done |-> s.done]
  BY PassParts, AdvIsInt
<1>2. g \in Flags /\ g.mode = s.gv.mode /\ g.taken = s.gv.taken
  BY <1>1 DEF Flags
<1>3. [s EXCEPT !.gv.peakAdv = Adv] = [s EXCEPT !.gv = g, !.done = s.done]
  <2>1. [s EXCEPT !.gv.peakAdv = Adv] = [s EXCEPT !.gv = g]
    OBVIOUS
  <2>. HIDE DEF g
  <2>. QED BY <1>1, <2>1
<1>. HIDE DEF g
<1>4. Leads([s EXCEPT !.gv = g, !.done = s.done], s)
  BY <1>1, <1>2, FlagsLead
<1>. QED BY <1>3, <1>4, LeadsSelf DEF PeakAdvance

\* A rule that sets one flag beside the mode and the targets.
LEMMA RakedLeads ==
  ASSUME NEW s, Sound(s), NEW v \in BOOLEAN
  PROVE  /\ Leads([s EXCEPT !.gv.raked = v], s)
         /\ [s EXCEPT !.gv.raked = v].legs = s.legs /\ [s EXCEPT !.gv.raked = v].done = s.done
<1>. DEFINE g == [s.gv EXCEPT !.raked = v]
<1>1. /\ s.gv \in Flags /\ s.done \in BOOLEAN
      /\ s = [legs |-> s.legs, gv |-> s.gv, done |-> s.done]
  BY PassParts
<1>2. g \in Flags /\ g.mode = s.gv.mode /\ g.taken = s.gv.taken
  BY <1>1 DEF Flags
<1>3. [s EXCEPT !.gv.raked = v] = [s EXCEPT !.gv = g, !.done = s.done]
  <2>1. [s EXCEPT !.gv.raked = v] = [s EXCEPT !.gv = g]
    OBVIOUS
  <2>. HIDE DEF g
  <2>. QED BY <1>1, <2>1
<1>. HIDE DEF g
<1>4. Leads([s EXCEPT !.gv = g, !.done = s.done], s)
  BY <1>1, <1>2, FlagsLead
<1>5. /\ [s EXCEPT !.gv = g, !.done = s.done].legs = s.legs
      /\ [s EXCEPT !.gv = g, !.done = s.done].done = s.done
  BY <1>1
<1>. QED BY <1>3, <1>4, <1>5

\* The rake keeps the oldest leg, and what the broker would not close.
LEMMA KeptLeads ==
  ASSUME NEW s, Sound(s), s.legs # <<>>, NEW deaf
  PROVE  LET t == [s EXCEPT !.legs = Kept(s.legs, {Oldest(s).n} \cup deaf)]
         IN Leads(t, s) /\ t.legs # <<>>
<1>. DEFINE left == Kept(s.legs, {Oldest(s).n} \cup deaf)
<1>1. /\ s.legs \in Seq(Leg) /\ Ordered(s.legs) /\ s.gv \in Flags /\ s.done \in BOOLEAN
      /\ s = [legs |-> s.legs, gv |-> s.gv, done |-> s.done]
  BY PassParts
<1>2. Stays(left, s.legs) /\ left # <<>>
  BY <1>1, KeptStays DEF Oldest
<1>. HIDE DEF left
<1>3. left \in Seq(Leg)
  BY <1>2 DEF Stays
<1>4. /\ [s EXCEPT !.legs = left] \in Passes /\ [s EXCEPT !.legs = left].legs = left
      /\ [s EXCEPT !.legs = left].gv = s.gv
  BY <1>1, <1>3 DEF Passes
<1>5. Leads([s EXCEPT !.legs = left], s)
  BY <1>2, <1>4, LegsLead
<1>. QED BY <1>2, <1>4, <1>5 DEF left

LEMMA RakeLeads == ASSUME Market, NEW s, Sound(s), NEW deaf PROVE Leads(Rake(s, deaf), s)
<1>. DEFINE r == [s EXCEPT !.gv.raked = TRUE]
            kept == [r EXCEPT !.legs = Kept(r.legs, {Oldest(r).n} \cup deaf)]
            took == [r EXCEPT !.gv.taken = 1]
<1>1. px \in Nat \ {0}
  BY DEF Market
<1>2. CASE ~s.done /\ ~Wall
  <2>1. Rake(s, deaf) = [s EXCEPT !.gv.raked = FALSE]
    BY <1>2 DEF Rake
  <2>. QED BY <2>1, RakedLeads
<1>3. CASE ~(~s.done /\ ~Wall) /\ ~RakeDue(s)
  BY <1>3, LeadsSelf DEF Rake
<1>4. CASE ~(~s.done /\ ~Wall) /\ RakeDue(s)
  <2>1. Leads(r, s) /\ r.legs = s.legs
    BY RakedLeads
  <2>2. s.legs # <<>> /\ Oldest(r) = Oldest(s)
    BY <1>4, <2>1 DEF RakeDue, Sound, Oldest
  <2>3. \/ Rake(s, deaf) = Protect(kept, deaf)
        \/ Rake(s, deaf) = Protect(r, deaf)
        \/ Rake(s, deaf) = r
        \/ Rake(s, deaf) = Bank(took, Oldest(r).open, deaf) /\ Splits(r)
    <3>. HIDE DEF r
    <3>1. Rake(s, deaf) =
            IF Len(r.legs) > 1
            THEN Protect([r EXCEPT !.legs = Kept(@, {Oldest(s).n} \union deaf)], deaf)
            ELSE IF ~Splits(r) THEN Protect(r, deaf)
            ELSE IF Oldest(r).n \in deaf THEN r
            ELSE Bank([r EXCEPT !.gv.taken = 1], Oldest(r).open, deaf)
      BY <1>4 DEF Rake, r
    <3>. QED BY <2>2, <3>1
  <2>. HIDE DEF r
  <2>4. Sound(r) /\ r.legs # <<>>
    BY <2>1, <2>2 DEF Leads
  <2>5. Leads(Protect(kept, deaf), r)
    <3>1. Leads(kept, r) /\ kept.legs # <<>>
      BY <2>4, KeptLeads
    <3>. HIDE DEF kept
    <3>2. Sound(kept)
      BY <3>1 DEF Leads
    <3>3. Leads(Protect(kept, deaf), kept)
      BY <1>1, <3>1, <3>2, ProtectLeads
    <3>. QED BY <2>4, <3>1, <3>3, LeadsOn
  <2>6. Leads(Protect(r, deaf), r) /\ Leads(r, r)
    BY <1>1, <2>4, ProtectLeads, LeadsSelf
  <2>7. ASSUME Splits(r) PROVE Leads(Bank(took, Oldest(r).open, deaf), r)
    <3>1. 1 \in 1..2
      OBVIOUS
    <3>2. Leads(took, r) /\ took.legs = r.legs
      BY <2>4, <3>1, TakenLeads
    <3>. HIDE DEF took
    <3>3. Sound(took) /\ Oldest(took) = Oldest(r) /\ Splits(took) /\ took.legs # <<>>
      BY <2>4, <2>7, <3>2 DEF Leads, Oldest, Splits
    <3>4. Oldest(r).open \in Int /\ (Oldest(r).open - Oldest(r).open) * Toward(Oldest(r).dir) >= 0
      BY <2>4, OldestLeg DEF Toward
    <3>5. Leads(Bank(took, Oldest(r).open, deaf), took)
      BY <1>1, <3>3, <3>4, BankLeads
    <3>. QED BY <2>4, <3>2, <3>5, LeadsOn
  <2>. HIDE DEF kept, took
  <2>8. Leads(Rake(s, deaf), r)
    BY <2>3, <2>5, <2>6, <2>7
  <2>. QED BY <2>1, <2>8, LeadsOn
<1>. QED BY <1>2, <1>3, <1>4

LEMMA ReversalLeads ==
  ASSUME NEW s, Sound(s), NEW deaf PROVE Leads(Reversal(s, deaf), s)
<1>. DEFINE armed == [s EXCEPT !.gv.armed = Side(s.legs)]
            g == [s.gv EXCEPT !.armed = Side(s.legs)]
<1>1. /\ s.gv \in Flags /\ s.done \in BOOLEAN /\ s.legs \in Seq(Leg)
      /\ s = [legs |-> s.legs, gv |-> s.gv, done |-> s.done]
  BY PassParts
<1>2. ASSUME ~s.done PROVE Leads(AllClosed(armed, deaf), s)
  <2>1. Side(s.legs) \in Sides
    <3>1. s.legs # <<>>
      BY <1>2 DEF Sound
    <3>. QED BY <3>1, OldestLeg DEF Side, Oldest
  <2>2. g \in Flags /\ g.mode = s.gv.mode /\ g.taken = s.gv.taken
    BY <1>1, <2>1 DEF Flags
  <2>3. armed = [s EXCEPT !.gv = g, !.done = s.done]
    <3>1. armed = [s EXCEPT !.gv = g]
      OBVIOUS
    <3>. HIDE DEF g, armed
    <3>. QED BY <1>1, <3>1
  <2>. HIDE DEF g, armed
  <2>4. Leads(armed, s)
    BY <1>1, <2>2, <2>3, FlagsLead
  <2>5. Leads(AllClosed(armed, deaf), armed)
    BY <2>4, AllClosedLeads DEF Leads
  <2>. QED BY <2>4, <2>5, LeadsOn
<1>. HIDE DEF armed
<1>3. \/ Reversal(s, deaf) = s
      \/ Reversal(s, deaf) = AllClosed(armed, deaf) /\ ~s.done
  BY DEF Reversal, armed
<1>. QED BY <1>2, <1>3, LeadsSelf

LEMMA TargetRuleLeads ==
  ASSUME Market, NEW s, Sound(s), NEW deaf PROVE Leads(TargetRule(s, deaf), s)
<1>. DEFINE al == s.gv.alerted \/ Profit(s.legs) >= TargetMoney
            g == [s.gv EXCEPT !.alerted = al]
            told == [s EXCEPT !.gv = g, !.done = TRUE]
<1>1. /\ s.gv \in Flags /\ s.done \in BOOLEAN
      /\ s = [legs |-> s.legs, gv |-> s.gv, done |-> s.done]
  BY PassParts
<1>2. al \in BOOLEAN
  <2>1. s.gv.alerted \in BOOLEAN
    BY <1>1 DEF Flags
  <2>2. (Profit(s.legs) >= TargetMoney) \in BOOLEAN
    <3>1. TargetMoney \in Int
      BY BasketNumbers
    <3>2. px \in Nat \ {0} /\ s.legs \in Seq(Leg)
      BY PassParts DEF Market
    <3>3. Profit(s.legs) \in Int
      BY <3>2, ProfitIsInt
    <3>. QED BY <3>1, <3>3
  <2>. QED BY <2>1, <2>2
<1>3. g \in Flags /\ g.mode = s.gv.mode /\ g.taken = s.gv.taken
  <2>. HIDE DEF al
  <2>. QED BY <1>1, <1>2 DEF Flags
<1>4. [s EXCEPT !.done = TRUE, !.gv.alerted = @ \/ Profit(s.legs) >= TargetMoney] = told
  <2>1. [s EXCEPT !.done = TRUE, !.gv.alerted = @ \/ Profit(s.legs) >= TargetMoney]
          = [s EXCEPT !.done = TRUE, !.gv = g]
    OBVIOUS
  <2>. HIDE DEF g
  <2>. QED BY <1>1, <2>1
<1>. HIDE DEF g
<1>5. Leads(told, s)
  BY <1>1, <1>3, FlagsLead
<1>. HIDE DEF told
<1>6. \/ TargetRule(s, deaf) = s \/ TargetRule(s, deaf) = told
      \/ TargetRule(s, deaf) = AllClosed(s, deaf)
  BY <1>4 DEF TargetRule
<1>. QED BY <1>5, <1>6, LeadsSelf, AllClosedLeads

LEMMA LockLeads == ASSUME Market, NEW s, Sound(s), NEW deaf PROVE Leads(Lock(s, deaf), s)
<1>. DEFINE top == IF Profit(s.legs) > s.gv.peak THEN Profit(s.legs) ELSE s.gv.peak
            g == [s.gv EXCEPT !.peak = top]
            p == [s EXCEPT !.gv = g, !.done = s.done]
<1>1. /\ s.gv \in Flags /\ s.done \in BOOLEAN /\ s.gv.peak \in Int
      /\ s = [legs |-> s.legs, gv |-> s.gv, done |-> s.done]
  BY PassParts
<1>2. top \in Int
  BY <1>1, PassParts, ProfitIsInt DEF Market
<1>3. g \in Flags /\ g.mode = s.gv.mode /\ g.taken = s.gv.taken
  <2>. HIDE DEF top
  <2>. QED BY <1>1, <1>2 DEF Flags
<1>4. [s EXCEPT !.gv.peak = IF Profit(s.legs) > @ THEN Profit(s.legs) ELSE @] = p
  <2>1. [s EXCEPT !.gv.peak = IF Profit(s.legs) > @ THEN Profit(s.legs) ELSE @]
          = [s EXCEPT !.gv = g]
    OBVIOUS
  <2>. HIDE DEF g
  <2>. QED BY <1>1, <2>1
<1>. HIDE DEF g
<1>5. Leads(p, s)
  BY <1>1, <1>3, FlagsLead
<1>. HIDE DEF p
<1>6. Leads(AllClosed(p, deaf), p)
  BY <1>5, AllClosedLeads DEF Leads
<1>7. Lock(s, deaf) = s \/ Lock(s, deaf) = p \/ Lock(s, deaf) = AllClosed(p, deaf)
  BY <1>4 DEF Lock
<1>. QED BY <1>5, <1>6, <1>7, LeadsSelf, LeadsOn

\* The whole pass; a target that is banked in it is not forgotten by its end.
LEMMA ManagedLeads ==
  ASSUME Market, NEW deaf, Sound(Now)
  PROVE  /\ Leads(Managed(deaf), Now)
         /\ Tp1Banks(Stagnation(Now, deaf), deaf)
               => gv.taken = 0 /\ Managed(deaf).gv.taken # 0
<1>. DEFINE a == Stagnation(Now, deaf)
            b == Tp1(a, deaf)
            c == Tp2(b, deaf)
            d == PeakAdvance(c)
            e == Rake(d, deaf)
            f == Reversal(e, deaf)
            h == TargetRule(f, deaf)
            m == Lock(h, deaf)
<1>1. Leads(a, Now)
  BY StagnationLeads
<1>. HIDE DEF a
<1>2. Sound(a) /\ Now.gv.taken = gv.taken
  BY <1>1 DEF Leads, Now
<1>3. Leads(b, a) /\ (Tp1Banks(a, deaf) => a.gv.taken = 0 /\ b.gv.taken # 0)
  BY <1>2, Tp1Leads
<1>. HIDE DEF b
<1>4. Leads(c, b)
  BY <1>3, Tp2Leads DEF Leads
<1>. HIDE DEF c
<1>5. Leads(d, c)
  BY <1>4, PeakAdvanceLeads DEF Leads
<1>. HIDE DEF d
<1>6. Leads(e, d)
  BY <1>5, RakeLeads DEF Leads
<1>. HIDE DEF e
<1>7. Leads(f, e)
  BY <1>6, ReversalLeads DEF Leads
<1>. HIDE DEF f
<1>8. Leads(h, f)
  BY <1>7, TargetRuleLeads DEF Leads
<1>. HIDE DEF h
<1>9. Leads(m, h)
  BY <1>8, LockLeads DEF Leads
<1>. HIDE DEF m
<1>10. Leads(m, b)
  <2>1. Sound(b) /\ Sound(c) /\ Sound(d) /\ Sound(e) /\ Sound(f) /\ Sound(h)
    BY <1>3, <1>4, <1>5, <1>6, <1>7, <1>8 DEF Leads
  <2>2. Leads(d, b)
    BY <2>1, <1>4, <1>5, LeadsOn
  <2>3. Leads(f, d)
    BY <2>1, <1>6, <1>7, LeadsOn
  <2>4. Leads(m, f)
    BY <2>1, <1>8, <1>9, LeadsOn
  <2>. QED BY <2>1, <2>2, <2>3, <2>4, LeadsOn
<1>11. Leads(m, Now)
  <2>1. Leads(b, Now)
    BY <1>1, <1>2, <1>3, LeadsOn
  <2>. QED BY <1>10, <2>1, LeadsOn DEF Leads
<1>12. Managed(deaf) = m
  BY DEF Managed, m, h, f, e, d, c, b, a
<1>13. Tp1Banks(a, deaf) => gv.taken = 0 /\ m.gv.taken # 0
  BY <1>1, <1>2, <1>3, <1>10 DEF Leads
<1>. QED BY <1>11, <1>12, <1>13 DEF a

-----------------------------------------------------------------------------
(* The book, step by step                                                  *)

\* The legs of a chart, numbered up to `count`, on one side of the market.
Book(ls, count) ==
    /\ ls \in Seq(Leg) /\ Ordered(ls) /\ Len(ls) <= MaxLegs
    /\ \A k \in 1..Len(ls) : ls[k].n <= count /\ ls[k].dir = ls[1].dir

BasketKinds ==
    /\ px \in Nat \ {0} /\ lastEntry \in Int /\ entryMode \in BasketModes
    /\ bkPhase \in {"tick", "signal", "manage", "reentry"} /\ bkEvent \in BarEvents
    /\ gv \in Flags /\ disk \in Flags
    /\ opened \in [count : Nat, mode : EntryModes, banks : Nat, kills : Nat]
    /\ bkLeft \in [bars : Nat, restarts : Nat, events : Nat]

\* The flags of a basket carry its mode, in the terminal and on its disk.
OneMode == legs # <<>> => gv.mode = opened.mode /\ disk.mode = opened.mode

\* While no target is marked as taken, each bank of the basket was undone by a kill.
BankedAtMost ==
    /\ opened.banks <= 1 + opened.kills
    /\ gv.taken = 0 => opened.banks <= opened.kills

BasketInv == BasketKinds /\ Book(legs, opened.count) /\ OneMode /\ BankedAtMost

\* What RiskFreeStays says of a step.
Safe(new, old) ==
    \A k \in DOMAIN new : ~Flat(old) /\ new[k].n = old[1].n /\ RiskFree(old[1])
                           => RiskFree(new[k])

LEMMA BookStays ==
  ASSUME NEW count \in Nat, NEW old, Book(old, count), NEW new, Stays(new, old)
  PROVE  Book(new, count) /\ Safe(new, old) /\ (new # <<>> => old # <<>>)
         /\ (new # <<>> => new[1].dir = old[1].dir)
<1>1. /\ old \in Seq(Leg) /\ new \in Seq(Leg) /\ Len(old) \in Nat /\ Len(new) \in Nat
      /\ Len(new) <= Len(old) /\ MaxLegs \in Nat /\ Ordered(new)
  BY LenProperties, BasketNumbers DEF Book, Stays
<1>2. \A k \in 1..Len(old) : old[k].n \in Nat
  BY <1>1, LegParts
<1>3. ASSUME NEW k \in 1..Len(new)
      PROVE  /\ new[k].n <= count /\ new[k].dir = old[1].dir
             /\ new[k].n = old[1].n /\ RiskFree(old[1]) => RiskFree(new[k])
  <2>1. PICK j \in 1..Len(old) :
            /\ new[k].n = old[j].n /\ new[k].dir = old[j].dir
            /\ j = 1 /\ RiskFree(old[1]) => RiskFree(new[k])
    BY DEF Stays
  <2>2. 1 \in 1..Len(old)
    BY <1>1
  <2>3. j # 1 => old[1].n < old[j].n
    BY <1>1, <2>2 DEF Book, Ordered
  <2>. QED BY <1>2, <2>1, <2>2, <2>3 DEF Book
<1>4. Book(new, count)
  <2>1. \A k \in 1..Len(new) : 1 \in 1..Len(new)
    BY <1>1
  <2>2. Len(old) <= MaxLegs
    BY DEF Book
  <2>. QED BY <1>1, <1>3, <2>1, <2>2 DEF Book
<1>5. new # <<>> => 1 \in 1..Len(new) /\ old # <<>>
  BY <1>1, EmptySeq
<1>6. DOMAIN new = 1..Len(new)
  BY <1>1, LenProperties
<1>. QED BY <1>3, <1>4, <1>5, <1>6 DEF Safe

LEMMA BookAppend ==
  ASSUME NEW count \in Nat, NEW ls, Book(ls, count), Len(ls) < MaxLegs,
         NEW l \in Leg, l.n = count + 1, ls # <<>> => l.dir = ls[1].dir
  PROVE  Book(Append(ls, l), count + 1)
<1>1. ls \in Seq(Leg) /\ Len(ls) \in Nat /\ MaxLegs \in Nat
  BY LenProperties, BasketNumbers DEF Book
<1>2. /\ Append(ls, l) \in Seq(Leg) /\ Len(Append(ls, l)) = Len(ls) + 1
      /\ Append(ls, l)[Len(ls) + 1] = l
      /\ \A k \in 1..Len(ls) : Append(ls, l)[k] = ls[k]
  BY <1>1, AppendProperties
<1>. DEFINE new == Append(ls, l)
<1>. HIDE DEF new
<1>3. \A k \in 1..Len(new) : k = Len(ls) + 1 \/ k \in 1..Len(ls)
  BY <1>1, <1>2 DEF new
<1>4. \A k \in 1..Len(ls) : ls[k].n \in Nat /\ ls[k].n <= count /\ ls[k].dir = ls[1].dir
  BY <1>1, LegParts DEF Book
<1>5. /\ \A k \in 1..Len(ls) : new[k] = ls[k]
      /\ new[Len(ls) + 1] = l /\ Len(new) = Len(ls) + 1 /\ new \in Seq(Leg)
  BY <1>2 DEF new
<1>6. Ordered(new)
  <2>. SUFFICES ASSUME NEW i \in 1..Len(new), NEW j \in 1..Len(new), i < j
                PROVE  new[i].n < new[j].n
    BY DEF Ordered
  <2>1. i \in 1..Len(ls)
    BY <1>1, <1>5
  <2>2. CASE j = Len(ls) + 1
    BY <1>4, <1>5, <2>1, <2>2
  <2>3. CASE j \in 1..Len(ls)
    BY <1>5, <2>1, <2>3 DEF Book, Ordered
  <2>. QED BY <1>3, <2>2, <2>3
<1>7. \A k \in 1..Len(new) : new[k].n <= count + 1 /\ new[k].dir = new[1].dir
  <2>1. CASE ls = <<>>
    <3>1. Len(ls) = 0
      BY <2>1
    <3>. QED BY <1>1, <1>5, <3>1
  <2>2. CASE ls # <<>>
    <3>1. 1 \in 1..Len(ls)
      BY <1>1, <2>2, EmptySeq
    <3>2. new[1].dir = ls[1].dir
      BY <1>5, <3>1
    <3>. QED BY <1>3, <1>4, <1>5, <2>2, <3>2
  <2>. QED BY <2>1, <2>2
<1>8. Len(new) <= MaxLegs
  BY <1>1, <1>5
<1>. QED BY <1>5, <1>6, <1>7, <1>8 DEF Book, new

\* A leg with a later number is not the oldest leg of before.
LEMMA LaterLeg ==
  ASSUME NEW count \in Nat, NEW old, Book(old, count)
  PROVE  ~Flat(old) => old[1].n # count + 1
<1>. SUFFICES ASSUME old # <<>> PROVE old[1].n # count + 1
  BY DEF Flat
<1>1. 1 \in 1..Len(old) /\ old \in Seq(Leg)
  BY LenProperties, EmptySeq DEF Book
<1>2. old[1].n \in Nat /\ old[1].n <= count
  BY <1>1, LegParts DEF Book
<1>. QED BY <1>2

\* A step that opens nothing.
LEMMA SameBasket ==
  ASSUME BasketInv, BasketKinds', BankedAtMost', Stays(legs', legs),
         opened'.count = opened.count, opened'.mode = opened.mode,
         gv'.mode \in {gv.mode, disk.mode}, disk'.mode \in {gv.mode, disk.mode}
  PROVE  BasketInv' /\ Safe(legs', legs)
<1>1. opened.count \in Nat /\ Book(legs, opened.count)
  BY DEF BasketInv, BasketKinds
<1>2. Book(legs', opened.count) /\ Safe(legs', legs) /\ (legs' # <<>> => legs # <<>>)
  BY <1>1, BookStays
<1>3. OneMode'
  BY <1>2 DEF BasketInv, OneMode
<1>. QED BY <1>2, <1>3 DEF BasketInv

LEMMA NewLegIsLeg ==
  ASSUME BasketKinds, NEW dir \in Sides, NEW lots \in Nat \ {0}
  PROVE  LET l == NewLeg(dir, lots, StartStop(dir))
         IN l \in Leg /\ l.n = opened.count + 1 /\ l.dir = dir
<1>1. opened.count + 1 \in Nat \ {0} /\ px \in Nat \ {0}
  BY DEF BasketKinds
<1>2. StartStop(dir) \in Int
  <2>1. Toward(dir) \in Int /\ StopMult \in Int /\ BarAtr \in Int /\ px \in Int
    BY <1>1, BasketNumbers DEF Toward
  <2>2. Toward(dir) * StopMult * BarAtr \in Int
    BY <2>1
  <2>. HIDE DEF StartStop
  <2>. QED BY <2>1, <2>2 DEF StartStop
<1>. DEFINE stop == StartStop(dir)
<1>. HIDE DEF stop
<1>3. NewLeg(dir, lots, stop) \in Leg
  BY <1>1, <1>2 DEF NewLeg, Leg, stop
<1>4. NewLeg(dir, lots, stop).n = opened.count + 1 /\ NewLeg(dir, lots, stop).dir = dir
  BY DEF NewLeg
<1>. QED BY <1>3, <1>4 DEF stop

LEMMA OpenKeeps ==
  ASSUME BasketInv, NEW dir \in Sides, OpenBasket(dir),
         UNCHANGED <<px, entryMode, bkLeft>>,
         bkPhase' \in {"tick", "signal", "manage", "reentry"}, bkEvent' \in BarEvents
  PROVE  BasketInv' /\ Safe(legs', legs)
<1>. DEFINE l == NewLeg(dir, EntryLots, StartStop(dir))
<1>1. /\ BasketKinds /\ opened.count \in Nat /\ opened.count + 1 \in Nat
      /\ Book(legs, opened.count) /\ entryMode \in EntryModes /\ px \in Nat \ {0}
  BY BasketNumbers DEF BasketInv, BasketKinds
<1>2. l \in Leg /\ l.n = opened.count + 1 /\ l.dir = dir
  BY <1>1, BasketNumbers, NewLegIsLeg
<1>3. legs' = <<l>>
  BY DEF OpenBasket
<1>. HIDE DEF l
<1>4. /\ opened' \in [count : Nat, mode : EntryModes, banks : Nat, kills : Nat]
      /\ opened'.count = opened.count + 1 /\ opened'.mode = entryMode
      /\ opened'.banks = 0 /\ opened'.kills = 0
  BY <1>1 DEF OpenBasket
<1>5. gv' \in Flags /\ gv'.mode = entryMode /\ disk' = gv'
  <2>. DEFINE r == StopMult * BarAtr
              named == [Fresh EXCEPT !.mode = entryMode]
  <2>1. r \in Nat
    <3>1. StopMult \in Nat /\ BarAtr \in Nat
      BY BasketNumbers
    <3>. QED BY <3>1
  <2>2. gv' = [Fresh EXCEPT !.mode = entryMode, !.initR = r] /\ disk' = gv'
    BY DEF OpenBasket
  <2>. HIDE DEF r
  <2>3. Fresh \in Flags
    BY DEF Fresh, Flags, EntryModes
  <2>4. named \in Flags /\ named.mode = entryMode
    BY <1>1, <2>3 DEF Flags
  <2>5. gv' = [named EXCEPT !.initR = r]
    BY <2>2
  <2>. HIDE DEF named
  <2>. QED BY <2>1, <2>2, <2>4, <2>5 DEF Flags
<1>6. BasketKinds'
  <2>1. lastEntry' = px /\ px' = px /\ entryMode' = entryMode /\ bkLeft' = bkLeft
    BY DEF OpenBasket
  <2>. QED BY <1>1, <1>4, <1>5, <2>1 DEF BasketKinds
<1>7. Book(legs', opened'.count)
  <2>1. <<l>> \in Seq(Leg) /\ Len(<<l>>) = 1 /\ <<l>>[1] = l
    BY <1>2
  <2>2. MaxLegs \in Nat \ {0}
    BY BasketNumbers
  <2>3. Ordered(legs')
    BY <1>3, <2>1 DEF Ordered
  <2>. QED BY <1>1, <1>2, <1>3, <1>4, <2>1, <2>2, <2>3 DEF Book
<1>8. Safe(legs', legs)
  <2>1. \A k \in DOMAIN legs' : legs'[k].n = opened.count + 1
    BY <1>2, <1>3
  <2>. QED BY <1>1, <2>1, LaterLeg DEF Safe
<1>9. OneMode' /\ BankedAtMost'
  BY <1>4, <1>5 DEF OneMode, BankedAtMost
<1>. QED BY <1>6, <1>7, <1>8, <1>9 DEF BasketInv

LEMMA TickKeeps ==
  ASSUME BasketInv, NEW move \in PriceMoves, NEW event \in BarEvents, Tick(move, event)
  PROVE  BasketInv' /\ Safe(legs', legs)
<1>1. BasketKinds /\ legs \in Seq(Leg) /\ Ordered(legs)
  BY DEF BasketInv, Book
<1>2. bkLeft' \in [bars : Nat, restarts : Nat, events : Nat]
  <2>. DEFINE cost == IF event = "plain" THEN 0 ELSE 1
  <2>1. bkLeft.bars - 1 \in Nat /\ bkLeft.events - cost \in Nat
    BY <1>1 DEF BasketKinds, Tick
  <2>2. bkLeft' = [[bkLeft EXCEPT !.bars = bkLeft.bars - 1] EXCEPT !.events = bkLeft.events - cost]
    BY <1>1 DEF Tick, BasketKinds
  <2>. HIDE DEF cost
  <2>. QED BY <1>1, <2>1, <2>2 DEF BasketKinds
<1>3. BasketKinds'
  <2>1. px' \in Nat \ {0}
    <3>1. px \in Nat /\ move \in Int
      BY <1>1, BasketNumbers DEF BasketKinds
    <3>. QED BY <3>1 DEF Tick
  <2>. QED BY <1>1, <1>2, <2>1 DEF BasketKinds, Tick
<1>4. Stays(legs', legs)
  BY <1>1, KeptStays DEF Tick
<1>5. BankedAtMost'
  BY DEF Tick, BasketInv, BankedAtMost
<1>. QED BY <1>3, <1>4, <1>5, SameBasket DEF Tick

\* What a pass over the basket, or a close, leaves behind.
LEMMA PutKeeps ==
  ASSUME BasketInv, NEW s, Leads(s, Now), Put(s),
         UNCHANGED <<px, disk, lastEntry, entryMode, opened>>,
         bkPhase' \in {"tick", "signal", "manage", "reentry"}, bkEvent' \in BarEvents,
         bkLeft' \in [bars : Nat, restarts : Nat, events : Nat]
  PROVE  BasketInv' /\ Safe(legs', legs)
<1>1. BasketKinds /\ Now.legs = legs /\ Now.gv = gv
  BY DEF BasketInv, Now
<1>2. s.gv \in Flags /\ gv' = s.gv /\ legs' = s.legs
  BY PassParts DEF Leads, Put
<1>3. Stays(legs', legs) /\ gv'.mode = gv.mode /\ (gv'.taken = 0 => gv.taken = 0)
  BY <1>1, <1>2 DEF Leads
<1>4. BasketKinds'
  BY <1>1, <1>2 DEF BasketKinds
<1>5. BankedAtMost'
  BY <1>3 DEF BasketInv, BankedAtMost
<1>. QED BY <1>3, <1>4, <1>5, SameBasket

LEMMA NowSound ==
  ASSUME BasketInv
  PROVE  /\ Now \in Passes /\ Now.legs = legs /\ Now.gv = gv
         /\ ~Flat(legs) => Sound(Now) /\ Market
<1>1. legs \in Seq(Leg) /\ gv \in Flags /\ Ordered(legs)
  BY DEF BasketInv, Book, BasketKinds
<1>2. Now \in Passes /\ Now.legs = legs /\ Now.gv = gv
  BY <1>1 DEF Now, Passes
<1>. QED BY <1>1, <1>2 DEF Sound, Flat, Market, BasketInv, BasketKinds

\* A step that leaves the legs and their flags alone.
LEMMA NothingMoves ==
  ASSUME BasketInv, UNCHANGED <<px, legs, gv, disk, lastEntry, opened>>,
         entryMode' \in BasketModes,
         bkPhase' \in {"tick", "signal", "manage", "reentry"}, bkEvent' \in BarEvents,
         bkLeft' \in [bars : Nat, restarts : Nat, events : Nat]
  PROVE  BasketInv' /\ Safe(legs', legs)
<1>1. Stays(legs', legs)
  BY StaysSelf DEF BasketInv, Book
<1>2. BasketKinds' /\ BankedAtMost'
  BY DEF BasketInv, BasketKinds, BankedAtMost
<1>. QED BY <1>1, <1>2, SameBasket

LEMMA BarSignalKeeps ==
  ASSUME BasketInv, NEW sent \in BOOLEAN, NEW deaf, BarSignal(sent, deaf)
  PROVE  BasketInv' /\ Safe(legs', legs)
<1>. DEFINE s == IF Closes(bkEvent) THEN AllClosed(Now, deaf) ELSE Now
<1>1. /\ UNCHANGED <<px, entryMode, bkEvent, bkLeft>> /\ bkPhase' = "manage"
      /\ OnSignal(bkEvent, sent, deaf)
      /\ bkEvent' \in BarEvents /\ bkLeft' \in [bars : Nat, restarts : Nat, events : Nat]
      /\ bkPhase' \in {"tick", "signal", "manage", "reentry"} /\ entryMode' \in BasketModes
  BY DEF BarSignal, BasketInv, BasketKinds
<1>2. CASE IsEntry(bkEvent) /\ OpenBasket(bkEvent)
  <2>1. bkEvent \in Sides
    BY <1>2 DEF IsEntry, Sides
  <2>. QED BY <1>1, <1>2, <2>1, OpenKeeps
<1>3. CASE NothingOpens(s)
  <2>1. CASE Closes(bkEvent)
    <3>1. Sound(Now)
      BY <2>1, NowSound DEF Closes
    <3>2. Leads(s, Now)
      BY <2>1, <3>1, AllClosedLeads
    <3>. QED BY <1>1, <1>3, <3>2, PutKeeps DEF NothingOpens
  <2>2. CASE ~Closes(bkEvent)
    <3>1. legs' = legs /\ gv' = gv
      BY <1>3, <2>2, NowSound DEF NothingOpens, Put
    <3>. QED BY <1>1, <1>3, <3>1, NothingMoves DEF NothingOpens
  <2>. QED BY <2>1, <2>2
<1>. QED BY <1>1, <1>2, <1>3 DEF OnSignal

\* The ratchet moves the stop of the oldest leg ahead only.
LEMMA RatchetedStays ==
  ASSUME px \in Nat \ {0}, NEW ls \in Seq(Leg), Ordered(ls), Len(ls) >= 2, NEW deaf
  PROVE  Stays(Ratcheted(ls, deaf), ls)
<1>. DEFINE S == ls[1].sl
            E == ls[1].open
            k == Len(ls)
            N == IF k = 2 THEN (S + E) \div 2 ELSE (ls[k - 2].open + ls[k - 1].open) \div 2
<1>1. /\ k \in Nat /\ 1 \in 1..k /\ ls # <<>> /\ ls[1] \in Leg
      /\ S \in Int /\ E \in Nat /\ Side(ls) = ls[1].dir
  <2>1. k \in Nat /\ 1 \in 1..k /\ ls # <<>>
    BY LenProperties, EmptySeq
  <2>. QED BY <2>1, LegParts DEF Side
<1>2. N \in Int
  <2>1. CASE k = 2
    BY <1>1, <2>1
  <2>2. CASE k # 2
    <3>1. k - 2 \in 1..k /\ k - 1 \in 1..k
      <4>1. k \in Nat /\ k >= 2 /\ k # 2
        BY <1>1, <2>2
      <4>. HIDE DEF k
      <4>. QED BY <4>1
    <3>2. ls[k - 2].open \in Nat /\ ls[k - 1].open \in Nat
      BY <3>1, LegParts
    <3>. QED BY <2>2, <3>2
  <2>. QED BY <2>1, <2>2
<1>3. \/ Ratcheted(ls, deaf) = ls
      \/ Ratcheted(ls, deaf) = Restopped(ls, Tickets(ls), N, deaf) /\ IsTighter(Side(ls), N, S)
  BY DEF Ratcheted
<1>. HIDE DEF N, S
<1>4. ASSUME IsTighter(Side(ls), N, S)
      PROVE  Stays(Restopped(ls, Tickets(ls), N, deaf), ls)
  <2>1. RiskFree(ls[1]) /\ Accepts(ls[1], N, deaf) => RiskFree([ls[1] EXCEPT !.sl = N])
    BY <1>1, <1>2, <1>4, TighterKeeps DEF S
  <2>. QED BY <1>1, <1>2, <2>1, RestoppedStays
<1>. QED BY <1>3, <1>4, StaysSelf

LEMMA AddLotsCount ==
  ASSUME NEW s, Sound(s), s.legs # <<>> PROVE AddLots(s) \in Nat \ {0}
<1>1. /\ \A v \in Nat : TenthsOf(7, v) \in Nat \ {0}
      /\ \A v \in Nat : TenthsOf(4, v) \in Nat \ {0}
  <2>1. ASSUME NEW v \in Nat PROVE TenthsOf(7, v) \in Nat \ {0}
    BY DEF TenthsOf
  <2>2. ASSUME NEW v \in Nat PROVE TenthsOf(4, v) \in Nat \ {0}
    BY DEF TenthsOf
  <2>. QED BY <2>1, <2>2
<1>2. Last(s.legs).lots \in Nat
  <2>1. Len(s.legs) \in 1..Len(s.legs) /\ s.legs \in Seq(Leg)
    BY LenProperties, EmptySeq, PassParts
  <2>. QED BY <2>1, LegParts DEF Last
<1>3. EntryLots \in Nat
  BY BasketNumbers
<1>. DEFINE size == TenthsOf(IF Len(legs) = 1 THEN 7 ELSE 4, EntryLots)
            cap == TenthsOf(7, Last(s.legs).lots)
<1>4. size \in Nat \ {0} /\ cap \in Nat \ {0}
  BY <1>1, <1>2, <1>3
<1>5. AddLots(s) = IF size < cap THEN size ELSE cap
  BY DEF AddLots
<1>. HIDE DEF size, cap
<1>. QED BY <1>4, <1>5

\* An add behind what the pass has left: the ratchet moves the legs of before
\* and the new one.
LEMMA AddKeeps ==
  ASSUME BasketInv, legs # <<>>, Len(legs) < MaxLegs, NEW s, Sound(s), Stays(s.legs, legs),
         s.legs # <<>>, NEW deaf, NEW l \in Leg, l.n = opened.count + 1, l.dir = Side(legs),
         NEW new, new = Ratcheted(Append(s.legs, l), deaf)
  PROVE  Book(new, opened.count + 1) /\ Safe(new, legs)
<1>1. /\ opened.count \in Nat /\ opened.count + 1 \in Nat /\ Book(legs, opened.count)
      /\ px \in Nat \ {0} /\ MaxLegs \in Nat
  BY BasketNumbers DEF BasketInv, BasketKinds
<1>2. /\ Book(s.legs, opened.count) /\ Safe(s.legs, legs) /\ s.legs[1].dir = legs[1].dir
      /\ Len(s.legs) <= Len(legs)
  <2>1. Len(s.legs) <= Len(legs)
    BY DEF Stays
  <2>2. Book(s.legs, opened.count) /\ Safe(s.legs, legs) /\ s.legs[1].dir = legs[1].dir
    BY <1>1, BookStays
  <2>. QED BY <2>1, <2>2
<1>. DEFINE app == Append(s.legs, l)
<1>3. Book(app, opened.count + 1)
  <2>1. Len(s.legs) < MaxLegs
    <3>1. legs \in Seq(Leg) /\ s.legs \in Seq(Leg)
      BY <1>1, <1>2 DEF Book
    <3>. QED BY <1>1, <1>2, <3>1, LenProperties
  <2>. QED BY <1>1, <1>2, <2>1, BookAppend DEF Side
<1>4. /\ s.legs \in Seq(Leg) /\ Len(s.legs) \in Nat /\ 1 \in 1..Len(s.legs)
      /\ Len(app) = Len(s.legs) + 1 /\ app[1] = s.legs[1]
  <2>1. s.legs \in Seq(Leg) /\ Len(s.legs) \in Nat /\ 1 \in 1..Len(s.legs)
    BY LenProperties, EmptySeq, PassParts
  <2>. QED BY <2>1, AppendProperties
<1>. HIDE DEF app
<1>5. Stays(new, app)
  <2>1. app \in Seq(Leg) /\ Ordered(app) /\ Len(app) >= 2
    BY <1>3, <1>4 DEF Book
  <2>2. new = Ratcheted(app, deaf)
    BY DEF app
  <2>. QED BY <1>1, <2>1, <2>2, RatchetedStays
<1>6. Book(new, opened.count + 1) /\ Safe(new, app)
  BY <1>1, <1>3, <1>5, BookStays
<1>7. Safe(new, legs)
  <2>. SUFFICES ASSUME NEW k \in DOMAIN new, new[k].n = legs[1].n, RiskFree(legs[1])
                PROVE  RiskFree(new[k])
    BY DEF Safe
  <2>1. k \in 1..Len(new) /\ DOMAIN s.legs = 1..Len(s.legs)
    BY <1>4, <1>6, LenProperties DEF Book
  <2>2. PICK j \in 1..Len(app) : /\ new[k].n = app[j].n
                                 /\ j = 1 /\ RiskFree(app[1]) => RiskFree(new[k])
    BY <1>5, <2>1 DEF Stays
  <2>3. PICK m \in 1..Len(legs) : s.legs[1].n = legs[m].n
    BY <1>4 DEF Stays
  <2>4. /\ legs \in Seq(Leg) /\ 1 \in 1..Len(legs) /\ Len(legs) \in Nat
        /\ legs[1].n \in Nat /\ legs[m].n \in Nat
    <3>1. legs \in Seq(Leg)
      BY <1>1 DEF Book
    <3>2. 1 \in 1..Len(legs) /\ Len(legs) \in Nat
      BY <3>1, LenProperties, EmptySeq
    <3>. QED BY <3>1, <3>2, LegParts
  <2>5. legs[1].n <= legs[m].n
    BY <1>1, <2>4 DEF Book, Ordered
  <2>6. j = 1
    <3>1. app[1].n \in Nat /\ app[j].n \in Nat
      <4>1. app \in Seq(Leg) /\ 1 \in 1..Len(app)
        BY <1>3, <1>4 DEF Book
      <4>. QED BY <4>1, LegParts
    <3>2. j # 1 => app[1].n < app[j].n
      <4>1. 1 \in 1..Len(app)
        BY <1>4
      <4>. QED BY <1>3, <1>4, <4>1 DEF Book, Ordered
    <3>. QED BY <1>4, <2>2, <2>3, <2>4, <2>5, <3>1, <3>2
  <2>7. RiskFree(s.legs[1])
    <3>1. s.legs[1].n = legs[1].n
      BY <1>4, <2>2, <2>6
    <3>. QED BY <1>2, <1>4, <2>1, <3>1 DEF Safe, Flat
  <2>. QED BY <1>4, <2>2, <2>6, <2>7
<1>. QED BY <1>6, <1>7

LEMMA ManageKeeps ==
  ASSUME BasketInv, NEW sent \in BOOLEAN, NEW deaf, Manage(sent, deaf)
  PROVE  BasketInv' /\ Safe(legs', legs)
<1>. DEFINE s == Managed(deaf)
            add == AddDue(s) /\ sent
            l == NewLeg(Side(legs), AddLots(s), StartStop(Side(legs)))
            b == IF Tp1Banks(Stagnation(Now, deaf), deaf) THEN 1 ELSE 0
            c == IF add THEN 1 ELSE 0
<1>1. /\ Sound(Now) /\ Market /\ Now.legs = legs /\ Now.gv = gv /\ legs # <<>>
      /\ BasketKinds /\ Book(legs, opened.count) /\ opened.count \in Nat
  BY NowSound DEF Manage, Flat, BasketInv, BasketKinds
<1>2. Leads(s, Now) /\ (b = 1 => gv.taken = 0 /\ s.gv.taken # 0)
  BY <1>1, ManagedLeads
<1>3. /\ \/ add /\ legs' = Ratcheted(Append(s.legs, l), deaf) /\ lastEntry' = px
         \/ ~add /\ legs' = s.legs /\ lastEntry' = lastEntry
      /\ gv' = s.gv
      /\ opened' = [opened EXCEPT !.count = opened.count + c, !.banks = opened.banks + b]
      /\ bkPhase' = "reentry" /\ UNCHANGED <<px, disk, entryMode, bkEvent, bkLeft>>
  BY <1>1 DEF Manage, Counted, BasketKinds
<1>4. b \in {0, 1} /\ c \in {0, 1} /\ (add <=> c = 1)
  OBVIOUS
<1>5. add => ~s.done /\ Len(legs) < MaxLegs
  BY DEF AddDue
<1>. HIDE DEF b, c, s, add
<1>6. /\ Sound(s) /\ s.gv \in Flags /\ Stays(s.legs, legs) /\ s.gv.mode = gv.mode
      /\ (s.gv.taken = 0 => gv.taken = 0)
  BY <1>1, <1>2, PassParts DEF Leads
<1>7. /\ opened' \in [count : Nat, mode : EntryModes, banks : Nat, kills : Nat]
      /\ opened'.count = opened.count + c /\ opened'.banks = opened.banks + b
      /\ opened'.kills = opened.kills /\ opened'.mode = opened.mode
  <2>. DEFINE counted == [opened EXCEPT !.count = opened.count + c]
  <2>1. /\ counted \in [count : Nat, mode : EntryModes, banks : Nat, kills : Nat]
        /\ counted.count = opened.count + c /\ counted.banks = opened.banks
        /\ counted.kills = opened.kills /\ counted.mode = opened.mode
    BY <1>1, <1>4 DEF BasketKinds
  <2>2. opened' = [counted EXCEPT !.banks = opened.banks + b]
    BY <1>1, <1>3 DEF BasketKinds
  <2>. HIDE DEF counted
  <2>. QED BY <1>4, <2>1, <2>2
<1>8. BasketKinds'
  <2>1. lastEntry' \in Int
    BY <1>1, <1>3 DEF BasketKinds
  <2>. QED BY <1>1, <1>3, <1>6, <1>7, <2>1 DEF BasketKinds
<1>9. OneMode' /\ BankedAtMost'
  <2>1. BankedAtMost /\ OneMode /\ opened.banks \in Nat /\ opened.kills \in Nat
    BY <1>1 DEF BasketInv, BasketKinds
  <2>2. OneMode'
    BY <1>1, <1>3, <1>6, <1>7, <2>1 DEF OneMode
  <2>3. BankedAtMost'
    BY <1>2, <1>3, <1>4, <1>6, <1>7, <2>1 DEF BankedAtMost
  <2>. QED BY <2>2, <2>3
<1>10. CASE add
  <2>1. s.legs # <<>>
    BY <1>5, <1>6, <1>10 DEF Sound
  <2>2. Side(legs) \in Sides
    <3>1. 1 \in 1..Len(legs) /\ legs \in Seq(Leg)
      BY <1>1, LenProperties, EmptySeq DEF Book
    <3>. QED BY <3>1, LegParts DEF Side
  <2>3. AddLots(s) \in Nat \ {0}
    BY <1>6, <2>1, AddLotsCount
  <2>4. l \in Leg /\ l.n = opened.count + 1 /\ l.dir = Side(legs)
    BY <1>1, <2>2, <2>3, NewLegIsLeg
  <2>. HIDE DEF l
  <2>5. Book(legs', opened.count + 1) /\ Safe(legs', legs)
    <3>1. legs' = Ratcheted(Append(s.legs, l), deaf)
      BY <1>3, <1>10
    <3>. DEFINE new == legs'
    <3>2. new = Ratcheted(Append(s.legs, l), deaf)
      BY <3>1
    <3>. HIDE DEF new
    <3>3. Book(new, opened.count + 1) /\ Safe(new, legs)
      BY <1>1, <1>5, <1>6, <1>10, <2>1, <2>4, <3>2, AddKeeps
    <3>. QED BY <3>3 DEF new
  <2>. QED BY <1>4, <1>7, <1>8, <1>9, <1>10, <2>5 DEF BasketInv
<1>11. CASE ~add
  <2>1. opened'.count = opened.count
    BY <1>1, <1>4, <1>7, <1>11
  <2>2. Stays(legs', legs) /\ gv'.mode = gv.mode /\ disk'.mode = disk.mode
    BY <1>3, <1>6, <1>11
  <2>. QED BY <1>7, <1>8, <1>9, <2>1, <2>2, SameBasket
<1>. QED BY <1>10, <1>11

\* A command for the legs alone.
LEMMA LegsMove ==
  ASSUME BasketInv, Stays(legs', legs), OnlyLegs, SpendEvent
  PROVE  BasketInv' /\ Safe(legs', legs)
<1>1. bkLeft' \in [bars : Nat, restarts : Nat, events : Nat]
  <2>1. bkLeft.events - 1 \in Nat
    BY DEF BasketInv, BasketKinds, SpendEvent
  <2>. QED BY <2>1 DEF BasketInv, BasketKinds, SpendEvent
<1>2. BasketKinds' /\ BankedAtMost'
  BY <1>1 DEF BasketInv, BasketKinds, BankedAtMost, OnlyLegs
<1>. QED BY <1>2, SameBasket DEF OnlyLegs

LEMMA TightenedStays ==
  ASSUME BasketInv, NEW stops, \A k \in DOMAIN legs : stops[k] \in Int, NEW deaf
  PROVE  Stays(Tightened(stops, deaf), legs)
<1>. DEFINE new == Tightened(stops, deaf)
<1>1. /\ px \in Nat \ {0} /\ legs \in Seq(Leg) /\ Ordered(legs) /\ Len(legs) \in Nat
      /\ DOMAIN legs = 1..Len(legs) /\ (legs # <<>> => 1 \in 1..Len(legs))
      /\ \A k \in 1..Len(legs) : legs[k] \in Leg
  <2>1. legs \in Seq(Leg) /\ Ordered(legs) /\ px \in Nat \ {0}
    BY DEF BasketInv, BasketKinds, Book
  <2>. QED BY <2>1, LenProperties, EmptySeq, LegParts
<1>2. \A k \in 1..Len(legs) :
         \/ new[k] = legs[k]
         \/ /\ new[k] = [legs[k] EXCEPT !.sl = stops[k]]
            /\ legs[k].sl = 0 \/ IsTighter(legs[k].dir, stops[k], legs[k].sl)
            /\ Accepts(legs[k], stops[k], deaf)
  BY <1>1 DEF Tightened
<1>3. new = [k \in 1..Len(legs) |-> new[k]]
  BY <1>1 DEF Tightened
<1>. HIDE DEF new
<1>4. \A k \in 1..Len(legs) : new[k] \in Leg /\ new[k].n = legs[k].n
                              /\ new[k].dir = legs[k].dir /\ new[k].open = legs[k].open
  <2>. SUFFICES ASSUME NEW k \in 1..Len(legs)
                PROVE  new[k] \in Leg /\ new[k].n = legs[k].n
                       /\ new[k].dir = legs[k].dir /\ new[k].open = legs[k].open
    OBVIOUS
  <2>. DEFINE l == legs[k]
  <2>1. l \in Leg
    BY <1>1
  <2>2. CASE new[k] = l
    BY <2>1, <2>2
  <2>3. CASE new[k] = [l EXCEPT !.sl = stops[k]]
    <3>. DEFINE stop == stops[k]
    <3>1. stop \in Int
      BY <1>1
    <3>. HIDE DEF l, stop
    <3>2. [l EXCEPT !.sl = stop] \in Leg /\ [l EXCEPT !.sl = stop].n = l.n
          /\ [l EXCEPT !.sl = stop].dir = l.dir /\ [l EXCEPT !.sl = stop].open = l.open
      BY <2>1, <3>1, Restop
    <3>. QED BY <2>3, <3>2 DEF l, stop
  <2>. QED BY <1>2, <2>2, <2>3
<1>5. new \in Seq(Leg) /\ Len(new) = Len(legs)
  BY <1>1, <1>3, <1>4
<1>6. legs # <<>> /\ RiskFree(legs[1]) => RiskFree(new[1])
  <2>. SUFFICES ASSUME legs # <<>>, RiskFree(legs[1]) PROVE RiskFree(new[1])
    OBVIOUS
  <2>1. legs[1] \in Leg /\ stops[1] \in Int
    BY <1>1
  <2>2. CASE new[1] = legs[1]
    BY <2>2
  <2>3. CASE /\ new[1] = [legs[1] EXCEPT !.sl = stops[1]]
             /\ legs[1].sl = 0 \/ IsTighter(legs[1].dir, stops[1], legs[1].sl)
             /\ Accepts(legs[1], stops[1], deaf)
    <3>1. IsTighter(legs[1].dir, stops[1], legs[1].sl)
      BY <2>3 DEF RiskFree
    <3>. QED BY <1>1, <2>1, <2>3, <3>1, TighterKeeps
  <2>. QED BY <1>1, <1>2, <2>2, <2>3
<1>7. Stays(new, legs)
  BY <1>1, <1>4, <1>5, <1>6, SameLegs
<1>. QED BY <1>7 DEF new

LEMMA MoveStopsKeeps ==
  ASSUME BasketInv, NEW deaf, MoveStopsTight(deaf) \/ MoveStopsBreakeven(deaf)
  PROVE  BasketInv' /\ Safe(legs', legs)
<1>1. legs \in Seq(Leg) /\ px \in Int /\ DOMAIN legs = 1..Len(legs)
  BY LenProperties DEF BasketInv, BasketKinds, Book
<1>2. CASE MoveStopsTight(deaf)
  <2>. DEFINE stops == [k \in DOMAIN legs |-> px - Toward(legs[k].dir) * StopsLevel]
  <2>1. \A k \in DOMAIN legs : stops[k] \in Int
    BY <1>1, BasketNumbers DEF Toward
  <2>2. legs' = Tightened(stops, deaf) /\ OnlyLegs /\ SpendEvent
    BY <1>2 DEF MoveStopsTight
  <2>. HIDE DEF stops
  <2>. QED BY <2>1, <2>2, TightenedStays, LegsMove
<1>3. CASE MoveStopsBreakeven(deaf)
  <2>. DEFINE stops == [k \in DOMAIN legs |-> legs[k].open]
  <2>1. \A k \in DOMAIN legs : stops[k] \in Int
    BY <1>1, LegParts
  <2>2. legs' = Tightened(stops, deaf) /\ OnlyLegs /\ SpendEvent
    BY <1>3 DEF MoveStopsBreakeven
  <2>. HIDE DEF stops
  <2>. QED BY <2>1, <2>2, TightenedStays, LegsMove
<1>. QED BY <1>2, <1>3

\* A leg of the smallest size is not among those that are halved.
LEMMA CloseHalfKeeps ==
  ASSUME BasketInv, NEW deaf, CloseHalf(deaf)
  PROVE  BasketInv' /\ Safe(legs', legs)
<1>. DEFINE big == {legs[k].n : k \in {j \in DOMAIN legs : legs[j].lots > 1}}
            left == Kept(legs, deaf \cup big)
            Less(l) == IF l.n \in deaf THEN l ELSE [l EXCEPT !.lots = @ - HalfLots(@)]
<1>1. legs \in Seq(Leg) /\ Ordered(legs) /\ DOMAIN legs = 1..Len(legs) /\ Len(legs) \in Nat
  BY LenProperties DEF BasketInv, Book
<1>2. legs' = [k \in DOMAIN left |-> Less(left[k])] /\ OnlyLegs /\ SpendEvent
  BY DEF CloseHalf
<1>3. /\ Stays(left, legs)
      /\ \A k \in 1..Len(left) : left[k].n \in deaf \cup big
      /\ \A k \in 1..Len(left) : \E j \in 1..Len(legs) : left[k] = legs[j]
  <2>. HIDE DEF big
  <2>. QED BY <1>1, KeptStays
<1>. HIDE DEF left
<1>4. left \in Seq(Leg) /\ Ordered(left) /\ DOMAIN left = 1..Len(left) /\ Len(left) \in Nat
  <2>1. left \in Seq(Leg) /\ Ordered(left)
    BY <1>3 DEF Stays
  <2>. QED BY <2>1, LenProperties
<1>5. ASSUME NEW k \in 1..Len(left), left[k].n \notin deaf
      PROVE  left[k].lots - HalfLots(left[k].lots) \in Nat \ {0}
  <2>1. PICK j \in 1..Len(legs) : left[k] = legs[j]
    BY <1>3
  <2>2. PICK i \in 1..Len(legs) : left[k].n = legs[i].n /\ legs[i].lots > 1
    BY <1>1, <1>3, <1>5
  <2>3. legs[i].n \in Nat /\ legs[j].n \in Nat /\ legs[i].lots \in Nat
    BY <1>1, LegParts
  <2>4. i = j
    BY <1>1, <2>1, <2>2, <2>3 DEF Ordered
  <2>. QED BY <2>1, <2>2, <2>3, <2>4 DEF HalfLots
<1>. DEFINE new == legs'
<1>6. \A k \in 1..Len(left) : new[k] = Less(left[k])
  BY <1>2, <1>4
<1>7. \A k \in 1..Len(left) : /\ Less(left[k]) \in Leg /\ Less(left[k]).n = left[k].n
                              /\ Less(left[k]).dir = left[k].dir
                              /\ Less(left[k]).open = left[k].open /\ Less(left[k]).sl = left[k].sl
  <2>. SUFFICES ASSUME NEW k \in 1..Len(left)
                PROVE  /\ Less(left[k]) \in Leg /\ Less(left[k]).n = left[k].n
                       /\ Less(left[k]).dir = left[k].dir
                       /\ Less(left[k]).open = left[k].open /\ Less(left[k]).sl = left[k].sl
    OBVIOUS
  <2>1. left[k] \in Leg
    BY <1>4, LegParts
  <2>. QED BY <1>5, <2>1 DEF Leg
<1>8. new \in Seq(Leg) /\ Len(new) = Len(left)
  <2>1. new = [k \in 1..Len(left) |-> Less(left[k])]
    BY <1>2, <1>4
  <2>. HIDE DEF Less, new
  <2>. QED BY <1>4, <1>7, <2>1
<1>. HIDE DEF Less, new
<1>9. Stays(new, left)
  <2>1. left # <<>> /\ RiskFree(left[1]) => RiskFree(new[1])
    <3>1. left # <<>> => 1 \in 1..Len(left)
      BY <1>4, EmptySeq
    <3>. QED BY <1>6, <1>7, <3>1 DEF RiskFree
  <2>. QED BY <1>4, <1>6, <1>7, <1>8, <2>1, SameLegs
<1>10. Stays(new, legs)
  BY <1>1, <1>3, <1>9, StaysLonger
<1>11. Stays(legs', legs)
  BY <1>10 DEF new
<1>. QED BY <1>2, <1>11, LegsMove

LEMMA CloseTicketKeeps == ASSUME BasketInv, CloseTicket PROVE BasketInv' /\ Safe(legs', legs)
<1>1. legs \in Seq(Leg) /\ Ordered(legs)
  BY DEF BasketInv, Book
<1>2. Stays(legs', legs)
  BY <1>1, KeptStays DEF CloseTicket
<1>. QED BY <1>2, LegsMove DEF CloseTicket

LEMMA SpentKinds ==
  ASSUME BasketInv, SpendEvent
  PROVE  bkLeft' \in [bars : Nat, restarts : Nat, events : Nat]
<1>1. bkLeft.events - 1 \in Nat
  BY DEF BasketInv, BasketKinds, SpendEvent
<1>. QED BY <1>1 DEF BasketInv, BasketKinds, SpendEvent

LEMMA CloseAllKeeps == ASSUME BasketInv, NEW deaf, CloseAll(deaf) PROVE BasketInv' /\ Safe(legs', legs)
<1>1. Leads(AllClosed(Now, deaf), Now)
  BY NowSound, AllClosedLeads DEF CloseAll
<1>2. bkPhase \in {"tick", "signal", "manage", "reentry"} /\ bkEvent \in BarEvents
  BY DEF BasketInv, BasketKinds
<1>. QED BY <1>1, <1>2, SpentKinds, PutKeeps DEF CloseAll

LEMMA SwitchEntryModeKeeps ==
  ASSUME BasketInv, SwitchEntryMode PROVE BasketInv' /\ Safe(legs', legs)
<1>1. bkPhase \in {"tick", "signal", "manage", "reentry"} /\ bkEvent \in BarEvents
  BY DEF BasketInv, BasketKinds
<1>. QED BY <1>1, SpentKinds, NothingMoves DEF SwitchEntryMode

LEMMA RestKeeps ==
  ASSUME BasketInv, ManageFlat \/ NoReentry
  PROVE  BasketInv' /\ Safe(legs', legs)
<1>1. entryMode \in BasketModes /\ bkEvent \in BarEvents
      /\ bkLeft \in [bars : Nat, restarts : Nat, events : Nat]
  BY DEF BasketInv, BasketKinds
<1>. QED BY <1>1, NothingMoves DEF ManageFlat, NoReentry

\* The latch is taken off, whether the entry is sent or not.
LEMMA ReenterKeeps ==
  ASSUME BasketInv, NEW sent \in BOOLEAN, Reenter(sent) PROVE BasketInv' /\ Safe(legs', legs)
<1>1. BasketKinds /\ gv \in Flags /\ legs \in Seq(Leg) /\ Ordered(legs)
  BY DEF BasketInv, BasketKinds, Book
<1>2. /\ UNCHANGED <<px, entryMode, bkEvent, bkLeft>> /\ bkPhase' = "tick"
      /\ bkPhase' \in {"tick", "signal", "manage", "reentry"} /\ bkEvent' \in BarEvents
      /\ bkLeft' \in [bars : Nat, restarts : Nat, events : Nat]
  BY <1>1 DEF Reenter, BasketKinds
<1>3. CASE OpenBasket(gv.armed)
  <2>1. gv.armed \in Sides
    BY <1>1 DEF Reenter, MayReenter, Flags
  <2>. QED BY <1>2, <1>3, <2>1, OpenKeeps
<1>4. CASE NothingOpens([Now EXCEPT !.gv.armed = "none"])
  <2>1. legs' = legs /\ gv' = [gv EXCEPT !.armed = "none"]
    <3>1. [Now EXCEPT !.gv.armed = "none"].legs = legs
      BY DEF Now
    <3>2. [Now EXCEPT !.gv.armed = "none"].gv = [gv EXCEPT !.armed = "none"]
      BY DEF Now
    <3>. QED BY <1>4, <3>1, <3>2 DEF NothingOpens, Put
  <2>2. gv' \in Flags /\ gv'.mode = gv.mode /\ gv'.taken = gv.taken
    BY <1>1, <2>1 DEF Flags
  <2>3. BasketKinds' /\ BankedAtMost'
    BY <1>1, <1>2, <1>4, <2>2 DEF NothingOpens, BasketInv, BasketKinds, BankedAtMost
  <2>4. Stays(legs', legs)
    BY <1>1, <2>1, StaysSelf
  <2>. QED BY <1>4, <2>2, <2>3, <2>4, SameBasket DEF NothingOpens
<1>. QED BY <1>3, <1>4 DEF Reenter

\* A hard kill brings back what was flushed, and may undo a bank.
LEMMA EaRestartKeeps ==
  ASSUME BasketInv, NEW hard \in BOOLEAN, EaRestart(hard)
  PROVE  BasketInv' /\ Safe(legs', legs)
<1>1. /\ BasketKinds /\ BankedAtMost /\ gv \in Flags /\ disk \in Flags
      /\ opened \in [count : Nat, mode : EntryModes, banks : Nat, kills : Nat]
      /\ bkLeft \in [bars : Nat, restarts : Nat, events : Nat]
      /\ legs \in Seq(Leg) /\ Ordered(legs)
  BY DEF BasketInv, BasketKinds, Book
<1>2. gv' \in Flags /\ disk' \in Flags /\ gv' \in {gv, disk} /\ disk' = gv' /\ (~hard => gv' = gv)
  BY <1>1 DEF EaRestart
<1>. DEFINE one == IF hard THEN 1 ELSE 0
<1>3. /\ opened' \in [count : Nat, mode : EntryModes, banks : Nat, kills : Nat]
      /\ opened'.count = opened.count /\ opened'.mode = opened.mode
      /\ opened'.banks = opened.banks /\ opened'.kills = opened.kills + one
  <2>1. opened' = [opened EXCEPT !.kills = opened.kills + one]
    BY <1>1 DEF EaRestart
  <2>2. one \in {0, 1}
    OBVIOUS
  <2>. HIDE DEF one
  <2>. QED BY <1>1, <2>1, <2>2
<1>4. bkLeft' \in [bars : Nat, restarts : Nat, events : Nat]
  <2>1. bkLeft.restarts - 1 \in Nat
    BY <1>1 DEF EaRestart
  <2>. QED BY <1>1, <2>1 DEF EaRestart
<1>5. BasketKinds'
  <2>1. bkPhase' = "tick" /\ bkEvent' = "plain" /\ lastEntry' = 0
        /\ UNCHANGED <<px, legs, entryMode>> /\ "plain" \in BarEvents
    BY DEF EaRestart, BarEvents
  <2>. QED BY <1>1, <1>2, <1>3, <1>4, <2>1 DEF BasketKinds
<1>6. BankedAtMost'
  <2>1. CASE hard
    <3>1. opened'.kills = opened.kills + 1
      BY <1>3, <2>1
    <3>. QED BY <1>1, <1>3, <3>1 DEF BankedAtMost
  <2>2. CASE ~hard
    <3>1. opened'.kills = opened.kills /\ gv' = gv
      BY <1>1, <1>2, <1>3, <2>2
    <3>. QED BY <1>1, <1>3, <3>1 DEF BankedAtMost
  <2>. QED BY <2>1, <2>2
<1>7. Stays(legs', legs)
  BY <1>1, StaysSelf DEF EaRestart
<1>. QED BY <1>2, <1>3, <1>5, <1>6, <1>7, SameBasket

-----------------------------------------------------------------------------
LEMMA BasketStart == ASSUME BasketInit PROVE BasketInv
<1>1. Fresh \in Flags
  BY DEF Fresh, Flags, EntryModes
<1>2. /\ FirstPrice \in Nat \ {0} /\ BasketBars \in Nat /\ MaxRestarts \in Nat
      /\ MaxEvents \in Nat /\ MaxLegs \in Nat
  BY BasketNumbers
<1>3. BasketKinds
  <2>1. opened \in [count : Nat, mode : EntryModes, banks : Nat, kills : Nat]
    BY DEF BasketInit, EntryModes
  <2>2. bkLeft \in [bars : Nat, restarts : Nat, events : Nat]
    BY <1>2 DEF BasketInit
  <2>3. "plain" \in BarEvents /\ 0 \in Int
    BY DEF BarEvents
  <2>. QED BY <1>1, <1>2, <2>1, <2>2, <2>3 DEF BasketInit, BasketKinds
<1>4. Book(legs, opened.count)
  <2>1. legs = <<>> /\ <<>> \in Seq(Leg) /\ Len(<<>>) = 0
    BY DEF BasketInit
  <2>. QED BY <1>2, <2>1 DEF Book, Ordered
<1>5. OneMode /\ BankedAtMost
  BY DEF BasketInit, OneMode, BankedAtMost
<1>. QED BY <1>3, <1>4, <1>5 DEF BasketInv

LEMMA BasketStep ==
  ASSUME BasketInv, [BasketNext]_basketVars
  PROVE  BasketInv' /\ Safe(legs', legs)
<1>1. ASSUME NEW move \in PriceMoves, NEW e \in BarEvents, Tick(move, e)
      PROVE  BasketInv' /\ Safe(legs', legs)
  BY <1>1, TickKeeps
<1>2. ASSUME NEW sent \in BOOLEAN, NEW deaf \in Deafs,
             BarSignal(sent, deaf) \/ Manage(sent, deaf)
      PROVE  BasketInv' /\ Safe(legs', legs)
  BY <1>2, BarSignalKeeps, ManageKeeps
<1>3. CASE ManageFlat \/ NoReentry
  BY <1>3, RestKeeps
<1>4. ASSUME NEW sent \in BOOLEAN, Reenter(sent) PROVE BasketInv' /\ Safe(legs', legs)
  BY <1>4, ReenterKeeps
<1>5. ASSUME NEW deaf \in Deafs, \/ MoveStopsTight(deaf) \/ MoveStopsBreakeven(deaf)
                                 \/ CloseHalf(deaf) \/ CloseAll(deaf)
      PROVE  BasketInv' /\ Safe(legs', legs)
  BY <1>5, MoveStopsKeeps, CloseHalfKeeps, CloseAllKeeps
<1>6. CASE CloseTicket \/ SwitchEntryMode
  BY <1>6, CloseTicketKeeps, SwitchEntryModeKeeps
<1>7. ASSUME NEW hard \in BOOLEAN, EaRestart(hard) PROVE BasketInv' /\ Safe(legs', legs)
  BY <1>7, EaRestartKeeps
<1>8. CASE UNCHANGED basketVars
  BY <1>8, NothingMoves DEF basketVars, BasketInv, BasketKinds
<1>. QED
  BY <1>1, <1>2, <1>3, <1>4, <1>5, <1>6, <1>7, <1>8 DEF BasketNext, BarStep, OwnerCommand

LEMMA BasketStays == BasketSpec => []BasketInv
<1>1. BasketInv /\ [BasketNext]_basketVars => BasketInv'
  BY BasketStep
<1>. QED BY <1>1, BasketStart, PTL DEF BasketSpec

LEMMA BasketInvMeans == ASSUME BasketInv PROVE BasketTypeOK /\ OneBasket
<1>1. legs \in Seq(Leg) /\ DOMAIN legs = 1..Len(legs) /\ Len(legs) \in Nat
  BY LenProperties DEF BasketInv, Book
<1>2. \A k \in DOMAIN legs : legs[k].lots > 0 /\ legs[k].dir \in {"BUY", "SELL"}
  <2>1. \A k \in 1..Len(legs) : legs[k].lots \in Nat \ {0} /\ legs[k].dir \in Sides
    BY <1>1, LegParts
  <2>. QED BY <1>1, <2>1 DEF Sides
<1>3. \A k \in 1..(Len(legs) - 1) : legs[k].n < legs[k + 1].n
  BY <1>1 DEF BasketInv, Book, Ordered
<1>4. gv.taken \in 0..2 /\ gv.armed \in {"none", "BUY", "SELL"}
  BY DEF BasketInv, BasketKinds, Flags, Sides
<1>5. BasketTypeOK
  <2>1. /\ px \in Int /\ lastEntry \in Int /\ entryMode \in BasketModes
        /\ bkPhase \in {"tick", "signal", "manage", "reentry"} /\ bkEvent \in BarEvents
        /\ Len(legs) <= MaxLegs
    BY DEF BasketInv, BasketKinds, Book
  <2>. QED BY <1>2, <1>3, <1>4, <2>1 DEF BasketTypeOK
<1>6. OneDirection
  BY <1>1 DEF OneDirection, Side, BasketInv, Book
<1>7. ModeIsSticky /\ BankedOnce
  BY DEF ModeIsSticky, Flat, BankedOnce, BasketInv, OneMode, BankedAtMost
<1>. QED BY <1>5, <1>6, <1>7 DEF OneBasket

\* The legs at the broker and the flags of the terminal are of one basket: one
\* direction, the mode the basket was opened in, and one first bank but for what a
\* hard kill took back; for every price path, every size, stop and mode.
THEOREM LegsAreOneBasket == BasketSpec => [](BasketTypeOK /\ OneBasket)
<1>1. BasketInv => BasketTypeOK /\ OneBasket
  BY BasketInvMeans
<1>. QED BY <1>1, BasketStays, PTL

\* A stop of the oldest leg that has reached its entry never falls behind it again.
THEOREM StopsStayRiskFree == BasketSpec => RiskFreeStays
<1>1. BasketInv /\ [BasketNext]_basketVars
         => [\A k \in DOMAIN legs' :
               ~Flat(legs) /\ legs'[k].n = legs[1].n /\ RiskFree(legs[1]) => RiskFree(legs'[k])
            ]_basketVars
  BY BasketStep DEF Safe
<1>. QED BY <1>1, BasketStays, PTL DEF BasketSpec, RiskFreeStays

-----------------------------------------------------------------------------
(* The trade reports *)

\* The balance after the first i rows.
BalanceAt(i) == IF i = 0 THEN 0 ELSE after[i]

RowsShown == [symbol : TradeSymbols, event : {"open", "add", "close"}, final : BOOLEAN,
              profit : Profits \union {0}, ts : Nat]
ReportNumbers ==
    /\ tradeRows \in Seq(RowsShown) /\ Len(tradeRows) <= MaxRows
    /\ beatRows \in Seq([ts : Nat, balance : Int])
    /\ legsOpen \in [TradeSymbols -> Nat]
    /\ \A s \in TradeSymbols : legsOpen[s] <= Len(tradeRows)
    /\ rpNow \in Nat /\ balance \in Int
    /\ after \in Seq(Int) /\ Len(after) = Len(tradeRows)
    /\ mixed \in BOOLEAN /\ rpLeft \in [beats : Nat, gaps : Nat]

\* Rows and beats have seconds of their own, in the order of their numbers.
InOrder(table) == /\ \A i \in DOMAIN table : table[i].ts < rpNow
                  /\ \A i, j \in DOMAIN table : i < j => table[i].ts < table[j].ts

\* The balance is what the rows have earned; a beat says what the rows before it did.
RowBooked(i) == /\ after[i] = BalanceAt(i - 1) + tradeRows[i].profit
                /\ tradeRows[i].event # "close" => tradeRows[i].profit = 0
Says(h, m) == /\ beatRows[h].balance = BalanceAt(m)
              /\ \A i \in DOMAIN tradeRows : IF i <= m THEN tradeRows[i].ts < beatRows[h].ts
                                           ELSE beatRows[h].ts < tradeRows[i].ts
BookedRow == /\ balance = BalanceAt(Len(tradeRows))
             /\ \A i \in DOMAIN tradeRows : RowBooked(i)
             /\ \A h \in DOMAIN beatRows : \E m \in 0..Len(tradeRows) : Says(h, m)

\* One basket after the other: a row opens one when the row before has closed one,
\* else it is of the basket and the symbol of the row before.
Follows(i) == IF tradeRows[i].event = "open" THEN i = 1 \/ FinalClose(i - 1)
              ELSE i > 1 /\ ~FinalClose(i - 1) /\ tradeRows[i].symbol = tradeRows[i - 1].symbol
HoldsLast(s) == LET n == Len(tradeRows) IN n > 0 /\ ~FinalClose(n) /\ tradeRows[n].symbol = s
OneByOne == /\ \A i \in DOMAIN tradeRows : Follows(i)
            /\ \A s \in TradeSymbols : legsOpen[s] > 0 <=> HoldsLast(s)

ReportsInv == /\ ReportNumbers /\ InOrder(tradeRows) /\ InOrder(beatRows) /\ BookedRow
              /\ mixed \/ OneByOne

\* What a row of the table is made of.
LEMMA TableParts ==
  ASSUME NEW r \in RowsShown
  PROVE  /\ r.symbol \in TradeSymbols /\ r.event \in {"open", "add", "close"}
         /\ r.final \in BOOLEAN /\ r.profit \in Int /\ r.ts \in Nat
         /\ r.profit \in Profits \union {0} /\ r.symbol \in {"XAUUSD", "BTCUSD"}
<1>1. /\ r.symbol \in TradeSymbols /\ r.event \in {"open", "add", "close"}
      /\ r.final \in BOOLEAN /\ r.profit \in Profits \union {0} /\ r.ts \in Nat
  BY DEF RowsShown
<1>2. Profits \subseteq Int /\ TradeSymbols \subseteq {"XAUUSD", "BTCUSD"}
  BY ReportsAssumption
<1>3. r.profit \in Int
  <2>1. CASE r.profit \in Profits
    BY <1>2, <2>1
  <2>2. CASE r.profit = 0
    BY <2>2
  <2>. QED BY <1>1, <2>1, <2>2
<1>4. r.symbol \in {"XAUUSD", "BTCUSD"}
  BY <1>1, <1>2
<1>. QED BY <1>1, <1>3, <1>4

\* The tables as functions of their numbers.
LEMMA ReportTables ==
  ASSUME ReportNumbers
  PROVE  /\ Len(tradeRows) \in Nat /\ DOMAIN tradeRows = 1..Len(tradeRows)
         /\ \A i \in 1..Len(tradeRows) : tradeRows[i] \in RowsShown /\ after[i] \in Int
         /\ Len(beatRows) \in Nat /\ DOMAIN beatRows = 1..Len(beatRows)
         /\ \A h \in 1..Len(beatRows) : beatRows[h].ts \in Nat /\ beatRows[h].balance \in Int
         /\ \A i \in 0..Len(tradeRows) : BalanceAt(i) \in Int
<1>1. /\ Len(tradeRows) \in Nat /\ DOMAIN tradeRows = 1..Len(tradeRows)
      /\ \A i \in 1..Len(tradeRows) : tradeRows[i] \in RowsShown
  BY ElementOfSeq, LenProperties DEF ReportNumbers
<1>2. \A i \in 1..Len(tradeRows) : after[i] \in Int
  BY ElementOfSeq, LenProperties DEF ReportNumbers
<1>3. Len(beatRows) \in Nat /\ DOMAIN beatRows = 1..Len(beatRows)
      /\ \A h \in 1..Len(beatRows) : beatRows[h] \in [ts : Nat, balance : Int]
  BY ElementOfSeq, LenProperties DEF ReportNumbers
<1>4. \A h \in 1..Len(beatRows) : beatRows[h].ts \in Nat /\ beatRows[h].balance \in Int
  BY <1>3
<1>. QED BY <1>1, <1>2, <1>3, <1>4 DEF BalanceAt

LEMMA ReportsStart == ReportsInit => ReportsInv
<1>. SUFFICES ASSUME ReportsInit PROVE ReportsInv
  OBVIOUS
<1>1. ReportNumbers
  <2>1. MaxRows \in Nat /\ MaxBeats \in Nat /\ MaxGaps \in Nat
    BY ReportsAssumption
  <2>2. tradeRows = <<>> /\ beatRows = <<>> /\ after = <<>>
    BY DEF ReportsInit
  <2>3. /\ tradeRows \in Seq(RowsShown) /\ beatRows \in Seq([ts : Nat, balance : Int])
        /\ after \in Seq(Int) /\ Len(tradeRows) = 0 /\ Len(after) = 0
    BY <2>2, EmptySeq
  <2>4. /\ legsOpen \in [TradeSymbols -> Nat] /\ \A s \in TradeSymbols : legsOpen[s] <= 0
        /\ rpNow \in Nat /\ balance \in Int /\ rpLeft \in [beats : Nat, gaps : Nat]
    BY <2>1 DEF ReportsInit
  <2>6. mixed \in BOOLEAN
    BY DEF ReportsInit
  <2>5. Len(tradeRows) <= MaxRows /\ \A s \in TradeSymbols : legsOpen[s] <= Len(tradeRows)
    BY <2>1, <2>3, <2>4
  <2>. QED BY <2>3, <2>4, <2>5, <2>6 DEF ReportNumbers
<1>2. DOMAIN tradeRows = {} /\ DOMAIN beatRows = {} /\ Len(tradeRows) = 0
  BY DEF ReportsInit
<1>3. InOrder(tradeRows) /\ InOrder(beatRows)
  BY <1>2 DEF InOrder
<1>4. BookedRow
  BY <1>2 DEF BookedRow, BalanceAt, ReportsInit
<1>5. OneByOne
  BY <1>2 DEF OneByOne, HoldsLast, ReportsInit
<1>. QED BY <1>1, <1>3, <1>4, <1>5 DEF ReportsInv

\* A row that is inserted comes last, now.
LEMMA RowAppended ==
  ASSUME ReportNumbers, NEW s \in TradeSymbols, NEW event \in {"open", "add", "close"},
         NEW final \in BOOLEAN, NEW profit \in Profits \union {0}, Row(s, event, final, profit)
  PROVE  LET n == Len(tradeRows) IN
         /\ tradeRows' \in Seq(RowsShown) /\ Len(tradeRows') = n + 1 /\ n + 1 <= MaxRows
         /\ DOMAIN tradeRows' = 1..(n + 1)
         /\ \A i \in 1..n : tradeRows'[i] = tradeRows[i] /\ after'[i] = after[i]
         /\ tradeRows'[n + 1] = [symbol |-> s, event |-> event, final |-> final,
                                 profit |-> profit, ts |-> rpNow]
         /\ balance' = balance + profit /\ balance' \in Int /\ after'[n + 1] = balance'
         /\ after' \in Seq(Int) /\ Len(after') = n + 1
         /\ rpNow' = rpNow + 1 /\ beatRows' = beatRows /\ rpLeft' = rpLeft
<1>. DEFINE n == Len(tradeRows)
            r == [symbol |-> s, event |-> event, final |-> final, profit |-> profit,
                  ts |-> rpNow]
<1>1. n \in Nat /\ MaxRows \in Nat /\ profit \in Int /\ balance \in Int /\ n < MaxRows
  BY ReportTables, ReportsAssumption DEF ReportNumbers, Row
<1>2. r \in RowsShown
  BY DEF ReportNumbers, RowsShown
<1>3. tradeRows' = Append(tradeRows, r) /\ after' = Append(after, balance + profit)
      /\ balance' = balance + profit /\ rpNow' = rpNow + 1 /\ beatRows' = beatRows
      /\ rpLeft' = rpLeft
  BY DEF Row
<1>. HIDE DEF r
<1>4. /\ tradeRows' \in Seq(RowsShown) /\ Len(tradeRows') = n + 1 /\ tradeRows'[n + 1] = r
      /\ \A i \in 1..n : tradeRows'[i] = tradeRows[i]
  BY <1>2, <1>3, AppendProperties DEF ReportNumbers
<1>5. /\ after' \in Seq(Int) /\ Len(after') = n + 1 /\ after'[n + 1] = balance + profit
      /\ \A i \in 1..n : after'[i] = after[i]
  <2>1. after \in Seq(Int) /\ Len(after) = n /\ balance + profit \in Int
    BY <1>1 DEF ReportNumbers
  <2>. QED BY <1>1, <1>3, <2>1, AppendProperties
<1>6. DOMAIN tradeRows' = 1..(n + 1) /\ n + 1 <= MaxRows /\ balance + profit \in Int
  BY <1>1, <1>4, LenProperties
<1>. QED BY <1>3, <1>4, <1>5, <1>6 DEF r

LEMMA RowKeeps ==
  ASSUME ReportsInv, NEW s \in TradeSymbols, NEW event \in {"open", "add", "close"},
         NEW final \in BOOLEAN, NEW profit \in Profits \union {0}, Row(s, event, final, profit),
         event # "close" => profit = 0
  PROVE  InOrder(tradeRows)' /\ InOrder(beatRows)' /\ BookedRow'
<1>. USE DEF ReportsInv
<1>0. PICK n \in Nat : n = Len(tradeRows)
  BY ReportTables
<1>1. /\ DOMAIN tradeRows = 1..n /\ DOMAIN beatRows = 1..Len(beatRows)
      /\ \A i \in 1..n : tradeRows[i] \in RowsShown /\ after[i] \in Int
      /\ \A h \in 1..Len(beatRows) : beatRows[h].ts \in Nat
      /\ rpNow \in Nat /\ balance \in Int /\ profit \in Int
  <2>1. profit \in Int
    BY ReportsAssumption
  <2>2. ReportNumbers /\ rpNow \in Nat /\ balance \in Int
    BY DEF ReportNumbers
  <2>. QED BY <1>0, <2>1, <2>2, ReportTables
<1>2. /\ tradeRows' \in Seq(RowsShown) /\ Len(tradeRows') = n + 1 /\ DOMAIN tradeRows' = 1..(n + 1)
      /\ \A i \in 1..n : tradeRows'[i] = tradeRows[i] /\ after'[i] = after[i]
      /\ tradeRows'[n + 1] = [symbol |-> s, event |-> event, final |-> final,
                              profit |-> profit, ts |-> rpNow]
      /\ balance' = balance + profit /\ after'[n + 1] = balance'
      /\ rpNow' = rpNow + 1 /\ beatRows' = beatRows
  BY <1>0, RowAppended
<1>3. \A i \in 1..n : tradeRows[i].ts \in Nat /\ tradeRows[i].ts < rpNow
  <2>1. \A i \in 1..n : tradeRows[i].ts \in Nat
    BY <1>1, TableParts
  <2>. QED BY <1>1, <2>1 DEF InOrder
<1>4. /\ tradeRows'[n + 1].ts = rpNow /\ tradeRows'[n + 1].profit = profit
      /\ tradeRows'[n + 1].event = event
      /\ \A i \in 1..(n + 1) : i = n + 1 \/ i \in 1..n
  BY <1>1, <1>2
<1>5. InOrder(tradeRows)'
  <2>1. ASSUME NEW i \in 1..(n + 1) PROVE tradeRows'[i].ts < rpNow'
    <3>1. CASE i = n + 1
      BY <1>1, <1>2, <1>4, <3>1
    <3>2. CASE i \in 1..n
      BY <1>1, <1>2, <1>3, <3>2
    <3>. QED BY <1>4, <3>1, <3>2
  <2>2. ASSUME NEW i \in 1..(n + 1), NEW j \in 1..(n + 1), i < j
        PROVE  tradeRows'[i].ts < tradeRows'[j].ts
    <3>1. i \in 1..n
      BY <1>1, <2>2
    <3>2. CASE j = n + 1
      BY <1>2, <1>3, <1>4, <3>1, <3>2
    <3>3. CASE j \in 1..n
      BY <1>1, <1>2, <2>2, <3>1, <3>3 DEF InOrder
    <3>. QED BY <1>4, <3>2, <3>3
  <2>. QED BY <1>2, <2>1, <2>2 DEF InOrder
<1>6. InOrder(beatRows)'
  <2>1. \A h \in 1..Len(beatRows) : beatRows[h].ts < rpNow + 1
    BY <1>1 DEF InOrder
  <2>. QED BY <1>1, <1>2, <2>1 DEF InOrder
<1>7. \A i \in 0..n : BalanceAt(i)' = BalanceAt(i)
  <2>1. \A i \in 0..n : i = 0 \/ i \in 1..n
    BY <1>1
  <2>. QED BY <1>2, <2>1 DEF BalanceAt
<1>8. BalanceAt(n + 1)' = balance'
  BY <1>1, <1>2 DEF BalanceAt
<1>9. BookedRow'
  <2>1. balance' = BalanceAt(n + 1)'
    BY <1>8
  <2>2. ASSUME NEW i \in 1..(n + 1) PROVE RowBooked(i)'
    <3>1. CASE i = n + 1
      <4>1. balance = BalanceAt(n) /\ BalanceAt(n)' = BalanceAt(n) /\ i - 1 = n
        BY <1>0, <1>1, <1>7, <3>1 DEF BookedRow
      <4>2. after'[i] = balance + profit /\ tradeRows'[i].profit = profit
            /\ tradeRows'[i].event = event
        BY <1>2, <1>4, <3>1
      <4>. QED BY <4>1, <4>2 DEF RowBooked
    <3>2. CASE i \in 1..n
      <4>1. RowBooked(i) /\ i - 1 \in 0..n
        BY <1>1, <3>2 DEF BookedRow
      <4>2. BalanceAt(i - 1)' = BalanceAt(i - 1) /\ after'[i] = after[i]
            /\ tradeRows'[i] = tradeRows[i]
        BY <1>2, <1>7, <3>2, <4>1
      <4>. QED BY <4>1, <4>2 DEF RowBooked
    <3>. QED BY <1>4, <3>1, <3>2
  <2>3. ASSUME NEW h \in 1..Len(beatRows) PROVE \E m \in 0..(n + 1) : Says(h, m)'
    <3>1. PICK m \in 0..n : Says(h, m)
      BY <1>0, <1>1 DEF BookedRow
    <3>2. beatRows[h].ts < rpNow /\ beatRows[h].ts \in Nat
      BY <1>1 DEF InOrder
    <3>3. ASSUME NEW i \in 1..(n + 1) 
          PROVE  IF i <= m THEN tradeRows'[i].ts < beatRows[h].ts
                 ELSE beatRows[h].ts < tradeRows'[i].ts
      <4>1. CASE i = n + 1
        BY <1>1, <1>4, <3>2, <4>1
      <4>2. CASE i \in 1..n
        BY <1>1, <1>2, <3>1, <4>2 DEF Says
      <4>. QED BY <1>4, <4>1, <4>2
    <3>4. beatRows'[h].balance = BalanceAt(m)'
      BY <1>2, <1>7, <3>1 DEF Says
    <3>5. m \in 0..(n + 1)
      BY <1>1
    <3>. QED BY <1>2, <3>3, <3>4, <3>5 DEF Says
  <2>. QED BY <1>1, <1>2, <2>1, <2>2, <2>3 DEF BookedRow
<1>. QED BY <1>5, <1>6, <1>9

LEMMA LegOpensKeeps ==
  ASSUME ReportsInv, NEW s \in TradeSymbols, LegOpens(s)
  PROVE  ReportsInv'
<1>. USE DEF ReportsInv
<1>0. PICK n \in Nat : n = Len(tradeRows)
  BY ReportTables
<1>1. /\ Row(s, LegEvent(s), TRUE, 0) /\ LegEvent(s) \in {"open", "add"}
      /\ legsOpen' = [legsOpen EXCEPT ![s] = @ + 1]
      /\ mixed' = (mixed \/ \E r \in TradeSymbols \ {s} : legsOpen[r] > 0)
  BY DEF LegOpens, LegEvent
<1>2. InOrder(tradeRows)' /\ InOrder(beatRows)' /\ BookedRow'
  BY <1>1, RowKeeps
<1>3. /\ tradeRows' \in Seq(RowsShown) /\ Len(tradeRows') = n + 1 /\ n + 1 <= MaxRows
      /\ DOMAIN tradeRows' = 1..(n + 1) /\ \A i \in 1..n : tradeRows'[i] = tradeRows[i]
      /\ tradeRows'[n + 1] = [symbol |-> s, event |-> LegEvent(s), final |-> TRUE,
                              profit |-> 0, ts |-> rpNow]
      /\ balance' \in Int /\ after' \in Seq(Int) /\ Len(after') = n + 1
      /\ rpNow' = rpNow + 1 /\ beatRows' = beatRows /\ rpLeft' = rpLeft
  BY <1>0, <1>1, RowAppended
<1>4. /\ legsOpen \in [TradeSymbols -> Nat] /\ \A r \in TradeSymbols : legsOpen[r] <= n
      /\ rpNow \in Nat /\ mixed \in BOOLEAN
  BY <1>0 DEF ReportNumbers
<1>5. ReportNumbers'
  <2>1. /\ legsOpen' \in [TradeSymbols -> Nat]
        /\ \A r \in TradeSymbols : legsOpen'[r] <= n + 1
    BY <1>1, <1>4
  <2>2. mixed' \in BOOLEAN
    BY <1>1
  <2>3. rpNow' \in Nat
    BY <1>3, <1>4
  <2>. QED BY <1>3, <2>1, <2>2, <2>3 DEF ReportNumbers
<1>6. ASSUME ~mixed' PROVE OneByOne'
  <2>1. ~mixed /\ OneByOne /\ \A r \in TradeSymbols \ {s} : ~(legsOpen[r] > 0)
    BY <1>1, <1>6
  <2>2. DOMAIN tradeRows = 1..n /\ \A i \in 1..n : tradeRows[i].symbol \in TradeSymbols
    BY <1>0, ReportTables, TableParts
  <2>3. \A i \in 1..n : FinalClose(i)' = FinalClose(i)
    BY <1>3 DEF FinalClose
  <2>4. /\ tradeRows'[n + 1].symbol = s /\ tradeRows'[n + 1].event = LegEvent(s)
        /\ ~FinalClose(n + 1)'
    BY <1>1, <1>3 DEF FinalClose
  <2>5. Follows(n + 1)'
    <3>1. CASE legsOpen[s] = 0
      <4>1. \A r \in TradeSymbols : ~HoldsLast(r)
        BY <1>4, <2>1, <3>1 DEF OneByOne
      <4>2. n = 0 \/ FinalClose(n)
        BY <1>0, <2>2, <4>1 DEF HoldsLast
      <4>3. n = 0 \/ FinalClose(n)'
        BY <2>3, <4>2
      <4>. QED BY <2>4, <3>1, <4>3 DEF Follows, LegEvent
    <3>2. CASE legsOpen[s] # 0
      <4>1. HoldsLast(s)
        BY <1>4, <2>1, <3>2 DEF OneByOne
      <4>2. n > 0 /\ ~FinalClose(n) /\ tradeRows[n].symbol = s
        BY <1>0, <4>1 DEF HoldsLast
      <4>3. n \in 1..n /\ ~FinalClose(n)' /\ tradeRows'[n].symbol = s
        BY <1>3, <2>3, <4>2
      <4>. QED BY <2>4, <3>2, <4>2, <4>3 DEF Follows, LegEvent
    <3>. QED BY <3>1, <3>2
  <2>6. ASSUME NEW i \in 1..n PROVE Follows(i)'
    <3>1. Follows(i)
      BY <2>1, <2>2 DEF OneByOne
    <3>2. i = 1 \/ i - 1 \in 1..n
      OBVIOUS
    <3>3. CASE i = 1
      BY <1>3, <3>1, <3>3 DEF Follows
    <3>4. CASE i - 1 \in 1..n
      BY <1>3, <2>3, <3>1, <3>4 DEF Follows
    <3>. QED BY <3>2, <3>3, <3>4
  <2>7. \A i \in 1..(n + 1) : i = n + 1 \/ i \in 1..n
    OBVIOUS
  <2>8. ASSUME NEW r \in TradeSymbols PROVE legsOpen'[r] > 0 <=> HoldsLast(r)'
    <3>1. HoldsLast(r)' <=> r = s
      BY <1>3, <2>4 DEF HoldsLast
    <3>2. legsOpen'[r] > 0 <=> r = s
      BY <1>1, <1>4, <2>1
    <3>. QED BY <3>1, <3>2
  <2>. QED BY <1>3, <2>5, <2>6, <2>7, <2>8 DEF OneByOne
<1>. QED BY <1>2, <1>5, <1>6

LEMMA LegClosesKeeps ==
  ASSUME ReportsInv, NEW s \in TradeSymbols, NEW p \in Profits, LegCloses(s, p)
  PROVE  ReportsInv'
<1>. USE DEF ReportsInv
<1>0. PICK n \in Nat : n = Len(tradeRows)
  BY ReportTables
<1>. DEFINE last == legsOpen[s] = 1
<1>1. /\ Row(s, "close", last, p) /\ legsOpen[s] > 0 /\ mixed' = mixed
      /\ legsOpen' = [legsOpen EXCEPT ![s] = @ - 1]
  BY DEF LegCloses
<1>2. last \in BOOLEAN /\ p \in Profits \union {0}
  OBVIOUS
<1>. HIDE DEF last
<1>3. InOrder(tradeRows)' /\ InOrder(beatRows)' /\ BookedRow'
  BY <1>1, <1>2, RowKeeps
<1>4. /\ tradeRows' \in Seq(RowsShown) /\ Len(tradeRows') = n + 1 /\ n + 1 <= MaxRows
      /\ DOMAIN tradeRows' = 1..(n + 1) /\ \A i \in 1..n : tradeRows'[i] = tradeRows[i]
      /\ tradeRows'[n + 1] = [symbol |-> s, event |-> "close", final |-> last,
                              profit |-> p, ts |-> rpNow]
      /\ balance' \in Int /\ after' \in Seq(Int) /\ Len(after') = n + 1
      /\ rpNow' = rpNow + 1 /\ beatRows' = beatRows /\ rpLeft' = rpLeft
  BY <1>0, <1>1, <1>2, RowAppended
<1>5. /\ legsOpen \in [TradeSymbols -> Nat] /\ \A r \in TradeSymbols : legsOpen[r] <= n
      /\ rpNow \in Nat /\ mixed \in BOOLEAN
  BY <1>0 DEF ReportNumbers
<1>6. ReportNumbers'
  <2>1. /\ legsOpen' \in [TradeSymbols -> Nat]
        /\ \A r \in TradeSymbols : legsOpen'[r] <= n + 1
    BY <1>1, <1>5
  <2>2. mixed' \in BOOLEAN
    BY <1>1, <1>5
  <2>3. rpNow' \in Nat
    BY <1>4, <1>5
  <2>. QED BY <1>4, <2>1, <2>2, <2>3 DEF ReportNumbers
<1>7. ASSUME ~mixed' PROVE OneByOne'
  <2>1. ~mixed /\ OneByOne
    BY <1>1, <1>7
  <2>2. DOMAIN tradeRows = 1..n
    BY <1>0, ReportTables
  <2>3. \A i \in 1..n : FinalClose(i)' = FinalClose(i)
    BY <1>4 DEF FinalClose
  <2>4. /\ tradeRows'[n + 1].symbol = s /\ tradeRows'[n + 1].event = "close"
        /\ FinalClose(n + 1)' <=> last
    <3>1. tradeRows'[n + 1].final = last /\ tradeRows'[n + 1].event = "close"
      BY <1>4
    <3>2. tradeRows'[n + 1].symbol = s
      BY <1>4
    <3>. QED BY <3>1, <3>2 DEF FinalClose
  <2>5. n > 0 /\ ~FinalClose(n) /\ tradeRows[n].symbol = s
    BY <1>0, <1>1, <2>1 DEF OneByOne, HoldsLast
  <2>6. Follows(n + 1)'
    <3>1. n \in 1..n /\ ~FinalClose(n)' /\ tradeRows'[n].symbol = s
      BY <1>4, <2>3, <2>5
    <3>. QED BY <2>4, <2>5, <3>1 DEF Follows
  <2>7. ASSUME NEW i \in 1..n PROVE Follows(i)'
    <3>1. Follows(i)
      BY <2>1, <2>2 DEF OneByOne
    <3>2. i = 1 \/ i - 1 \in 1..n
      OBVIOUS
    <3>3. CASE i = 1
      BY <1>4, <3>1, <3>3 DEF Follows
    <3>4. CASE i - 1 \in 1..n
      BY <1>4, <2>3, <3>1, <3>4 DEF Follows
    <3>. QED BY <3>2, <3>3, <3>4
  <2>8. \A i \in 1..(n + 1) : i = n + 1 \/ i \in 1..n
    OBVIOUS
  <2>9. ASSUME NEW r \in TradeSymbols PROVE legsOpen'[r] > 0 <=> HoldsLast(r)'
    <3>1. HoldsLast(r)' <=> r = s /\ ~last
      BY <1>4, <2>4 DEF HoldsLast
    <3>2. legsOpen[r] > 0 => r = s
      BY <1>0, <2>1, <2>5 DEF OneByOne, HoldsLast
    <3>3. legsOpen'[r] > 0 <=> r = s /\ ~last
      BY <1>1, <1>5, <3>2 DEF last
    <3>. QED BY <3>1, <3>3
  <2>. QED BY <1>4, <2>6, <2>7, <2>8, <2>9 DEF OneByOne
<1>. QED BY <1>3, <1>6, <1>7

LEMMA BeatKeeps == ASSUME ReportsInv, ReportBeat PROVE ReportsInv'
<1>. USE DEF ReportsInv
<1>1. PICK n \in Nat : n = Len(tradeRows)
  BY ReportTables
<1>2. PICK k \in Nat : k = Len(beatRows)
  BY ReportTables
<1>. DEFINE beat == [ts |-> rpNow, balance |-> balance]
<1>3. /\ rpLeft.beats > 0 /\ rpLeft' = [rpLeft EXCEPT !.beats = @ - 1]
      /\ beatRows' = Append(beatRows, beat) /\ rpNow' = rpNow + 1
      /\ UNCHANGED <<tradeRows, legsOpen, balance, after, mixed>>
  BY DEF ReportBeat
<1>4. /\ DOMAIN tradeRows = 1..n /\ DOMAIN beatRows = 1..k
      /\ \A h \in 1..k : beatRows[h].ts \in Nat
      /\ \A i \in 1..n : tradeRows[i] \in RowsShown
      /\ rpNow \in Nat /\ balance \in Int /\ rpLeft \in [beats : Nat, gaps : Nat]
  BY <1>1, <1>2, ReportTables DEF ReportNumbers
<1>5. beat \in [ts : Nat, balance : Int]
  BY <1>4
<1>6. beat.ts = rpNow /\ beat.balance = balance
  OBVIOUS
<1>. HIDE DEF beat
<1>7. /\ beatRows' \in Seq([ts : Nat, balance : Int]) /\ Len(beatRows') = k + 1
      /\ beatRows'[k + 1] = beat /\ \A h \in 1..k : beatRows'[h] = beatRows[h]
  BY <1>2, <1>3, <1>5, AppendProperties DEF ReportNumbers
<1>8. DOMAIN beatRows' = 1..(k + 1)
  BY <1>7, LenProperties
<1>9. ReportNumbers'
  <2>1. rpNow' \in Nat /\ rpLeft' \in [beats : Nat, gaps : Nat]
    <3>1. rpNow' \in Nat
      BY <1>3, <1>4
    <3>2. rpLeft.beats - 1 \in Nat
      BY <1>3, <1>4
    <3>. QED BY <1>3, <1>4, <3>1, <3>2
  <2>2. beatRows' \in Seq([ts : Nat, balance : Int])
    BY <1>7
  <2>. QED BY <1>3, <2>1, <2>2 DEF ReportNumbers
<1>10. \A i \in 1..n : tradeRows[i].ts \in Nat /\ tradeRows[i].ts < rpNow
  <2>1. \A i \in 1..n : tradeRows[i].ts \in Nat
    BY <1>4, TableParts
  <2>. QED BY <1>4, <2>1 DEF InOrder
<1>11. InOrder(tradeRows)'
  BY <1>3, <1>4, <1>10 DEF InOrder
<1>12. \A h \in 1..(k + 1) : h = k + 1 \/ h \in 1..k
  OBVIOUS
<1>13. InOrder(beatRows)'
  <2>1. ASSUME NEW h \in 1..(k + 1) PROVE beatRows'[h].ts < rpNow'
    <3>1. CASE h = k + 1
      BY <1>3, <1>4, <1>6, <1>7, <3>1
    <3>2. CASE h \in 1..k
      <4>1. beatRows[h].ts < rpNow
        BY <1>4, <3>2 DEF InOrder
      <4>2. beatRows'[h] = beatRows[h] /\ beatRows[h].ts \in Nat
        BY <1>4, <1>7, <3>2
      <4>. QED BY <1>3, <1>4, <4>1, <4>2
    <3>. QED BY <1>12, <3>1, <3>2
  <2>2. ASSUME NEW g \in 1..(k + 1), NEW h \in 1..(k + 1), g < h
        PROVE  beatRows'[g].ts < beatRows'[h].ts
    <3>1. g \in 1..k
      BY <2>2
    <3>2. CASE h = k + 1
      BY <1>4, <1>6, <1>7, <3>1, <3>2 DEF InOrder
    <3>3. CASE h \in 1..k
      BY <1>4, <1>7, <2>2, <3>1, <3>3 DEF InOrder
    <3>. QED BY <1>12, <3>2, <3>3
  <2>. QED BY <1>8, <2>1, <2>2 DEF InOrder
<1>14. \A i \in 0..n : BalanceAt(i)' = BalanceAt(i)
  BY <1>3 DEF BalanceAt
<1>15. BookedRow'
  <2>1. balance' = BalanceAt(n)'
    BY <1>1, <1>3, <1>14 DEF BookedRow
  <2>2. ASSUME NEW i \in 1..n PROVE RowBooked(i)'
    BY <1>3, <1>4 DEF BookedRow, RowBooked, BalanceAt
  <2>3. ASSUME NEW h \in 1..(k + 1) PROVE \E m \in 0..n : Says(h, m)'
    <3>1. CASE h = k + 1
      <4>1. beatRows'[h].balance = BalanceAt(n)' /\ beatRows'[h].ts = rpNow
        BY <1>1, <1>6, <1>7, <1>14, <3>1 DEF BookedRow
      <4>2. Says(h, n)'
        BY <1>3, <1>4, <1>10, <4>1 DEF Says
      <4>. QED BY <4>2
    <3>2. CASE h \in 1..k
      <4>1. PICK m \in 0..n : Says(h, m)
        BY <1>1, <1>4, <3>2 DEF BookedRow
      <4>2. beatRows'[h] = beatRows[h] /\ BalanceAt(m)' = BalanceAt(m)
        BY <1>7, <1>14, <3>2
      <4>3. Says(h, m)'
        BY <1>3, <4>1, <4>2 DEF Says
      <4>. QED BY <4>3
    <3>. QED BY <1>12, <3>1, <3>2
  <2>4. Len(tradeRows') = n /\ DOMAIN tradeRows' = 1..n
    BY <1>1, <1>3, <1>4
  <2>. QED BY <1>8, <2>1, <2>2, <2>3, <2>4 DEF BookedRow
<1>16. mixed' \/ OneByOne'
  <2>1. OneByOne' <=> OneByOne
    BY <1>3 DEF OneByOne, Follows, HoldsLast, FinalClose
  <2>. QED BY <1>3, <2>1
<1>. QED BY <1>9, <1>11, <1>13, <1>15, <1>16

LEMMA GapKeeps == ASSUME ReportsInv, QuietSpell PROVE ReportsInv'
<1>. USE DEF ReportsInv
<1>1. /\ rpLeft.gaps > 0 /\ rpLeft' = [rpLeft EXCEPT !.gaps = @ - 1] /\ rpNow' = rpNow + Gap
      /\ UNCHANGED <<tradeRows, beatRows, legsOpen, balance, after, mixed>>
  BY DEF QuietSpell
<1>2. /\ rpNow \in Nat /\ Gap \in Nat /\ rpLeft \in [beats : Nat, gaps : Nat]
      /\ DOMAIN tradeRows = 1..Len(tradeRows) /\ DOMAIN beatRows = 1..Len(beatRows)
      /\ \A h \in 1..Len(beatRows) : beatRows[h].ts \in Nat
      /\ \A i \in 1..Len(tradeRows) : tradeRows[i].ts \in Nat
  <2>1. \A i \in 1..Len(tradeRows) : tradeRows[i].ts \in Nat
    BY ReportTables, TableParts
  <2>. QED BY <2>1, ReportTables, ReportsAssumption DEF ReportNumbers
<1>3. ReportNumbers'
  <2>1. rpNow' \in Nat /\ rpLeft' \in [beats : Nat, gaps : Nat]
    BY <1>1, <1>2
  <2>. QED BY <1>1, <2>1 DEF ReportNumbers
<1>4. InOrder(tradeRows)' /\ InOrder(beatRows)'
  BY <1>1, <1>2 DEF InOrder
<1>5. BookedRow'
  BY <1>1 DEF BookedRow, RowBooked, Says, BalanceAt
<1>6. mixed' \/ OneByOne'
  BY <1>1 DEF OneByOne, Follows, HoldsLast, FinalClose
<1>. QED BY <1>3, <1>4, <1>5, <1>6

LEMMA ReportsRest == ASSUME ReportsInv, UNCHANGED reportVars PROVE ReportsInv'
<1>. USE DEF ReportsInv
<1>1. UNCHANGED <<tradeRows, beatRows, legsOpen, rpNow, balance, after, mixed, rpLeft>>
  BY DEF reportVars
<1>2. ReportNumbers' /\ InOrder(tradeRows)' /\ InOrder(beatRows)'
  BY <1>1 DEF ReportNumbers, InOrder
<1>3. BookedRow'
  BY <1>1 DEF BookedRow, RowBooked, Says, BalanceAt
<1>4. mixed' \/ OneByOne'
  BY <1>1 DEF OneByOne, Follows, HoldsLast, FinalClose
<1>. QED BY <1>2, <1>3, <1>4

LEMMA ReportsStep == ReportsInv /\ [ReportsNext]_reportVars => ReportsInv'
<1>. SUFFICES ASSUME ReportsInv, [ReportsNext]_reportVars PROVE ReportsInv'
  OBVIOUS
<1>1. \/ \E s \in TradeSymbols : LegOpens(s)
      \/ \E s \in TradeSymbols, p \in Profits : LegCloses(s, p)
      \/ ReportBeat \/ QuietSpell \/ UNCHANGED reportVars
  BY DEF ReportsNext
<1>. QED BY <1>1, LegOpensKeeps, LegClosesKeeps, BeatKeeps, GapKeeps, ReportsRest


-----------------------------------------------------------------------------
(* One pass over the rows *)

GroupRecords == [symbol : TradeSymbols \union {"none"}, entries : SUBSET (1..Len(tradeRows)), pl : Int]

LEMMA GroupedIsGroup ==
  ASSUME ReportNumbers, NEW g \in GroupRecords, NEW i \in 1..Len(tradeRows)
  PROVE  Grouped(g, i) \in GroupRecords /\ NoGroup \in GroupRecords
<1>1. NoGroup \in GroupRecords
  BY DEF NoGroup, GroupRecords
<1>2. tradeRows[i].symbol \in TradeSymbols /\ tradeRows[i].profit \in Int
  BY ReportTables, TableParts
<1>3. Entered(g, i) \in GroupRecords
  BY <1>2 DEF Entered, GroupRecords
<1>4. [g EXCEPT !.pl = @ + tradeRows[i].profit] \in GroupRecords
  BY <1>2 DEF GroupRecords
<1>. QED BY <1>1, <1>3, <1>4 DEF Grouped

LEMMA GroupsByRow ==
  ASSUME ReportNumbers, NEW R
  PROVE  LET g == GroupsOf(R) n == Len(tradeRows) IN
         /\ g \in [0..n -> GroupRecords] /\ g[0] = NoGroup
         /\ \A i \in 1..n : g[i] = IF i \in R THEN Grouped(g[i - 1], i) ELSE g[i - 1]
<1>. DEFINE n == Len(tradeRows)
            Is(f) == f = [i \in 0..n |-> IF i = 0 THEN NoGroup
                                         ELSE IF i \in R THEN Grouped(f[i - 1], i)
                                         ELSE f[i - 1]]
            step == [i \in 1..n |-> [g \in GroupRecords |-> IF i \in R THEN Grouped(g, i) ELSE g]]
            group == CHOOSE f : Is(f)
<1>1. n \in Nat /\ NoGroup \in GroupRecords
  <2>1. n \in Nat
    BY ReportTables
  <2>. QED BY <2>1 DEF NoGroup, GroupRecords
<1>2. step \in [1..n -> [GroupRecords -> GroupRecords]]
  BY GroupedIsGroup
<1>3. PICK f \in [0..n -> GroupRecords] : Recurs(f, n, NoGroup, step)
  <2>. HIDE DEF n, step
  <2>. QED BY <1>1, <1>2, Recursion
<1>4. Is(f)
  <2>1. \A i \in 1..n : i - 1 \in 0..n /\ f[i - 1] \in GroupRecords
    BY <1>1
  <2>2. ASSUME NEW i \in 1..n
        PROVE  f[i] = IF i \in R THEN Grouped(f[i - 1], i) ELSE f[i - 1]
    BY <1>3, <2>1 DEF Recurs
  <2>3. f[0] = NoGroup /\ \A i \in 0..n : i = 0 \/ i \in 1..n
    BY <1>1, <1>3 DEF Recurs
  <2>. HIDE DEF n
  <2>. QED BY <2>2, <2>3
<1>. HIDE DEF Is
<1>5. Is(group)
  BY <1>4
<1>6. GroupsOf(R) = group
  BY DEF GroupsOf, Is
<1>7. /\ group[0] = NoGroup
      /\ \A i \in 1..n : group[i] = IF i \in R THEN Grouped(group[i - 1], i) ELSE group[i - 1]
  <2>. HIDE DEF group
  <2>1. group = [i \in 0..n |-> IF i = 0 THEN NoGroup
                                ELSE IF i \in R THEN Grouped(group[i - 1], i)
                                ELSE group[i - 1]]
    BY <1>5 DEF Is
  <2>2. 0 \in 0..n /\ \A i \in 1..n : i \in 0..n /\ i # 0
    BY <1>1
  <2>. HIDE DEF n
  <2>. QED BY <2>1, <2>2
<1>8. DOMAIN group = 0..n /\ group = [i \in 0..n |-> group[i]]
  <2>. HIDE DEF group
  <2>. QED BY <1>5 DEF Is
<1>. HIDE DEF group
<1>9. 0..n \subseteq {i \in 0..n : group[i] \in GroupRecords}
  <2>. DEFINE S == {i \in 0..n : group[i] \in GroupRecords}
  <2>1. 0 \in S
    BY <1>1, <1>7
  <2>2. ASSUME NEW i \in 1..n, i - 1 \in S PROVE i \in S
    <3>1. Grouped(group[i - 1], i) \in GroupRecords
      BY <2>2, GroupedIsGroup
    <3>. QED BY <1>7, <2>2, <3>1
  <2>3. 0..n \subseteq S
    <3>. HIDE DEF S, n
    <3>. QED BY <1>1, <2>1, <2>2, UpTo
  <2>. QED BY <2>3 DEF S
<1>. QED BY <1>6, <1>7, <1>8, <1>9


\* While baskets do not overlap, nothing is pending after a final close, and else a
\* basket of the symbol of the row.
LEMMA HistoryParts ==
  ASSUME ReportNumbers, OneByOne, NEW g, g = GroupsOf(DOMAIN tradeRows)
  PROVE  LET n == Len(tradeRows) IN
         /\ g[0] = NoGroup /\ \A i \in 0..n : g[i] \in GroupRecords
         /\ \A i \in 1..n : g[i] = Grouped(g[i - 1], i)
         /\ \A i \in 1..n : IF FinalClose(i) THEN g[i] = NoGroup
                            ELSE g[i] # NoGroup /\ g[i].symbol = tradeRows[i].symbol
<1>. DEFINE n == Len(tradeRows)
            S == {i \in 0..n : i > 0 => IF FinalClose(i) THEN g[i] = NoGroup
                                        ELSE g[i].symbol = tradeRows[i].symbol}
<1>1. /\ g \in [0..n -> GroupRecords] /\ g[0] = NoGroup /\ n \in Nat
      /\ \A i \in 1..n : g[i] = Grouped(g[i - 1], i)
  <2>1. n \in Nat /\ DOMAIN tradeRows = 1..n
    BY ReportTables
  <2>2. /\ g \in [0..n -> GroupRecords] /\ g[0] = NoGroup
        /\ \A i \in 1..n : g[i] = IF i \in DOMAIN tradeRows THEN Grouped(g[i - 1], i)
                                  ELSE g[i - 1]
    BY GroupsByRow
  <2>. QED BY <2>1, <2>2
<1>2. \A i \in 1..n : /\ tradeRows[i].symbol \in TradeSymbols /\ tradeRows[i].symbol # "none"
                      /\ tradeRows[i].event \in {"open", "add", "close"} /\ Follows(i)
  <2>1. DOMAIN tradeRows = 1..n /\ \A i \in 1..n : tradeRows[i] \in RowsShown
    BY ReportTables
  <2>. QED BY <2>1, TableParts DEF OneByOne
<1>3. ASSUME NEW i \in 1..n, i - 1 \in S PROVE i \in S
  <2>1. i - 1 \in 0..n /\ g[i - 1] \in GroupRecords /\ g[i] = Grouped(g[i - 1], i)
    <3>1. i - 1 \in 0..n
      BY <1>3
    <3>. HIDE DEF S, n
    <3>. QED BY <1>1, <3>1
  <2>2. CASE tradeRows[i].event = "open"
    <3>1. i = 1 \/ FinalClose(i - 1)
      BY <1>2, <2>2 DEF Follows
    <3>2. g[i - 1] = NoGroup
      BY <1>1, <1>3, <3>1
    <3>3. g[i].symbol = tradeRows[i].symbol /\ ~FinalClose(i)
      BY <2>1, <2>2, <3>2 DEF Grouped, Entered, FinalClose
    <3>. QED BY <3>3
  <2>3. CASE tradeRows[i].event # "open"
    <3>1. i > 1 /\ ~FinalClose(i - 1) /\ tradeRows[i].symbol = tradeRows[i - 1].symbol
      BY <1>2, <2>3 DEF Follows
    <3>2. g[i - 1].symbol = tradeRows[i].symbol /\ i - 1 \in 1..n
      BY <1>3, <3>1
    <3>3. g[i - 1] # NoGroup
      BY <1>2, <3>2 DEF NoGroup
    <3>4. FinalClose(i) => g[i] = NoGroup
      BY <2>1 DEF Grouped, FinalClose
    <3>5. ~FinalClose(i) => g[i].symbol = g[i - 1].symbol
      BY <2>1, <3>3 DEF Grouped, Entered, FinalClose, GroupRecords
    <3>. QED BY <3>2, <3>4, <3>5
  <2>. QED BY <2>2, <2>3
<1>4. 0..n \subseteq S
  <2>1. 0 \in S
    BY <1>1
  <2>. HIDE DEF S, n
  <2>. QED BY <1>1, <1>3, <2>1, UpTo
<1>5. \A i \in 1..n : IF FinalClose(i) THEN g[i] = NoGroup
                      ELSE g[i] # NoGroup /\ g[i].symbol = tradeRows[i].symbol
  <2>. SUFFICES ASSUME NEW i \in 1..n
                PROVE  IF FinalClose(i) THEN g[i] = NoGroup
                       ELSE g[i] # NoGroup /\ g[i].symbol = tradeRows[i].symbol
    OBVIOUS
  <2>1. i \in 0..n /\ i > 0
    BY <1>1
  <2>2. IF FinalClose(i) THEN g[i] = NoGroup ELSE g[i].symbol = tradeRows[i].symbol
    BY <1>4, <2>1
  <2>3. NoGroup.symbol = "none"
    BY DEF NoGroup
  <2>. QED BY <1>2, <2>2, <2>3
<1>6. \A i \in 0..n : g[i] \in GroupRecords
  BY <1>1
<1>. QED BY <1>1, <1>5, <1>6

\* Every final close ends a basket of its symbol.
LEMMA HistoryBaskets ==
  ASSUME ReportNumbers, OneByOne, NEW g, g = GroupsOf(DOMAIN tradeRows)
  PROVE  LET n == Len(tradeRows) IN
         /\ DOMAIN AllBaskets = {i \in 1..n : FinalClose(i)}
         /\ \A i \in DOMAIN AllBaskets :
               /\ AllBaskets[i] = [g[i - 1] EXCEPT !.pl = @ + tradeRows[i].profit]
               /\ AllBaskets[i].symbol = tradeRows[i].symbol
               /\ AllBaskets[i].pl = g[i - 1].pl + tradeRows[i].profit
               /\ AllBaskets[i].entries = g[i - 1].entries
               /\ i > 1 /\ ~FinalClose(i - 1) /\ g[i - 1].symbol = tradeRows[i].symbol
<1>. DEFINE n == Len(tradeRows)
<1>1. /\ n \in Nat /\ DOMAIN tradeRows = 1..n
      /\ \A i \in 1..n : IF FinalClose(i) THEN g[i] = NoGroup
                         ELSE g[i] # NoGroup /\ g[i].symbol = tradeRows[i].symbol
      /\ \A i \in 0..n : g[i] \in GroupRecords
  <2>1. n \in Nat /\ DOMAIN tradeRows = 1..n
    BY ReportTables
  <2>. QED BY <2>1, HistoryParts
<1>2. AllBaskets = [i \in {j \in DOMAIN tradeRows : FinalClose(j) /\ g[j - 1] # NoGroup} |->
                       [g[i - 1] EXCEPT !.pl = @ + tradeRows[i].profit]]
  BY DEF AllBaskets, GroupBaskets
<1>3. ASSUME NEW i \in 1..n, FinalClose(i)
      PROVE  /\ i > 1 /\ ~FinalClose(i - 1) /\ g[i - 1] # NoGroup
             /\ g[i - 1].symbol = tradeRows[i].symbol
  <2>1. i > 1 /\ ~FinalClose(i - 1) /\ tradeRows[i].symbol = tradeRows[i - 1].symbol
    BY <1>1, <1>3 DEF OneByOne, Follows, FinalClose
  <2>2. i - 1 \in 1..n
    BY <2>1
  <2>. QED BY <1>1, <2>1, <2>2
<1>4. DOMAIN AllBaskets = {i \in 1..n : FinalClose(i)}
  BY <1>1, <1>2, <1>3
<1>5. ASSUME NEW i \in DOMAIN AllBaskets
      PROVE  /\ AllBaskets[i] = [g[i - 1] EXCEPT !.pl = @ + tradeRows[i].profit]
             /\ i - 1 \in 0..n
  BY <1>2, <1>4
<1>6. ASSUME NEW i \in DOMAIN AllBaskets
      PROVE  /\ AllBaskets[i].symbol = g[i - 1].symbol
             /\ AllBaskets[i].pl = g[i - 1].pl + tradeRows[i].profit
             /\ AllBaskets[i].entries = g[i - 1].entries
  <2>1. g[i - 1] \in GroupRecords
    BY <1>1, <1>5
  <2>. QED BY <1>5, <2>1 DEF GroupRecords
<1>. QED BY <1>3, <1>4, <1>5, <1>6

\* A page: whatever its first rows are, it agrees with the history after the first
\* final close or opening on it.
LEMMA PagesHold == ReportNumbers /\ OneByOne => PageIsTrue
<1>. SUFFICES ASSUME ReportNumbers, OneByOne, NEW limit \in 0..Len(tradeRows)
              PROVE  LET page == TradesPage(limit) IN
                     \A i \in DOMAIN page :
                        (\/ \E j \in DOMAIN page : j < i
                         \/ \E e \in page[i].entries : tradeRows[e].event = "open")
                        => i \in DOMAIN AllBaskets /\ page[i] = AllBaskets[i]
  BY DEF PageIsTrue
<1>. DEFINE n == Len(tradeRows)
            R == {i \in DOMAIN tradeRows : i > n - limit}
            h == GroupsOf(DOMAIN tradeRows)
            p == GroupsOf(R)
            page == TradesPage(limit)
            Shown(i) == i > n - limit
            Settles(i) == FinalClose(i) \/ tradeRows[i].event = "open"
            Same(i) == \/ p[i] = h[i]
                       \/ \A j \in 1..i : j > n - limit => ~Settles(j)
            S == {i \in 0..n : Same(i) /\ \A e \in p[i].entries : e \in 1..i /\ e > n - limit}
<1>1. n \in Nat /\ DOMAIN tradeRows = 1..n /\ limit \in 0..n
  BY ReportTables
<1>2. /\ h[0] = NoGroup /\ \A i \in 1..n : h[i] = Grouped(h[i - 1], i)
      /\ \A i \in 1..n : FinalClose(i) => h[i] = NoGroup
      /\ \A i \in 1..n : ~FinalClose(i) => h[i] # NoGroup
  BY HistoryParts
<1>3. /\ p \in [0..n -> GroupRecords] /\ p[0] = NoGroup
      /\ \A i \in 1..n : p[i] = IF i \in R THEN Grouped(p[i - 1], i) ELSE p[i - 1]
  BY GroupsByRow
<1>4. \A i \in 1..n : Follows(i)
  BY <1>1 DEF OneByOne
<1>5. page = [i \in {j \in R : FinalClose(j) /\ p[j - 1] # NoGroup} |->
                 [p[i - 1] EXCEPT !.pl = @ + tradeRows[i].profit]]
  BY DEF TradesPage, GroupBaskets
<1>6. AllBaskets = [i \in {j \in DOMAIN tradeRows : FinalClose(j) /\ h[j - 1] # NoGroup} |->
                       [h[i - 1] EXCEPT !.pl = @ + tradeRows[i].profit]]
  BY DEF AllBaskets, GroupBaskets
<1>. HIDE DEF h, p, page
<1>7. \A i \in 1..n : i \in R <=> i > n - limit
  BY <1>1
<1>8. \A i \in 0..n : i <= n - limit => p[i] = NoGroup
  <2>. DEFINE T == {i \in 0..n : i <= n - limit => p[i] = NoGroup}
  <2>1. 0 \in T
    BY <1>1, <1>3
  <2>2. ASSUME NEW i \in 1..n, i - 1 \in T PROVE i \in T
    BY <1>1, <1>3, <1>7, <2>2
  <2>3. 0..n \subseteq T
    <3>. HIDE DEF T, n
    <3>. QED BY <1>1, <2>1, <2>2, UpTo
  <2>. QED BY <2>3
<1>9. 0..n \subseteq S
  <2>1. 0 \in S
    BY <1>1, <1>2, <1>3 DEF NoGroup
  <2>2. ASSUME NEW i \in 1..n, i - 1 \in S PROVE i \in S
    <3>1. /\ i - 1 \in 0..n /\ i \in 0..n /\ p[i - 1] \in GroupRecords
          /\ \A j \in 1..i : j = i \/ j \in 1..(i - 1)
          /\ \A j \in 1..(i - 1) : j \in 1..i
      BY <1>1, <1>3
    <3>2. Same(i - 1) /\ \A e \in p[i - 1].entries : e \in 1..(i - 1) /\ e > n - limit
      BY <2>2
    <3>3. CASE ~(i > n - limit)
      <4>1. p[i] = NoGroup /\ \A j \in 1..i : ~(j > n - limit)
        BY <1>1, <1>8, <3>1, <3>3
      <4>. QED BY <3>1, <4>1 DEF NoGroup
    <3>4. CASE i > n - limit
      <4>1. p[i] = Grouped(p[i - 1], i) /\ h[i] = Grouped(h[i - 1], i)
        BY <1>2, <1>3, <1>7, <3>4
      <4>2. \A e \in p[i].entries : e \in 1..i /\ e > n - limit
        <5>1. p[i].entries \subseteq p[i - 1].entries \union {i}
          BY <3>1, <4>1 DEF Grouped, Entered, NoGroup, GroupRecords
        <5>. QED BY <3>1, <3>2, <3>4, <5>1
      <4>3. CASE p[i - 1] = h[i - 1]
        BY <3>1, <4>1, <4>2, <4>3
      <4>4. CASE \A j \in 1..(i - 1) : j > n - limit => ~Settles(j)
        <5>1. CASE FinalClose(i)
          <6>1. p[i] = NoGroup /\ h[i] = NoGroup
            BY <4>1, <5>1 DEF Grouped, FinalClose
          <6>. QED BY <3>1, <4>2, <6>1
        <5>2. CASE tradeRows[i].event = "open"
          <6>1. i = 1 \/ FinalClose(i - 1)
            BY <1>4, <5>2 DEF Follows
          <6>2. p[i - 1] = h[i - 1]
            <7>1. CASE i = 1
              BY <1>2, <1>3, <7>1
            <7>2. CASE i # 1 /\ FinalClose(i - 1)
              <8>1. i - 1 \in 1..n /\ i - 1 \in 1..(i - 1)
                BY <3>1, <7>2
              <8>2. ~(i - 1 > n - limit)
                BY <4>4, <7>2, <8>1
              <8>3. p[i - 1] = NoGroup
                BY <1>1, <1>8, <3>1, <8>2
              <8>. QED BY <1>2, <7>2, <8>1, <8>3
            <7>. QED BY <6>1, <7>1, <7>2
          <6>. QED BY <3>1, <4>1, <4>2, <6>2
        <5>3. CASE ~Settles(i)
          <6>1. \A j \in 1..i : j > n - limit => ~Settles(j)
            BY <3>1, <4>4, <5>3
          <6>. QED BY <3>1, <4>2, <6>1
        <5>. QED BY <5>1, <5>2, <5>3
      <4>. QED BY <3>2, <4>3, <4>4
    <3>. QED BY <3>3, <3>4
  <2>. HIDE DEF S, n
  <2>. QED BY <1>1, <2>1, <2>2, UpTo
<1>10. ASSUME NEW i \in DOMAIN page,
              \/ \E j \in DOMAIN page : j < i
              \/ \E e \in page[i].entries : tradeRows[e].event = "open"
       PROVE  i \in DOMAIN AllBaskets /\ page[i] = AllBaskets[i]
  <2>1. /\ i \in 1..n /\ FinalClose(i) /\ p[i - 1] # NoGroup
        /\ page[i] = [p[i - 1] EXCEPT !.pl = @ + tradeRows[i].profit]
        /\ \A j \in DOMAIN page : j \in 1..n /\ FinalClose(j) /\ j > n - limit
    BY <1>1, <1>5, <1>7
  <2>2. i - 1 \in 0..n /\ p[i - 1] \in GroupRecords /\ i - 1 \in S
    BY <1>1, <1>3, <1>9, <2>1
  <2>3. \E j \in 1..(i - 1) : j > n - limit /\ Settles(j)
    <3>1. CASE \E j \in DOMAIN page : j < i
      BY <1>1, <2>1, <3>1
    <3>2. CASE \E e \in page[i].entries : tradeRows[e].event = "open"
      <4>1. page[i].entries = p[i - 1].entries
        BY <2>1, <2>2 DEF GroupRecords
      <4>. QED BY <2>2, <3>2, <4>1
    <3>. QED BY <1>10, <3>1, <3>2
  <2>4. p[i - 1] = h[i - 1]
    BY <2>2, <2>3
  <2>. QED BY <1>1, <1>6, <2>1, <2>4
<1>. QED BY <1>10 DEF page

\* The two readings of the table agree on the legs of a basket.
LEMMA TwinsHold == ReportNumbers /\ OneByOne => TwinsAgree
<1>. SUFFICES ASSUME ReportNumbers, OneByOne, Len(tradeRows) > 0, FinalClose(Len(tradeRows))
              PROVE  /\ Len(tradeRows) \in DOMAIN AllBaskets
                     /\ AllBaskets[Len(tradeRows)].entries = BasketLegs(Len(tradeRows))
  BY DEF TwinsAgree
<1>. DEFINE n == Len(tradeRows)
            g == GroupsOf(DOMAIN tradeRows)
            Enters(k) == tradeRows[k].event # "close"
            Taken(i) == \A k \in 1..i : Enters(k) =>
                           \/ k \in g[i].entries
                           \/ \E j \in k..i : /\ FinalClose(j)
                                              /\ tradeRows[j].symbol = tradeRows[k].symbol
            Open(i) == \A k \in g[i].entries :
                          /\ k \in 1..i /\ Enters(k) /\ tradeRows[k].symbol = tradeRows[i].symbol
                          /\ \A j \in k..i : ~FinalClose(j)
            S == {i \in 0..n : Taken(i) /\ Open(i)}
<1>1. n \in Nat /\ DOMAIN tradeRows = 1..n
  BY ReportTables
<1>2. /\ g[0] = NoGroup /\ \A i \in 0..n : g[i] \in GroupRecords
      /\ \A i \in 1..n : g[i] = Grouped(g[i - 1], i)
      /\ \A i \in 1..n : FinalClose(i) => g[i] = NoGroup
      /\ \A i \in 1..n : ~FinalClose(i) => g[i] # NoGroup /\ g[i].symbol = tradeRows[i].symbol
  BY HistoryParts
<1>3. \A i \in 1..n : Follows(i)
  BY <1>1 DEF OneByOne
<1>. HIDE DEF g
<1>4. ASSUME NEW i \in 1..n, i - 1 \in S PROVE i \in S
  <2>1. /\ i - 1 \in 0..n /\ i \in 0..n /\ g[i - 1] \in GroupRecords /\ g[i] = Grouped(g[i - 1], i)
        /\ \A k \in 1..i : k = i \/ k \in 1..(i - 1)
        /\ Taken(i - 1) /\ Open(i - 1)
    BY <1>1, <1>2, <1>4
  <2>2. CASE tradeRows[i].event = "open"
    <3>1. g[i - 1] = NoGroup
      <4>1. i = 1 \/ FinalClose(i - 1)
        BY <1>3, <2>2 DEF Follows
      <4>2. CASE i = 1
        BY <1>2, <4>2
      <4>3. CASE i # 1 /\ FinalClose(i - 1)
        BY <1>2, <4>3
      <4>. QED BY <4>1, <4>2, <4>3
    <3>2. g[i].entries = {i} /\ ~FinalClose(i) /\ Enters(i)
      BY <2>1, <2>2, <3>1 DEF Grouped, Entered, NoGroup, FinalClose
    <3>3. Taken(i)
      <4>1. ASSUME NEW k \in 1..(i - 1), Enters(k)
            PROVE  \E j \in k..i : /\ FinalClose(j)
                                   /\ tradeRows[j].symbol = tradeRows[k].symbol
        <5>1. k \notin g[i - 1].entries
          BY <3>1 DEF NoGroup
        <5>2. PICK j \in k..(i - 1) : FinalClose(j) /\ tradeRows[j].symbol = tradeRows[k].symbol
          BY <2>1, <4>1, <5>1
        <5>3. j \in k..i
          BY <1>1
        <5>. QED BY <5>2, <5>3
      <4>. QED BY <2>1, <3>2, <4>1
    <3>4. Open(i)
      BY <3>2
    <3>. QED BY <2>1, <3>3, <3>4
  <2>3. CASE tradeRows[i].event # "open"
    <3>1. i > 1 /\ ~FinalClose(i - 1) /\ tradeRows[i].symbol = tradeRows[i - 1].symbol
      BY <1>3, <2>3 DEF Follows
    <3>2. i - 1 \in 1..n /\ g[i - 1] # NoGroup
      BY <1>2, <3>1
    <3>3. CASE FinalClose(i)
      <4>1. g[i] = NoGroup /\ ~Enters(i)
        BY <1>2, <3>3 DEF FinalClose
      <4>2. Taken(i)
        <5>1. ASSUME NEW k \in 1..(i - 1), Enters(k)
              PROVE  \E j \in k..i : /\ FinalClose(j)
                                     /\ tradeRows[j].symbol = tradeRows[k].symbol
          <6>1. CASE k \in g[i - 1].entries
            <7>1. tradeRows[k].symbol = tradeRows[i].symbol /\ i \in k..i
              BY <2>1, <3>1, <6>1
            <7>. QED BY <3>3, <7>1
          <6>2. CASE k \notin g[i - 1].entries
            <7>1. PICK j \in k..(i - 1) : /\ FinalClose(j)
                                          /\ tradeRows[j].symbol = tradeRows[k].symbol
              BY <2>1, <5>1, <6>2
            <7>2. j \in k..i
              BY <1>1
            <7>. QED BY <7>1, <7>2
          <6>. QED BY <6>1, <6>2
        <5>. QED BY <2>1, <4>1, <5>1
      <4>3. Open(i)
        BY <4>1 DEF NoGroup
      <4>. QED BY <2>1, <4>2, <4>3
    <3>4. CASE ~FinalClose(i)
      <4>1. /\ g[i].entries = g[i - 1].entries \union (IF Enters(i) THEN {i} ELSE {})
        BY <2>1, <3>2, <3>4 DEF Grouped, Entered, FinalClose, GroupRecords
      <4>2. Taken(i)
        <5>1. ASSUME NEW k \in 1..(i - 1), Enters(k), k \notin g[i].entries
              PROVE  \E j \in k..i : /\ FinalClose(j)
                                     /\ tradeRows[j].symbol = tradeRows[k].symbol
          <6>1. PICK j \in k..(i - 1) : /\ FinalClose(j)
                                        /\ tradeRows[j].symbol = tradeRows[k].symbol
            BY <2>1, <4>1, <5>1
          <6>2. j \in k..i
            BY <1>1
          <6>. QED BY <6>1, <6>2
        <5>. QED BY <2>1, <4>1, <5>1
      <4>3. Open(i)
        <5>1. ASSUME NEW k \in g[i - 1].entries
              PROVE  /\ k \in 1..i /\ Enters(k) /\ tradeRows[k].symbol = tradeRows[i].symbol
                     /\ \A j \in k..i : ~FinalClose(j)
          <6>1. /\ k \in 1..(i - 1) /\ Enters(k) /\ tradeRows[k].symbol = tradeRows[i].symbol
                /\ \A j \in k..(i - 1) : ~FinalClose(j)
            BY <2>1, <3>1
          <6>2. \A j \in k..i : j = i \/ j \in k..(i - 1)
            BY <6>1
          <6>. QED BY <3>4, <6>1, <6>2
        <5>2. \A j \in i..i : j = i
          OBVIOUS
        <5>. QED BY <3>4, <4>1, <5>1, <5>2
      <4>. QED BY <2>1, <4>2, <4>3
    <3>. QED BY <3>3, <3>4
  <2>. QED BY <2>2, <2>3
<1>5. 0..n \subseteq S
  <2>1. 0 \in S
    BY <1>1, <1>2 DEF NoGroup
  <2>. HIDE DEF S, n
  <2>. QED BY <1>1, <1>4, <2>1, UpTo
<1>6. /\ n \in DOMAIN AllBaskets /\ AllBaskets[n].entries = g[n - 1].entries
      /\ n > 1 /\ tradeRows[n].symbol = tradeRows[n - 1].symbol
  <2>1. n \in DOMAIN AllBaskets /\ AllBaskets[n].entries = g[n - 1].entries
    <3>1. n \in 1..n /\ FinalClose(n)
      BY <1>1
    <3>2. /\ DOMAIN AllBaskets = {i \in 1..n : FinalClose(i)}
          /\ \A i \in DOMAIN AllBaskets : AllBaskets[i].entries = g[i - 1].entries
      BY HistoryBaskets DEF g
    <3>. HIDE DEF n
    <3>. QED BY <3>1, <3>2
  <2>2. Follows(n) /\ tradeRows[n].event = "close"
    BY <1>1, <1>3 DEF FinalClose
  <2>. QED BY <2>1, <2>2 DEF Follows
<1>7. n - 1 \in 0..n /\ Taken(n - 1) /\ Open(n - 1) /\ \A k \in 1..n : k = n \/ k \in 1..(n - 1)
  <2>1. n - 1 \in 0..n /\ \A k \in 1..n : k = n \/ k \in 1..(n - 1)
    <3>1. n \in Nat /\ n > 1
      BY <1>1, <1>6
    <3>. HIDE DEF n
    <3>. QED BY <3>1
  <2>2. n - 1 \in S
    BY <1>5, <2>1
  <2>. QED BY <2>1, <2>2
<1>8. ASSUME NEW k \in g[n - 1].entries PROVE k \in BasketLegs(n)
  <2>1. /\ k \in 1..(n - 1) /\ Enters(k) /\ tradeRows[k].symbol = tradeRows[n].symbol
        /\ \A j \in k..(n - 1) : ~FinalClose(j)
    BY <1>6, <1>7
  <2>2. \A j \in FinalBefore(n) : j < k
    BY <1>1, <2>1 DEF FinalBefore
  <2>. QED BY <1>1, <2>1, <2>2 DEF BasketLegs
<1>9. ASSUME NEW k \in BasketLegs(n) PROVE k \in g[n - 1].entries
  <2>1. /\ k \in 1..n /\ Enters(k) /\ tradeRows[k].symbol = tradeRows[n].symbol
        /\ \A j \in FinalBefore(n) : j < k
    BY <1>1 DEF BasketLegs
  <2>2. k \in 1..(n - 1)
    BY <1>7, <2>1 DEF FinalClose
  <2>3. ASSUME NEW j \in k..(n - 1), FinalClose(j), tradeRows[j].symbol = tradeRows[k].symbol
        PROVE  FALSE
    <3>1. j \in FinalBefore(n)
      BY <1>1, <2>1, <2>3 DEF FinalBefore
    <3>. QED BY <1>1, <2>1, <2>2, <3>1
  <2>. QED BY <1>7, <2>1, <2>2, <2>3
<1>. QED BY <1>6, <1>8, <1>9

\* The beats before a row are the first ones.
LEMMA BeatsBeforeIs ==
  ASSUME ReportNumbers, InOrder(beatRows), NEW i \in 1..Len(tradeRows)
  PROVE  /\ BeatsBefore(i) \in 0..Len(beatRows)
         /\ \A k \in 1..Len(beatRows) : beatRows[k].ts < tradeRows[i].ts <=> k <= BeatsBefore(i)
<1>. DEFINE n == Len(beatRows)
            Before == {k \in 1..n : beatRows[k].ts < tradeRows[i].ts} \union {0}
            h == Max(Before)
<1>1. /\ n \in Nat /\ DOMAIN beatRows = 1..n /\ tradeRows[i].ts \in Nat
      /\ \A k \in 1..n : beatRows[k].ts \in Nat
  BY ReportTables, TableParts
<1>2. h \in Before /\ \A k \in Before : k <= h
  <2>1. Before \in SUBSET (0..n) /\ Before # {}
    BY <1>1
  <2>. HIDE DEF Before, n
  <2>. QED BY <1>1, <2>1, MaxOfNaturals
<1>. HIDE DEF h
<1>3. h \in 0..n
  BY <1>1, <1>2
<1>4. ASSUME NEW k \in 1..n PROVE beatRows[k].ts < tradeRows[i].ts <=> k <= h
  <2>1. beatRows[k].ts < tradeRows[i].ts => k <= h
    BY <1>2
  <2>2. ASSUME k <= h PROVE beatRows[k].ts < tradeRows[i].ts
    <3>1. h \in 1..n /\ beatRows[h].ts < tradeRows[i].ts
      BY <1>2, <1>3, <2>2
    <3>2. k = h \/ k < h
      BY <1>3, <2>2
    <3>3. k < h => beatRows[k].ts < beatRows[h].ts
      BY <1>1, <3>1 DEF InOrder
    <3>. QED BY <1>1, <3>1, <3>2, <3>3
  <2>. QED BY <2>1, <2>2
<1>. QED BY <1>1, <1>3, <1>4 DEF BeatsBefore

\* A basket is the rows from the one after the exit before to its own exit, and has
\* earned what the balance gained in between.
LEMMA BasketRun ==
  ASSUME ReportNumbers, BookedRow, OneByOne, NEW i \in DOMAIN AllBaskets
  PROVE  \E e \in AllBaskets[i].entries :
            /\ e \in 1..(i - 1) /\ (e = 1 \/ e - 1 \in DOMAIN AllBaskets)
            /\ \A j \in e..(i - 1) : j \notin DOMAIN AllBaskets
            /\ after[i] = BalanceAt(e - 1) + AllBaskets[i].pl
<1>. DEFINE n == Len(tradeRows)
            g == GroupsOf(DOMAIN tradeRows)
            Run(k, e) == /\ e \in 1..k /\ (e = 1 \/ FinalClose(e - 1))
                         /\ \A j \in e..k : ~FinalClose(j)
                         /\ BalanceAt(k) = BalanceAt(e - 1) + g[k].pl
            S == {k \in 0..n : k > 0 /\ ~FinalClose(k) => \E e \in g[k].entries : Run(k, e)}
<1>1. /\ n \in Nat /\ DOMAIN tradeRows = 1..n /\ \A k \in 0..n : BalanceAt(k) \in Int
      /\ \A k \in 1..n : tradeRows[k].profit \in Int
  BY ReportTables, TableParts
<1>2. /\ g[0] = NoGroup /\ \A k \in 0..n : g[k] \in GroupRecords
      /\ \A k \in 1..n : g[k] = Grouped(g[k - 1], k)
      /\ \A k \in 1..n : FinalClose(k) => g[k] = NoGroup
      /\ \A k \in 1..n : ~FinalClose(k) => g[k] # NoGroup
  BY HistoryParts
<1>3. \A k \in 1..n : Follows(k) /\ RowBooked(k)
  BY <1>1 DEF OneByOne, BookedRow
<1>4. /\ DOMAIN AllBaskets = {k \in 1..n : FinalClose(k)}
      /\ AllBaskets[i].pl = g[i - 1].pl + tradeRows[i].profit
      /\ AllBaskets[i].entries = g[i - 1].entries /\ i > 1 /\ ~FinalClose(i - 1)
  <2>1. \A k \in DOMAIN AllBaskets :
            /\ AllBaskets[k].pl = g[k - 1].pl + tradeRows[k].profit
            /\ AllBaskets[k].entries = g[k - 1].entries /\ k > 1 /\ ~FinalClose(k - 1)
    BY HistoryBaskets
  <2>. HIDE DEF g
  <2>. QED BY <2>1, HistoryBaskets
<1>. HIDE DEF g
<1>5. \A k \in 1..n : BalanceAt(k) = BalanceAt(k - 1) + tradeRows[k].profit
  BY <1>1, <1>3 DEF RowBooked, BalanceAt
<1>6. ASSUME NEW k \in 1..n, k - 1 \in S PROVE k \in S
  <2>. SUFFICES ASSUME ~FinalClose(k) PROVE \E e \in g[k].entries : Run(k, e)
    OBVIOUS
  <2>1. /\ k - 1 \in 0..n /\ g[k - 1] \in GroupRecords /\ g[k] = Grouped(g[k - 1], k)
        /\ BalanceAt(k - 1) \in Int /\ tradeRows[k].profit \in Int
        /\ BalanceAt(k) = BalanceAt(k - 1) + tradeRows[k].profit
        /\ tradeRows[k].event # "close" => tradeRows[k].profit = 0
    BY <1>1, <1>2, <1>3, <1>5 DEF RowBooked
  <2>2. CASE tradeRows[k].event = "open"
    <3>1. k = 1 \/ FinalClose(k - 1)
      BY <1>3, <2>2 DEF Follows
    <3>2. CASE k = 1
      <4>1. g[k - 1] = NoGroup
        BY <1>2, <3>2
      <4>2. k \in g[k].entries /\ g[k].pl = 0
        BY <2>1, <2>2, <4>1 DEF Grouped, Entered, NoGroup
      <4>3. \A j \in k..k : j = k
        OBVIOUS
      <4>. QED BY <2>1, <2>2, <3>2, <4>2, <4>3
    <3>3. CASE k # 1 /\ FinalClose(k - 1)
      <4>1. g[k - 1] = NoGroup
        BY <1>2, <3>3
      <4>2. k \in g[k].entries /\ g[k].pl = 0
        BY <2>1, <2>2, <4>1 DEF Grouped, Entered, NoGroup
      <4>3. \A j \in k..k : j = k
        OBVIOUS
      <4>. QED BY <2>1, <2>2, <3>3, <4>2, <4>3
    <3>. QED BY <3>1, <3>2, <3>3
  <2>3. CASE tradeRows[k].event # "open"
    <3>1. k > 1 /\ ~FinalClose(k - 1)
      BY <1>3, <2>3 DEF Follows
    <3>2. PICK e \in g[k - 1].entries : Run(k - 1, e)
      BY <1>6, <3>1
    <3>3. g[k - 1] # NoGroup
      BY <1>2, <3>1
    <3>4. g[k - 1].entries \subseteq g[k].entries
          /\ g[k].pl = g[k - 1].pl + tradeRows[k].profit
      <4>1. CASE tradeRows[k].event = "close"
        BY <2>1, <3>3, <4>1 DEF Grouped, GroupRecords
      <4>2. CASE tradeRows[k].event # "close"
        <5>1. g[k].pl = g[k - 1].pl /\ g[k - 1].pl \in Int
              /\ g[k - 1].entries \subseteq g[k].entries
          BY <2>1, <4>2 DEF Grouped, Entered, GroupRecords
        <5>. QED BY <2>1, <4>2, <5>1
      <4>. QED BY <4>1, <4>2
    <3>5. e \in 1..k /\ e - 1 \in 0..n /\ \A j \in e..k : j = k \/ j \in e..(k - 1)
      BY <1>1, <3>1, <3>2
    <3>6. \A j \in e..k : ~FinalClose(j)
      BY <3>2, <3>5
    <3>7. BalanceAt(k) = BalanceAt(e - 1) + g[k].pl
      <4>1. g[k - 1].pl \in Int /\ BalanceAt(e - 1) \in Int
        BY <1>1, <2>1, <3>5 DEF GroupRecords
      <4>2. BalanceAt(k - 1) = BalanceAt(e - 1) + g[k - 1].pl
        BY <3>2
      <4>. QED BY <2>1, <3>4, <4>1, <4>2
    <3>. QED BY <3>2, <3>4, <3>5, <3>6, <3>7
  <2>. QED BY <2>2, <2>3
<1>7. 0..n \subseteq S
  <2>1. 0 \in S
    BY <1>1
  <2>. HIDE DEF S, n
  <2>. QED BY <1>1, <1>6, <2>1, UpTo
<1>8. i \in 1..n /\ i - 1 \in 1..n /\ i - 1 \in 0..n
  BY <1>1, <1>4
<1>9. PICK e \in g[i - 1].entries : Run(i - 1, e)
  BY <1>4, <1>7, <1>8
<1>10. e \in AllBaskets[i].entries /\ e \in 1..(i - 1) /\ e - 1 \in 0..n
       /\ (e # 1 => e - 1 \in 1..n)
  BY <1>1, <1>4, <1>8, <1>9
<1>11. e = 1 \/ e - 1 \in DOMAIN AllBaskets
  BY <1>4, <1>9, <1>10
<1>12. \A j \in e..(i - 1) : j \notin DOMAIN AllBaskets
  BY <1>4, <1>9
<1>13. after[i] = BalanceAt(e - 1) + AllBaskets[i].pl
  <2>1. BalanceAt(i) = after[i] /\ BalanceAt(i) = BalanceAt(i - 1) + tradeRows[i].profit
    BY <1>5, <1>8 DEF BalanceAt
  <2>2. /\ g[i - 1].pl \in Int /\ BalanceAt(e - 1) \in Int /\ BalanceAt(i - 1) \in Int
        /\ tradeRows[i].profit \in Int
    BY <1>1, <1>2, <1>8, <1>10 DEF GroupRecords
  <2>3. BalanceAt(i - 1) = BalanceAt(e - 1) + g[i - 1].pl
    BY <1>9
  <2>. QED BY <1>4, <2>1, <2>2, <2>3
<1>. QED BY <1>10, <1>11, <1>12, <1>13

-----------------------------------------------------------------------------
(* The balances that are carried *)

Carries == [beat : 0..Len(beatRows), pl : Int, source : {"unknown", "after", "before"},
            balance : Int]

LEMMA CarriedIsCarry ==
  ASSUME ReportNumbers, InOrder(beatRows), NEW c \in Carries, NEW i \in 1..Len(tradeRows),
         NEW pl \in Int
  PROVE  CarryBalance(c, i, pl) \in Carries /\ NothingCarried \in Carries
<1>. DEFINE h == BeatsBefore(i)
            carried == (IF c.beat = h THEN c.pl ELSE 0) + pl
<1>1. /\ Len(beatRows) \in Nat /\ DOMAIN beatRows = 1..Len(beatRows)
      /\ \A k \in 1..Len(beatRows) : beatRows[k].balance \in Int
  BY ReportTables
<1>2. h \in 0..Len(beatRows)
  BY BeatsBeforeIs
<1>3. carried \in Int /\ c.pl \in Int /\ c.beat \in 0..Len(beatRows)
  BY DEF Carries
<1>. HIDE DEF h, carried
<1>4. NothingCarried \in Carries
  BY <1>1 DEF NothingCarried, Carries
<1>5. CASE SoonAfter(i)
  <2>1. beatRows[h + 1].balance \in Int
    BY <1>1, <1>5 DEF SoonAfter, h
  <2>2. [NothingCarried EXCEPT !.source = "after", !.balance = beatRows[h + 1].balance]
           \in Carries
    BY <1>4, <2>1 DEF Carries
  <2>. QED BY <1>4, <1>5, <2>2 DEF CarryBalance, h
<1>6. CASE ~SoonAfter(i) /\ h = 0
  <2>1. [beat |-> c.beat, pl |-> c.pl, source |-> "unknown", balance |-> 0] \in Carries
    BY <1>3 DEF Carries
  <2>. QED BY <1>4, <1>6, <2>1 DEF CarryBalance, h
<1>7. CASE ~SoonAfter(i) /\ h # 0
  <2>1. h \in 1..Len(beatRows)
    BY <1>1, <1>2, <1>7
  <2>2. beatRows[h].balance + carried \in Int
    BY <1>1, <1>3, <2>1
  <2>3. [beat |-> h, pl |-> carried, source |-> "before",
         balance |-> beatRows[h].balance + carried] \in Carries
    BY <1>2, <1>3, <2>2 DEF Carries
  <2>. QED BY <1>4, <1>7, <2>3 DEF CarryBalance, h, carried
<1>. QED BY <1>5, <1>6, <1>7

LEMMA CarryByRow ==
  ASSUME ReportNumbers, InOrder(beatRows), NEW baskets,
         \A i \in DOMAIN baskets : baskets[i].pl \in Int
  PROVE  LET c == BalancesAfter(baskets) n == Len(tradeRows) IN
         /\ c \in [0..n -> Carries] /\ c[0] = NothingCarried
         /\ \A i \in 1..n : c[i] = IF i \in DOMAIN baskets
                                   THEN CarryBalance(c[i - 1], i, baskets[i].pl) ELSE c[i - 1]
<1>. DEFINE n == Len(tradeRows)
            Is(f) == f = [i \in 0..n |-> IF i = 0 THEN NothingCarried
                                         ELSE IF i \in DOMAIN baskets
                                         THEN CarryBalance(f[i - 1], i, baskets[i].pl)
                                         ELSE f[i - 1]]
            step == [i \in 1..n |-> [c \in Carries |->
                        IF i \in DOMAIN baskets THEN CarryBalance(c, i, baskets[i].pl) ELSE c]]
            carry == CHOOSE f : Is(f)
<1>1. n \in Nat /\ NothingCarried \in Carries
  <2>1. n \in Nat /\ Len(beatRows) \in Nat
    BY ReportTables
  <2>. QED BY <2>1 DEF NothingCarried, Carries
<1>2. step \in [1..n -> [Carries -> Carries]]
  BY CarriedIsCarry
<1>3. PICK f \in [0..n -> Carries] : Recurs(f, n, NothingCarried, step)
  <2>. HIDE DEF n, step
  <2>. QED BY <1>1, <1>2, Recursion
<1>4. Is(f)
  <2>1. \A i \in 1..n : i - 1 \in 0..n /\ f[i - 1] \in Carries
    BY <1>1
  <2>2. ASSUME NEW i \in 1..n
        PROVE  f[i] = IF i \in DOMAIN baskets THEN CarryBalance(f[i - 1], i, baskets[i].pl)
                      ELSE f[i - 1]
    BY <1>3, <2>1 DEF Recurs
  <2>3. f[0] = NothingCarried /\ \A i \in 0..n : i = 0 \/ i \in 1..n
    BY <1>1, <1>3 DEF Recurs
  <2>. HIDE DEF n
  <2>. QED BY <2>2, <2>3
<1>. HIDE DEF Is
<1>5. Is(carry)
  BY <1>4
<1>6. BalancesAfter(baskets) = carry
  BY DEF BalancesAfter, Is
<1>7. /\ carry[0] = NothingCarried
      /\ \A i \in 1..n : carry[i] = IF i \in DOMAIN baskets
                                    THEN CarryBalance(carry[i - 1], i, baskets[i].pl)
                                    ELSE carry[i - 1]
  <2>. HIDE DEF carry
  <2>1. carry = [i \in 0..n |-> IF i = 0 THEN NothingCarried
                                ELSE IF i \in DOMAIN baskets
                                THEN CarryBalance(carry[i - 1], i, baskets[i].pl)
                                ELSE carry[i - 1]]
    BY <1>5 DEF Is
  <2>2. 0 \in 0..n /\ \A i \in 1..n : i \in 0..n /\ i # 0
    BY <1>1
  <2>. HIDE DEF n
  <2>. QED BY <2>1, <2>2
<1>8. DOMAIN carry = 0..n /\ carry = [i \in 0..n |-> carry[i]]
  <2>. HIDE DEF carry
  <2>. QED BY <1>5 DEF Is
<1>. HIDE DEF carry
<1>9. 0..n \subseteq {i \in 0..n : carry[i] \in Carries}
  <2>. DEFINE S == {i \in 0..n : carry[i] \in Carries}
  <2>1. 0 \in S
    BY <1>1, <1>7
  <2>2. ASSUME NEW i \in 1..n, i - 1 \in S PROVE i \in S
    <3>1. i \in DOMAIN baskets => CarryBalance(carry[i - 1], i, baskets[i].pl) \in Carries
      BY <2>2, CarriedIsCarry
    <3>. QED BY <1>7, <2>2, <3>1
  <2>3. 0..n \subseteq S
    <3>. HIDE DEF S, n
    <3>. QED BY <1>1, <2>1, <2>2, UpTo
  <2>. QED BY <2>3 DEF S
<1>. QED BY <1>6, <1>7, <1>8, <1>9

\* The balance does not move over rows that close nothing.
LEMMA BalanceRests ==
  ASSUME ReportNumbers, BookedRow, NEW x \in 0..Len(tradeRows), NEW m \in 0..Len(tradeRows), x <= m,
         \A j \in (x + 1)..m : tradeRows[j].event # "close"
  PROVE  BalanceAt(m) = BalanceAt(x)
<1>. DEFINE n == Len(tradeRows)
            S == {k \in 0..n : x <= k /\ k <= m => BalanceAt(k) = BalanceAt(x)}
<1>1. n \in Nat /\ DOMAIN tradeRows = 1..n /\ \A k \in 0..n : BalanceAt(k) \in Int
  BY ReportTables
<1>2. ASSUME NEW k \in 1..n, k - 1 \in S PROVE k \in S
  <2>1. CASE k = x \/ k < x \/ k > m
    BY <2>1
  <2>2. CASE k > x /\ k <= m
    <3>1. k \in (x + 1)..m /\ k - 1 \in 0..n /\ x <= k - 1 /\ k - 1 <= m
      BY <1>1, <2>2
    <3>2. RowBooked(k) /\ tradeRows[k].profit = 0
      BY <1>1, <3>1 DEF BookedRow, RowBooked
    <3>3. BalanceAt(k) = BalanceAt(k - 1)
      BY <1>1, <3>1, <3>2 DEF RowBooked, BalanceAt
    <3>. QED BY <1>2, <3>1, <3>3
  <2>. QED BY <1>1, <2>1, <2>2
<1>3. 0..n \subseteq S
  <2>1. 0 \in S
    BY <1>1
  <2>. HIDE DEF S, n
  <2>. QED BY <1>1, <1>2, <2>1, UpTo
<1>. QED BY <1>1, <1>3

\* The first row of a basket whose beat is not the one carried so far: the beat falls
\* between the exit before and the exit, and says what the account had at the former.
LEMMA FirstCarried ==
  ASSUME ReportsInv, OneByOne, NEW i \in DOMAIN AllBaskets, NEW h, h = BeatsBefore(i), h > 0,
         ~LegBeforeBeat(i),
         \A y \in DOMAIN AllBaskets :
            y < i /\ (\A j \in (y + 1)..(i - 1) : j \notin DOMAIN AllBaskets)
            => BeatsBefore(y) # h
  PROVE  beatRows[h].balance + AllBaskets[i].pl = after[i]
<1>. USE DEF ReportsInv
<1>. DEFINE n == Len(tradeRows)
            b == AllBaskets[i]
<1>1. /\ n \in Nat /\ DOMAIN tradeRows = 1..n /\ \A k \in 0..n : BalanceAt(k) \in Int
      /\ Len(beatRows) \in Nat /\ DOMAIN beatRows = 1..Len(beatRows)
      /\ \A k \in 1..Len(beatRows) : beatRows[k].ts \in Nat
      /\ \A k \in 1..n : tradeRows[k].ts \in Nat
  BY ReportTables, TableParts
<1>2. i \in 1..n /\ \A j \in DOMAIN AllBaskets : j \in 1..n
  BY HistoryBaskets
<1>3. /\ h \in 1..Len(beatRows)
      /\ \A k \in 1..Len(beatRows) : beatRows[k].ts < tradeRows[i].ts <=> k <= h
  BY <1>1, <1>2, BeatsBeforeIs
<1>4. PICK e \in b.entries :
         /\ e \in 1..(i - 1) /\ (e = 1 \/ e - 1 \in DOMAIN AllBaskets)
         /\ \A j \in e..(i - 1) : j \notin DOMAIN AllBaskets
         /\ after[i] = BalanceAt(e - 1) + b.pl
  BY BasketRun
<1>5. PICK m \in 0..n : Says(h, m)
  BY <1>1, <1>3 DEF BookedRow
<1>. HIDE DEF b
<1>6. e - 1 \in 0..n /\ e \in 1..n /\ e <= i - 1
  BY <1>1, <1>2, <1>4
<1>7. beatRows[h].ts < tradeRows[i].ts /\ beatRows[h].ts \in Nat /\ tradeRows[i].ts \in Nat
  BY <1>1, <1>2, <1>3
<1>8. m < i
  <2>. SUFFICES ASSUME i <= m PROVE FALSE
    BY <1>2
  <2>1. tradeRows[i].ts < beatRows[h].ts
    BY <1>1, <1>2, <1>5 DEF Says
  <2>. QED BY <1>7, <2>1
<1>9. e - 1 <= m
  <2>. SUFFICES ASSUME m < e - 1 PROVE FALSE
    BY <1>6
  <2>1. e # 1 /\ e - 1 \in 1..n /\ e - 1 \in DOMAIN AllBaskets /\ e - 1 < i
    <3>1. e # 1 /\ e - 1 \in 1..n /\ e - 1 < i
      BY <1>1, <1>2, <1>6
    <3>. QED BY <1>4, <3>1
  <2>2. beatRows[h].ts < tradeRows[e - 1].ts
    BY <1>1, <1>5, <2>1 DEF Says
  <2>3. \A k \in 1..Len(beatRows) : beatRows[k].ts < tradeRows[e - 1].ts
                                      <=> k <= BeatsBefore(e - 1)
    BY <2>1, BeatsBeforeIs
  <2>4. BeatsBefore(e - 1) \in 0..Len(beatRows)
    BY <2>1, BeatsBeforeIs
  <2>5. tradeRows[e - 1].ts < tradeRows[i].ts
    BY <1>1, <1>2, <2>1 DEF InOrder
  <2>6. h <= BeatsBefore(e - 1)
    BY <1>3, <2>2, <2>3
  <2>7. BeatsBefore(e - 1) <= h
    <3>. SUFFICES ASSUME h < BeatsBefore(e - 1) PROVE FALSE
      BY <1>3, <2>4
    <3>1. h + 1 \in 1..Len(beatRows) /\ h + 1 <= BeatsBefore(e - 1)
      BY <1>1, <1>3, <2>4
    <3>2. beatRows[h + 1].ts < tradeRows[e - 1].ts /\ beatRows[h + 1].ts \in Nat
      BY <1>1, <2>3, <3>1
    <3>3. beatRows[h + 1].ts < tradeRows[i].ts
      <4>1. tradeRows[i].ts \in Nat /\ tradeRows[e - 1].ts \in Nat
        BY <1>1, <1>2, <2>1
      <4>. QED BY <2>5, <3>2, <4>1
    <3>. QED BY <1>3, <3>1, <3>3
  <2>8. BeatsBefore(e - 1) # h
    <3>1. \A j \in (e - 1 + 1)..(i - 1) : j \notin DOMAIN AllBaskets
      BY <1>4, <1>6
    <3>. QED BY <2>1, <3>1
  <2>. QED BY <1>3, <2>4, <2>6, <2>7, <2>8
<1>10. \A j \in (e - 1 + 1)..m : tradeRows[j].event # "close"
  <2>. SUFFICES ASSUME NEW j \in (e - 1 + 1)..m, tradeRows[j].event = "close" PROVE FALSE
    OBVIOUS
  <2>1. j \in e..i /\ j \in 1..n /\ j <= m
    BY <1>1, <1>2, <1>6, <1>8
  <2>2. tradeRows[j].ts < beatRows[h].ts
    BY <1>1, <1>5, <2>1 DEF Says
  <2>3. e \in AllBaskets[i].entries
    BY DEF b
  <2>. QED BY <2>1, <2>2, <2>3 DEF LegBeforeBeat
<1>11. BalanceAt(m) = BalanceAt(e - 1)
  BY <1>6, <1>9, <1>10, BalanceRests
<1>12. beatRows[h].balance = BalanceAt(m)
  BY <1>5 DEF Says
<1>. QED BY <1>4, <1>11, <1>12 DEF b

LEMMA CarriesHold == ReportsInv /\ OneByOne => CarriedIsTrue
<1>. SUFFICES ASSUME ReportsInv, OneByOne PROVE CarriedIsTrue
  OBVIOUS
<1>. USE DEF ReportsInv
<1>. DEFINE n == Len(tradeRows)
            X == DOMAIN AllBaskets
            c == BalancesAfter(AllBaskets)
            Bad(y) == \E j \in X : /\ j <= y /\ BeatsBefore(j) = BeatsBefore(y)
                                   /\ LegBeforeBeat(j)
            LastOne(y, i) == y \in X /\ \A j \in (y + 1)..i : j \notin X
            Fits(y, i) == /\ SoonAfter(y) \/ BeatsBefore(y) = 0 \/ c[i].beat = BeatsBefore(y)
                          /\ c[i].beat > 0 =>
                                /\ c[i].beat = BeatsBefore(y)
                                /\ Bad(y) \/ beatRows[c[i].beat].balance + c[i].pl = after[y]
            S == {i \in 0..n : /\ (\A j \in 1..i : j \notin X) => c[i].beat = 0
                               /\ \A y \in 1..i : LastOne(y, i) => Fits(y, i)}
<1>1. /\ n \in Nat /\ DOMAIN tradeRows = 1..n
      /\ Len(beatRows) \in Nat /\ DOMAIN beatRows = 1..Len(beatRows)
      /\ \A k \in 1..Len(beatRows) : beatRows[k].ts \in Nat /\ beatRows[k].balance \in Int
      /\ \A k \in 1..n : tradeRows[k].ts \in Nat /\ after[k] \in Int
  BY ReportTables, TableParts
<1>2. X \subseteq 1..n /\ \A i \in X : AllBaskets[i].pl \in Int
  <2>. DEFINE g == GroupsOf(DOMAIN tradeRows)
  <2>1. /\ X = {i \in 1..n : FinalClose(i)}
        /\ \A i \in X : AllBaskets[i].pl = g[i - 1].pl + tradeRows[i].profit
    BY HistoryBaskets
  <2>2. \A i \in 0..n : g[i] \in GroupRecords
    BY HistoryParts
  <2>. HIDE DEF g
  <2>3. \A i \in 1..n : i - 1 \in 0..n /\ tradeRows[i].profit \in Int
    BY <1>1, ReportTables, TableParts
  <2>4. \A i \in 1..n : g[i - 1].pl \in Int
    BY <2>2, <2>3 DEF GroupRecords
  <2>. QED BY <2>1, <2>3, <2>4
<1>3. /\ c \in [0..n -> Carries] /\ c[0] = NothingCarried
      /\ \A i \in 1..n : c[i] = IF i \in X THEN CarryBalance(c[i - 1], i, AllBaskets[i].pl)
                                ELSE c[i - 1]
  <2>. HIDE DEF c
  <2>. QED BY <1>2, CarryByRow DEF c
<1>. HIDE DEF c, X
<1>4. \A i \in 1..n : /\ BeatsBefore(i) \in 0..Len(beatRows)
                      /\ \A k \in 1..Len(beatRows) :
                            beatRows[k].ts < tradeRows[i].ts <=> k <= BeatsBefore(i)
  BY BeatsBeforeIs
<1>5. ASSUME NEW i \in 1..n, i - 1 \in S, i \notin X PROVE i \in S
  <2>1. c[i] = c[i - 1] /\ \A y \in 1..i : y = i \/ y \in 1..(i - 1)
    BY <1>3, <1>5
  <2>2. (\A j \in 1..i : j \notin X) => c[i].beat = 0
    <3>1. \A j \in 1..(i - 1) : j \in 1..i
      OBVIOUS
    <3>. QED BY <1>5, <2>1, <3>1
  <2>3. ASSUME NEW y \in 1..i, LastOne(y, i) PROVE Fits(y, i)
    <3>1. y \in 1..(i - 1)
      BY <1>5, <2>1, <2>3
    <3>2. \A j \in (y + 1)..(i - 1) : j \in (y + 1)..i
      OBVIOUS
    <3>3. LastOne(y, i - 1)
      BY <2>3, <3>2
    <3>. QED BY <1>5, <2>1, <3>1, <3>3
  <2>. QED BY <1>1, <2>2, <2>3
<1>6. ASSUME NEW i \in X, i - 1 \in S PROVE Fits(i, i)
  <2>. DEFINE h == BeatsBefore(i)
              pl == AllBaskets[i].pl
              carried == (IF c[i - 1].beat = h THEN c[i - 1].pl ELSE 0) + pl
  <2>1. i \in 1..n /\ i - 1 \in 0..n /\ pl \in Int /\ c[i - 1] \in Carries /\ c[i] \in Carries
        /\ c[i] = CarryBalance(c[i - 1], i, pl)
    BY <1>1, <1>2, <1>3
  <2>2. /\ h \in 0..Len(beatRows)
        /\ \A k \in 1..Len(beatRows) : beatRows[k].ts < tradeRows[i].ts <=> k <= h
    BY <1>4, <2>1
  <2>3. c[i - 1].beat \in 0..Len(beatRows) /\ c[i - 1].pl \in Int
    BY <2>1 DEF Carries
  <2>4. PICK e \in AllBaskets[i].entries :
           /\ e \in 1..(i - 1) /\ (e = 1 \/ e - 1 \in X)
           /\ \A j \in e..(i - 1) : j \notin X
           /\ after[i] = BalanceAt(e - 1) + pl
    BY BasketRun DEF X
  <2>. HIDE DEF h, pl, carried
  <2>5. ASSUME NEW y \in 1..n, y < i
        PROVE  tradeRows[y].ts < tradeRows[i].ts /\ BeatsBefore(y) <= h
    <3>1. tradeRows[y].ts < tradeRows[i].ts
      BY <1>1, <2>1, <2>5 DEF InOrder
    <3>2. BeatsBefore(y) \in 0..Len(beatRows)
      BY <1>4
    <3>3. CASE BeatsBefore(y) = 0
      BY <2>2, <3>1, <3>3
    <3>4. CASE BeatsBefore(y) # 0
      <4>1. BeatsBefore(y) \in 1..Len(beatRows)
        BY <3>2, <3>4
      <4>2. beatRows[BeatsBefore(y)].ts < tradeRows[y].ts
        BY <1>4, <4>1
      <4>3. beatRows[BeatsBefore(y)].ts < tradeRows[i].ts
        BY <1>1, <2>1, <3>1, <4>1, <4>2
      <4>. QED BY <2>2, <3>1, <4>1, <4>3
    <3>. QED BY <3>3, <3>4
  \* What is carried came from the exit before.
  <2>6. ASSUME c[i - 1].beat > 0
        PROVE  /\ e - 1 \in X /\ e - 1 \in 1..n /\ e - 1 < i
               /\ c[i - 1].beat = BeatsBefore(e - 1)
               /\ \/ Bad(e - 1)
                  \/ beatRows[c[i - 1].beat].balance + c[i - 1].pl = after[e - 1]
    <3>1. e # 1
      <4>. SUFFICES ASSUME e = 1 PROVE FALSE
        OBVIOUS
      <4>1. \A j \in 1..(i - 1) : j \notin X
        BY <2>4
      <4>2. c[i - 1].beat = 0
        BY <1>6, <4>1
      <4>. QED BY <2>6, <4>2
    <3>2. e - 1 \in X /\ e - 1 \in 1..(i - 1) /\ e - 1 \in 1..n /\ e - 1 < i
      BY <2>1, <2>4, <3>1
    <3>3. \A j \in (e - 1 + 1)..(i - 1) : j \notin X
      BY <2>4
    <3>4. Fits(e - 1, i - 1)
      BY <1>6, <3>2, <3>3
    <3>. QED BY <2>6, <3>2, <3>4
  <2>7. CASE SoonAfter(i)
    <3>1. c[i].beat = 0
      BY <2>1, <2>7 DEF CarryBalance, NothingCarried
    <3>. QED BY <2>7, <3>1
  <2>8. CASE ~SoonAfter(i) /\ h = 0
    <3>1. c[i].beat = c[i - 1].beat
      BY <2>1, <2>8 DEF CarryBalance, h
    <3>2. ~(c[i - 1].beat > 0)
      <4>. SUFFICES ASSUME c[i - 1].beat > 0 PROVE FALSE
        OBVIOUS
      <4>1. c[i - 1].beat <= h
        BY <2>5, <2>6
      <4>. QED BY <2>3, <2>8, <4>1
    <3>. QED BY <2>8, <3>1, <3>2 DEF h
  <2>9. CASE ~SoonAfter(i) /\ h # 0
    <3>1. c[i] = [beat |-> h, pl |-> carried, source |-> "before",
                  balance |-> beatRows[h].balance + carried]
      BY <2>1, <2>9 DEF CarryBalance, h, carried
    <3>2. c[i].beat = h /\ c[i].pl = carried /\ h > 0 /\ h \in 1..Len(beatRows)
      BY <1>1, <2>2, <2>9, <3>1
    <3>3. Bad(i) \/ beatRows[h].balance + carried = after[i]
      <4>1. CASE c[i - 1].beat = h
        <5>1. /\ e - 1 \in X /\ e - 1 \in 1..n /\ e - 1 < i /\ h = BeatsBefore(e - 1)
              /\ Bad(e - 1) \/ beatRows[h].balance + c[i - 1].pl = after[e - 1]
          BY <2>6, <3>2, <4>1
        <5>2. CASE Bad(e - 1)
          <6>1. PICK j \in X : /\ j <= e - 1 /\ BeatsBefore(j) = BeatsBefore(e - 1)
                               /\ LegBeforeBeat(j)
            BY <5>2
          <6>2. j <= i
            BY <1>2, <2>1, <5>1, <6>1
          <6>. QED BY <5>1, <6>1, <6>2 DEF h
        <5>3. CASE beatRows[h].balance + c[i - 1].pl = after[e - 1]
          <6>1. BalanceAt(e - 1) = after[e - 1] /\ carried = c[i - 1].pl + pl
            BY <4>1, <5>1 DEF BalanceAt, carried
          <6>2. after[e - 1] \in Int /\ beatRows[h].balance \in Int
            BY <1>1, <3>2, <5>1
          <6>3. after[i] = after[e - 1] + pl
            BY <2>4, <6>1
          <6>4. pl \in Int /\ c[i - 1].pl \in Int
            BY <1>1, <2>1, <2>3
          <6>5. beatRows[h].balance + carried = after[i]
            BY <5>3, <6>1, <6>2, <6>3, <6>4
          <6>. QED BY <2>1, <2>3, <5>3, <6>1, <6>2, <6>3, <6>5
        <5>. QED BY <5>1, <5>2, <5>3
      <4>2. CASE LegBeforeBeat(i)
        <5>1. i <= i
          BY <2>1
        <5>. QED BY <4>2, <5>1
      <4>3. CASE c[i - 1].beat # h /\ ~LegBeforeBeat(i)
        <5>1. carried = pl
          BY <2>1, <4>3 DEF carried
        <5>2. ASSUME NEW y \in X, y < i, \A j \in (y + 1)..(i - 1) : j \notin X,
                     BeatsBefore(y) = h
              PROVE  FALSE
          <6>1. y \in 1..(i - 1) /\ y \in 1..n
            BY <1>1, <1>2, <2>1, <5>2
          <6>2. Fits(y, i - 1)
            BY <1>6, <5>2, <6>1
          <6>3. SoonAfter(y)
            BY <2>9, <4>3, <5>2, <6>2
          <6>4. h + 1 \in 1..Len(beatRows)
                /\ beatRows[h + 1].ts <= tradeRows[y].ts + HbAfterWindow
            BY <1>1, <5>2, <6>3 DEF SoonAfter
          <6>5. tradeRows[y].ts < tradeRows[i].ts
            BY <2>5, <5>2, <6>1
          <6>6. HbAfterWindow \in Nat /\ beatRows[h + 1].ts \in Nat /\ tradeRows[y].ts \in Nat
                /\ tradeRows[i].ts \in Nat
            BY <1>1, <2>1, <6>1, <6>4, ReportsAssumption
          <6>7. beatRows[h + 1].ts <= tradeRows[i].ts + HbAfterWindow
            BY <6>4, <6>5, <6>6
          <6>8. SoonAfter(i)
            BY <1>1, <6>4, <6>7 DEF SoonAfter, h
          <6>. QED BY <2>9, <6>8
        <5>3. beatRows[h].balance + pl = after[i]
          <6>1. h = BeatsBefore(i) /\ i \in DOMAIN AllBaskets
            BY DEF h, X
          <6>2. \A y \in DOMAIN AllBaskets :
                   y < i /\ (\A j \in (y + 1)..(i - 1) : j \notin DOMAIN AllBaskets)
                   => BeatsBefore(y) # h
            BY <5>2 DEF X
          <6>3. beatRows[h].balance + AllBaskets[i].pl = after[i]
            BY <3>2, <4>3, <6>1, <6>2, FirstCarried
          <6>. QED BY <6>3 DEF pl
        <5>. QED BY <5>1, <5>3
      <4>. QED BY <4>1, <4>2, <4>3
    <3>. QED BY <3>2, <3>3 DEF h
  <2>. QED BY <2>7, <2>8, <2>9
<1>7. ASSUME NEW i \in 1..n, i - 1 \in S, i \in X PROVE i \in S
  <2>1. i \in 0..n /\ i \in 1..i
    BY <1>1
  <2>2. ~(\A j \in 1..i : j \notin X)
    BY <1>7, <2>1
  <2>3. ASSUME NEW y \in 1..i, LastOne(y, i) PROVE y = i
    <3>. SUFFICES ASSUME y < i PROVE FALSE
      OBVIOUS
    <3>1. i \in (y + 1)..i
      OBVIOUS
    <3>. QED BY <1>7, <2>3, <3>1
  <2>4. Fits(i, i)
    BY <1>6, <1>7
  <2>. QED BY <2>1, <2>2, <2>3, <2>4
<1>8. 0..n \subseteq S
  <2>1. 0 \in S
    BY <1>1, <1>3 DEF NothingCarried
  <2>2. \A i \in 1..n : i - 1 \in S => i \in S
    BY <1>5, <1>7
  <2>. HIDE DEF S, n
  <2>. QED BY <1>1, <2>1, <2>2, UpTo
<1>9. ASSUME NEW i \in X, c[i].source = "before" PROVE c[i].balance = after[i] \/ Bad(i)
  <2>. DEFINE h == BeatsBefore(i)
              pl == AllBaskets[i].pl
              carried == (IF c[i - 1].beat = h THEN c[i - 1].pl ELSE 0) + pl
  <2>1. i \in 1..n /\ i \in 0..n /\ c[i] = CarryBalance(c[i - 1], i, pl)
    BY <1>1, <1>2, <1>3
  <2>2. h \in 0..Len(beatRows)
    BY <1>4, <2>1
  <2>3. ~SoonAfter(i)
    BY <1>9, <2>1 DEF CarryBalance, NothingCarried
  <2>. HIDE DEF h, carried, pl
  <2>4. h # 0
    BY <1>9, <2>1, <2>3 DEF CarryBalance, h
  <2>5. c[i] = [beat |-> h, pl |-> carried, source |-> "before",
                balance |-> beatRows[h].balance + carried]
    BY <2>1, <2>3, <2>4 DEF CarryBalance, h, carried
  <2>6. c[i].beat = h /\ c[i].balance = beatRows[c[i].beat].balance + c[i].pl /\ h > 0
    BY <2>2, <2>4, <2>5
  <2>7. LastOne(i, i) /\ i \in 1..i
    BY <2>1
  <2>8. Fits(i, i)
    BY <1>8, <2>1, <2>7
  <2>. QED BY <2>6, <2>8
<1>. QED BY <1>9 DEF CarriedIsTrue, c, X

-----------------------------------------------------------------------------
(* What was earned *)

\* What is fetched for a window is the baskets of the history that closed in it.
LEMMA WindowBaskets ==
  ASSUME ReportsInv, OneByOne, NEW from, NEW to \in Int
  PROVE  ClosedBaskets(from, to)
            = Those(AllBaskets, {i \in DOMAIN AllBaskets : tradeRows[i].ts \in from..(to - 1)})
<1>. USE DEF ReportsInv
<1>. DEFINE n == Len(tradeRows)
            R == {i \in DOMAIN tradeRows : tradeRows[i].ts < to}
            g == GroupsOf(DOMAIN tradeRows)
            p == GroupsOf(R)
            S == {i \in 0..n : i = 0 \/ i \in R => p[i] = g[i]}
<1>1. /\ n \in Nat /\ DOMAIN tradeRows = 1..n /\ \A i \in 1..n : tradeRows[i].ts \in Nat
  BY ReportTables, TableParts
<1>2. g[0] = NoGroup /\ \A i \in 1..n : g[i] = Grouped(g[i - 1], i)
  BY HistoryParts
<1>3. p[0] = NoGroup /\ \A i \in 1..n : p[i] = IF i \in R THEN Grouped(p[i - 1], i) ELSE p[i - 1]
  BY GroupsByRow
<1>4. GroupBaskets(R) = [i \in {j \in R : FinalClose(j) /\ p[j - 1] # NoGroup} |->
                            [p[i - 1] EXCEPT !.pl = @ + tradeRows[i].profit]]
  BY DEF GroupBaskets
<1>5. AllBaskets = [i \in {j \in DOMAIN tradeRows : FinalClose(j) /\ g[j - 1] # NoGroup} |->
                       [g[i - 1] EXCEPT !.pl = @ + tradeRows[i].profit]]
  BY DEF AllBaskets, GroupBaskets
<1>. HIDE DEF g, p
<1>6. ASSUME NEW i \in R PROVE i - 1 \in 0..n /\ (i = 1 \/ i - 1 \in R)
  <2>1. i \in 1..n /\ tradeRows[i].ts < to
    BY <1>1
  <2>2. CASE i # 1
    <3>1. i - 1 \in 1..n /\ i - 1 < i
      BY <2>1, <2>2
    <3>2. tradeRows[i - 1].ts < tradeRows[i].ts
      BY <1>1, <2>1, <3>1 DEF InOrder
    <3>. QED BY <1>1, <2>1, <3>1, <3>2
  <2>. QED BY <1>1, <2>1, <2>2
<1>7. 0..n \subseteq S
  <2>1. 0 \in S
    BY <1>1, <1>2, <1>3
  <2>2. ASSUME NEW i \in 1..n, i - 1 \in S PROVE i \in S
    <3>1. CASE i \in R
      <4>1. i - 1 = 0 \/ i - 1 \in R
        BY <1>6, <3>1
      <4>2. p[i - 1] = g[i - 1]
        BY <2>2, <4>1
      <4>3. p[i] = Grouped(p[i - 1], i) /\ g[i] = Grouped(g[i - 1], i)
        BY <1>2, <1>3, <3>1
      <4>. QED BY <1>1, <4>2, <4>3
    <3>2. CASE i \notin R
      BY <1>1, <3>2
    <3>. QED BY <3>1, <3>2
  <2>. HIDE DEF S, n
  <2>. QED BY <1>1, <2>1, <2>2, UpTo
<1>8. \A i \in R : p[i - 1] = g[i - 1]
  BY <1>6, <1>7
<1>9. DOMAIN GroupBaskets(R) = {i \in DOMAIN AllBaskets : i \in R}
  BY <1>4, <1>5, <1>8
<1>10. \A i \in DOMAIN GroupBaskets(R) : GroupBaskets(R)[i] = AllBaskets[i]
  BY <1>4, <1>5, <1>8, <1>9
<1>11. DOMAIN AllBaskets \subseteq DOMAIN tradeRows
  BY <1>5
<1>. DEFINE closed == {i \in DOMAIN GroupBaskets(R) : tradeRows[i].ts \in from..(to - 1)}
            wanted == {i \in DOMAIN AllBaskets : tradeRows[i].ts \in from..(to - 1)}
<1>12. closed = wanted
  <2>1. \A i \in DOMAIN AllBaskets : tradeRows[i].ts \in from..(to - 1) => i \in R
    BY <1>1, <1>11
  <2>. HIDE DEF R
  <2>. QED BY <1>9, <2>1
<1>13. \A i \in wanted : GroupBaskets(R)[i] = AllBaskets[i]
  BY <1>10, <1>12
<1>14. ClosedBaskets(from, to) = [i \in closed |-> GroupBaskets(R)[i]]
  BY DEF ClosedBaskets, Those
<1>. HIDE DEF R, closed, wanted
<1>15. ClosedBaskets(from, to) = [i \in wanted |-> AllBaskets[i]]
  BY <1>12, <1>13, <1>14
<1>. QED BY <1>15 DEF Those, wanted

\* What the open basket of a symbol has pending, when it is settled later on.
Pending(g, s, i) == IF i > 0 /\ ~FinalClose(i) /\ Settled(s, i) THEN g[i].pl ELSE 0
ExitPl(s, i) == IF FinalClose(i) /\ tradeRows[i].symbol = s THEN AllBaskets[i].pl ELSE 0
SettledProfit(s, i) == IF Settled(s, i) THEN tradeRows[i].profit ELSE 0

\* A row's settled profit goes to the pending earnings of its basket or, with all
\* that is pending, to the exit.
LEMMA PendingMoves ==
  ASSUME ReportsInv, OneByOne, NEW g, g = GroupsOf(DOMAIN tradeRows),
         NEW s \in TradeSymbols, NEW i \in 1..Len(tradeRows)
  PROVE  /\ Pending(g, s, i) \in Int /\ Pending(g, s, i - 1) \in Int
         /\ ExitPl(s, i) \in Int /\ SettledProfit(s, i) \in Int
         /\ Pending(g, s, i) + ExitPl(s, i) = Pending(g, s, i - 1) + SettledProfit(s, i)
<1>. DEFINE n == Len(tradeRows)
            r == tradeRows[i]
<1>1. /\ n \in Nat /\ DOMAIN tradeRows = 1..n
      /\ r.event \in {"open", "add", "close"} /\ r.profit \in Int
  BY ReportTables, TableParts DEF ReportsInv
<1>2. /\ g[0] = NoGroup /\ \A j \in 0..n : g[j] \in GroupRecords
      /\ \A j \in 1..n : g[j] = Grouped(g[j - 1], j)
      /\ \A j \in 1..n : IF FinalClose(j) THEN g[j] = NoGroup
                         ELSE g[j] # NoGroup /\ g[j].symbol = tradeRows[j].symbol
  BY HistoryParts DEF ReportsInv
<1>3. /\ \A j \in 0..n : g[j].pl \in Int
      /\ NoGroup.pl = 0
  <2>1. NoGroup.pl = 0
    BY DEF NoGroup
  <2>2. \A x \in GroupRecords : x.pl \in Int
    BY DEF GroupRecords
  <2>. QED BY <1>2, <2>1, <2>2
<1>4. FinalClose(i) => AllBaskets[i].pl = g[i - 1].pl + r.profit
  BY HistoryBaskets, <1>1 DEF ReportsInv
<1>5. r.event # "close" => r.profit = 0
  BY <1>1 DEF ReportsInv, BookedRow, RowBooked
<1>6. Follows(i)
  BY <1>1 DEF OneByOne
<1>7. i - 1 \in 0..n
  BY <1>1
<1>8. /\ Pending(g, s, i) \in Int /\ Pending(g, s, i - 1) \in Int
      /\ ExitPl(s, i) \in Int /\ SettledProfit(s, i) \in Int
  <2>1. Pending(g, s, i) \in Int /\ Pending(g, s, i - 1) \in Int
    BY <1>1, <1>3, <1>7 DEF Pending
  <2>2. g[i - 1].pl \in Int
    BY <1>3, <1>7
  <2>3. ExitPl(s, i) \in Int /\ SettledProfit(s, i) \in Int
    BY <1>1, <1>4, <2>2 DEF ExitPl, SettledProfit
  <2>. QED BY <2>1, <2>3
\* A basket that goes on from row i - 1 to row i is settled there as here.
<1>9. ASSUME r.event # "open"
      PROVE  /\ i > 1 /\ i - 1 \in 1..n /\ ~FinalClose(i - 1) /\ tradeRows[i - 1].symbol = r.symbol
             /\ Settled(s, i) <=> Settled(s, i - 1)
             /\ Pending(g, s, i - 1) = IF Settled(s, i) THEN g[i - 1].pl ELSE 0
  <2>1. i > 1 /\ i - 1 \in 1..n /\ ~FinalClose(i - 1) /\ tradeRows[i - 1].symbol = r.symbol
    BY <1>1, <1>6, <1>9 DEF Follows
  <2>2. \A j \in 1..n : FinalClose(j) => (i <= j <=> i - 1 <= j)
    <3>. SUFFICES ASSUME NEW j \in 1..n, FinalClose(j) PROVE i <= j <=> i - 1 <= j
      OBVIOUS
    <3>1. j # i - 1
      BY <2>1
    <3>. QED BY <1>1, <3>1
  <2>3. Settled(s, i) <=> Settled(s, i - 1)
    BY <1>1, <2>1, <2>2 DEF Settled
  <2>4. i - 1 > 0
    BY <2>1
  <2>. QED BY <2>1, <2>3, <2>4 DEF Pending
<1>10. ASSUME r.event = "open"
       PROVE  /\ Pending(g, s, i) = 0 /\ Pending(g, s, i - 1) = 0
              /\ ~FinalClose(i) /\ r.profit = 0
  <2>1. i = 1 \/ FinalClose(i - 1)
    BY <1>6, <1>10 DEF Follows
  <2>2. g[i - 1] = NoGroup
    <3>1. CASE i = 1
      BY <1>2, <3>1
    <3>2. CASE i # 1
      <4>1. i - 1 \in 1..n
        BY <1>1, <3>2
      <4>. QED BY <1>2, <2>1, <3>2, <4>1
    <3>. QED BY <3>1, <3>2
  <2>3. ~FinalClose(i) /\ r.profit = 0
    BY <1>5, <1>10 DEF FinalClose
  <2>4. g[i].pl = 0
    <3>1. g[i] = Entered(NoGroup, i)
      BY <1>2, <1>10, <2>2 DEF Grouped
    <3>. QED BY <1>3, <3>1 DEF Entered
  <2>5. Pending(g, s, i - 1) = 0
    BY <1>1, <2>1 DEF Pending
  <2>. QED BY <2>3, <2>4, <2>5 DEF Pending
<1>11. CASE r.event = "open"
  <2>1. ExitPl(s, i) = 0
    BY <1>10, <1>11 DEF ExitPl
  <2>2. SettledProfit(s, i) = 0
    BY <1>10, <1>11 DEF SettledProfit
  <2>. QED BY <1>8, <1>10, <1>11, <2>1, <2>2
<1>12. CASE FinalClose(i)
  <2>1. r.event = "close"
    BY <1>12 DEF FinalClose
  <2>2. Pending(g, s, i) = 0
    BY <1>12 DEF Pending
  <2>3. Settled(s, i) <=> r.symbol = s
    BY <1>1, <1>12 DEF Settled
  <2>4. Pending(g, s, i - 1) = IF r.symbol = s THEN g[i - 1].pl ELSE 0
    BY <1>9, <2>1, <2>3
  <2>5. /\ ExitPl(s, i) = IF r.symbol = s THEN g[i - 1].pl + r.profit ELSE 0
        /\ SettledProfit(s, i) = IF r.symbol = s THEN r.profit ELSE 0
    BY <1>4, <1>12, <2>3 DEF ExitPl, SettledProfit
  <2>6. g[i - 1].pl \in Int
    BY <1>3, <1>7
  <2>. QED BY <1>1, <1>8, <2>2, <2>4, <2>5, <2>6
<1>13. CASE r.event # "open" /\ ~FinalClose(i)
  <2>1. g[i].pl = g[i - 1].pl + r.profit
    <3>1. CASE r.event = "close"
      <4>1. g[i - 1] # NoGroup
        BY <1>2, <1>9, <1>13
      <4>2. g[i] = [g[i - 1] EXCEPT !.pl = @ + r.profit]
        BY <1>2, <1>13, <3>1, <4>1 DEF Grouped
      <4>3. g[i - 1] \in GroupRecords
        BY <1>2, <1>7
      <4>. QED BY <4>2, <4>3 DEF GroupRecords
    <3>2. CASE r.event # "close"
      <4>1. g[i] = Entered(g[i - 1], i)
        BY <1>2, <3>2 DEF Grouped
      <4>. QED BY <1>3, <1>5, <1>7, <3>2, <4>1 DEF Entered
    <3>. QED BY <3>1, <3>2
  <2>2. ExitPl(s, i) = 0
    BY <1>13 DEF ExitPl
  <2>3. Pending(g, s, i) = IF Settled(s, i) THEN g[i].pl ELSE 0
    BY <1>1, <1>13 DEF Pending
  <2>4. SettledProfit(s, i) = IF Settled(s, i) THEN r.profit ELSE 0
    BY DEF SettledProfit
  <2>5. Pending(g, s, i - 1) = IF Settled(s, i) THEN g[i - 1].pl ELSE 0
    BY <1>9, <1>13
  <2>6. g[i - 1].pl \in Int
    BY <1>3, <1>7
  <2>. QED BY <1>1, <1>8, <2>1, <2>2, <2>3, <2>4, <2>5, <2>6
<1>. HIDE DEF r
<1>. QED BY <1>8, <1>11, <1>12, <1>13

\* What the baskets of a symbol earned is what its settled rows earned.
LEMMA EarnedIs ==
  ASSUME ReportsInv, OneByOne, NEW s \in TradeSymbols
  PROVE  TotalPl(OfSymbol(AllBaskets, s)) = Earned(s)
<1>. DEFINE n == Len(tradeRows)
            x == [i \in 1..n |-> ExitPl(s, i)]
            y == [i \in 1..n |-> SettledProfit(s, i)]
            own == OfSymbol(AllBaskets, s)
<1>1. PICK g : g = GroupsOf(DOMAIN tradeRows)
  OBVIOUS
<1>2. n \in Nat /\ DOMAIN tradeRows = 1..n
  BY ReportTables DEF ReportsInv
<1>3. \A i \in 1..n :
         /\ Pending(g, s, i) \in Int /\ Pending(g, s, i - 1) \in Int
         /\ ExitPl(s, i) \in Int /\ SettledProfit(s, i) \in Int
         /\ Pending(g, s, i) + ExitPl(s, i) = Pending(g, s, i - 1) + SettledProfit(s, i)
  BY <1>1, PendingMoves
<1>4. x \in [1..n -> Int] /\ y \in [1..n -> Int]
  BY <1>3
<1>5. TotalPl(own) = Total(x)
  <2>1. /\ DOMAIN AllBaskets = {i \in 1..n : FinalClose(i)}
        /\ \A i \in DOMAIN AllBaskets : AllBaskets[i].symbol = tradeRows[i].symbol
    BY <1>1, HistoryBaskets DEF ReportsInv
  <2>2. own = [i \in {j \in DOMAIN AllBaskets : AllBaskets[j].symbol = s} |-> AllBaskets[i]]
    BY DEF OfSymbol, Those
  <2>. HIDE DEF own
  <2>3. \A i \in 1..n : (IF i \in DOMAIN own THEN own[i].pl ELSE 0) = ExitPl(s, i)
    <3>. SUFFICES ASSUME NEW i \in 1..n
                  PROVE  (IF i \in DOMAIN own THEN own[i].pl ELSE 0) = ExitPl(s, i)
      OBVIOUS
    <3>1. i \in DOMAIN own <=> FinalClose(i) /\ tradeRows[i].symbol = s
      BY <2>1, <2>2
    <3>2. i \in DOMAIN own => own[i] = AllBaskets[i]
      BY <2>2
    <3>. QED BY <3>1, <3>2 DEF ExitPl
  <2>4. [i \in 1..n |-> IF i \in DOMAIN own THEN own[i].pl ELSE 0] = x
    BY <2>3
  <2>. HIDE DEF x
  <2>. QED BY <2>4 DEF TotalPl
<1>6. Earned(s) = Total(y)
  BY DEF Earned, SettledProfit
<1>. HIDE DEF x, y, own
<1>7. PICK f \in [0..n -> Int] : /\ f[0] = 0 /\ Total(x) = f[n]
                                 /\ \A k \in 1..n : f[k] = f[k - 1] + x[k]
  BY <1>2, <1>4, SumUp
<1>8. PICK h \in [0..n -> Int] : /\ h[0] = 0 /\ Total(y) = h[n]
                                 /\ \A k \in 1..n : h[k] = h[k - 1] + y[k]
  BY <1>2, <1>4, SumUp
<1>. DEFINE S == {k \in 0..n : f[k] + Pending(g, s, k) = h[k]}
<1>9. 0 \in S
  BY <1>2, <1>7, <1>8 DEF Pending
<1>10. ASSUME NEW k \in 1..n, k - 1 \in S PROVE k \in S
  <2>1. k - 1 \in 0..n /\ f[k - 1] + Pending(g, s, k - 1) = h[k - 1]
    BY <1>10
  <2>2. f[k] = f[k - 1] + ExitPl(s, k) /\ h[k] = h[k - 1] + SettledProfit(s, k)
    BY <1>7, <1>8 DEF x, y
  <2>3. f[k - 1] \in Int /\ h[k - 1] \in Int /\ f[k] \in Int /\ h[k] \in Int
    BY <1>2, <2>1
  <2>4. f[k] + Pending(g, s, k) = h[k]
    <3>1. /\ Pending(g, s, k) \in Int /\ Pending(g, s, k - 1) \in Int
          /\ ExitPl(s, k) \in Int /\ SettledProfit(s, k) \in Int
          /\ Pending(g, s, k) + ExitPl(s, k) = Pending(g, s, k - 1) + SettledProfit(s, k)
      BY <1>3
    <3>. DEFINE pending == Pending(g, s, k)
                before == Pending(g, s, k - 1)
                paid == ExitPl(s, k)
                earned == SettledProfit(s, k)
                fk == f[k]
                fl == f[k - 1]
                hk == h[k]
                hl == h[k - 1]
    <3>2. /\ pending \in Int /\ before \in Int /\ paid \in Int /\ earned \in Int
          /\ fk \in Int /\ fl \in Int /\ hk \in Int /\ hl \in Int
          /\ pending + paid = before + earned /\ fl + before = hl
          /\ fk = fl + paid /\ hk = hl + earned
      BY <2>1, <2>2, <2>3, <3>1
    <3>. HIDE DEF pending, before, paid, earned, fk, fl, hk, hl
    <3>3. fk + pending = hk
      BY <3>2
    <3>. QED BY <3>3 DEF fk, pending, hk
  <2>. QED BY <1>2, <2>4
<1>11. 0..n \subseteq S
  <2>. HIDE DEF S, n
  <2>. QED BY <1>2, <1>9, <1>10, UpTo
<1>12. f[n] + Pending(g, s, n) = h[n]
  BY <1>2, <1>11
<1>13. Pending(g, s, n) = 0
  <2>1. Settled(s, n) => FinalClose(n)
    <3>1. ASSUME NEW j \in 1..n, n <= j PROVE j = n
      <4>. HIDE DEF n
      <4>. QED BY <1>2, <3>1
    <3>. QED BY <1>2, <3>1 DEF Settled
  <2>. QED BY <2>1 DEF Pending
<1>14. f[n] \in Int /\ h[n] \in Int
  BY <1>2
<1>15. f[n] = h[n]
  <2>. HIDE DEF n
  <2>. QED BY <1>12, <1>13, <1>14
<1>16. TotalPl(own) = Earned(s)
  BY <1>5, <1>6, <1>7, <1>8, <1>15
<1>. QED BY <1>16 DEF own

\* A second is of the day whose window it lies in.
LEMMA DayWindow ==
  ASSUME NEW t \in Nat, NEW d \in Nat
  PROVE  /\ ServerDay(t) \in Nat /\ t < (ServerDay(t) + 1) * DaySeconds
         /\ d * DaySeconds \in Nat /\ (d + 1) * DaySeconds = d * DaySeconds + DaySeconds
         /\ ServerDay(t) = d <=> t \in (d * DaySeconds)..((d + 1) * DaySeconds - 1)
<1>. DEFINE D == DaySeconds
            q == t \div D
<1>1. D \in Nat \ {0}
  BY ReportsAssumption
<1>. HIDE DEF D
<1>2. q \in Nat
  BY <1>1
<1>3. q * D <= t /\ t < q * D + D
  BY <1>1
<1>. HIDE DEF q
<1>4. /\ d * D \in Nat /\ q * D \in Nat
      /\ (d + 1) * D = d * D + D /\ (q + 1) * D = q * D + D
  BY <1>1, <1>2
<1>5. q < d => q * D + D <= d * D
  BY <1>1, <1>2
<1>6. d < q => d * D + D <= q * D
  BY <1>1, <1>2
<1>7. q = d <=> t \in (d * D)..((d + 1) * D - 1)
  BY <1>1, <1>2, <1>3, <1>4, <1>5, <1>6
<1>. QED BY <1>2, <1>3, <1>4, <1>7 DEF D, q, ServerDay

\* All there is, is in the month; what a day says alone it says in the month.
LEMMA MonthAndDays ==
  ASSUME ReportsInv, OneByOne
  PROVE  /\ ClosedBaskets(0, MonthEnd) = AllBaskets
         /\ \A d \in 0..LastDay : DayReport(d) = MonthDay(0, MonthEnd, d)
<1>. DEFINE n == Len(tradeRows)
<1>1. /\ n \in Nat /\ DOMAIN tradeRows = 1..n /\ \A i \in 1..n : tradeRows[i].ts \in Nat
      /\ rpNow \in Nat /\ \A i \in 1..n : tradeRows[i].ts < rpNow
      /\ DOMAIN AllBaskets \subseteq 1..n
  <2>1. DOMAIN AllBaskets \subseteq DOMAIN tradeRows
    BY DEF AllBaskets, GroupBaskets
  <2>. QED BY <2>1, ReportTables, TableParts DEF ReportsInv, ReportNumbers, InOrder
<1>2. LastDay \in Nat /\ MonthEnd \in Nat /\ rpNow < MonthEnd
  <2>1. LastDay \in Nat /\ rpNow < MonthEnd
    BY <1>1, DayWindow DEF LastDay, MonthEnd
  <2>2. LastDay + 1 \in Nat
    BY <2>1
  <2>. QED BY <2>1, <2>2, DayWindow DEF MonthEnd
<1>3. ClosedBaskets(0, MonthEnd) = AllBaskets
  <2>1. \A i \in DOMAIN AllBaskets : tradeRows[i].ts \in 0..(MonthEnd - 1)
    BY <1>1, <1>2
  <2>2. ClosedBaskets(0, MonthEnd)
           = Those(AllBaskets, {i \in DOMAIN AllBaskets : tradeRows[i].ts \in 0..(MonthEnd - 1)})
    BY <1>2, WindowBaskets
  <2>3. {i \in DOMAIN AllBaskets : tradeRows[i].ts \in 0..(MonthEnd - 1)} = DOMAIN AllBaskets
    BY <2>1
  <2>4. AllBaskets = [i \in DOMAIN AllBaskets |-> AllBaskets[i]]
    BY DEF AllBaskets, GroupBaskets
  <2>. QED BY <2>2, <2>3, <2>4 DEF Those
<1>4. ASSUME NEW d \in 0..LastDay PROVE DayReport(d) = MonthDay(0, MonthEnd, d)
  <2>. DEFINE first == d * DaySeconds
              next == (d + 1) * DaySeconds
  <2>1. d \in Nat
    BY <1>2
  <2>2. next \in Int
    BY <2>1, DayWindow, ReportsAssumption
  <2>3. \A i \in DOMAIN AllBaskets :
           ServerDay(tradeRows[i].ts) = d <=> tradeRows[i].ts \in first..(next - 1)
    BY <1>1, <2>1, DayWindow
  <2>. HIDE DEF first, next
  <2>4. ClosedBaskets(first, next)
           = Those(AllBaskets, {i \in DOMAIN AllBaskets : ServerDay(tradeRows[i].ts) = d})
    <3>1. {i \in DOMAIN AllBaskets : tradeRows[i].ts \in first..(next - 1)}
             = {i \in DOMAIN AllBaskets : ServerDay(tradeRows[i].ts) = d}
      BY <2>3
    <3>. QED BY <2>2, <3>1, WindowBaskets
  <2>. QED BY <1>3, <2>4 DEF DayReport, MonthDay, first, next
<1>. QED BY <1>3, <1>4

\* What the baskets before a second have earned.
PlBefore(t) == [i \in 1..Len(tradeRows) |->
                   IF i \in DOMAIN AllBaskets /\ tradeRows[i].ts < t THEN AllBaskets[i].pl ELSE 0]

\* A day adds what its baskets have earned.
LEMMA DayAdds ==
  ASSUME ReportsInv, OneByOne, NEW d \in Nat
  PROVE  /\ DayReport(d).pl \in Int /\ Total(PlBefore(d * DaySeconds)) \in Int
         /\ Total(PlBefore((d + 1) * DaySeconds))
               = Total(PlBefore(d * DaySeconds)) + DayReport(d).pl
<1>. DEFINE n == Len(tradeRows)
            first == d * DaySeconds
            next == (d + 1) * DaySeconds
            of == ClosedBaskets(first, next)
            day == [i \in 1..n |-> IF i \in DOMAIN of THEN of[i].pl ELSE 0]
<1>1. /\ n \in Nat /\ \A i \in 1..n : tradeRows[i].ts \in Nat
      /\ \A i \in DOMAIN AllBaskets : AllBaskets[i].pl \in Int
  <2>1. PICK g : g = GroupsOf(DOMAIN tradeRows)
    OBVIOUS
  <2>2. \A i \in 0..n : g[i] \in GroupRecords
    BY <2>1, HistoryParts DEF ReportsInv
  <2>3. ASSUME NEW i \in DOMAIN AllBaskets PROVE AllBaskets[i].pl \in Int
    <3>1. i \in 1..n /\ AllBaskets[i].pl = g[i - 1].pl + tradeRows[i].profit
      BY <2>1, <2>3, HistoryBaskets DEF ReportsInv
    <3>2. g[i - 1].pl \in Int
      <4>1. i - 1 \in 0..n
        BY <3>1, ReportTables DEF ReportsInv
      <4>. QED BY <2>2, <4>1 DEF GroupRecords
    <3>3. tradeRows[i].profit \in Int
      BY <3>1, ReportTables, TableParts DEF ReportsInv
    <3>. QED BY <3>1, <3>2, <3>3
  <2>. QED BY <2>3, ReportTables, TableParts DEF ReportsInv
<1>2. first \in Nat /\ next \in Nat /\ first <= next
  <2>1. first \in Nat /\ next = first + DaySeconds
    BY DayWindow
  <2>2. DaySeconds \in Nat
    BY ReportsAssumption
  <2>. HIDE DEF first, next
  <2>. QED BY <2>1, <2>2
<1>3. of = [i \in {j \in DOMAIN AllBaskets : tradeRows[j].ts \in first..(next - 1)}
               |-> AllBaskets[i]]
  <2>. HIDE DEF first, next
  <2>1. of = Those(AllBaskets,
                   {j \in DOMAIN AllBaskets : tradeRows[j].ts \in first..(next - 1)})
    BY <1>2, WindowBaskets
  <2>. HIDE DEF of
  <2>. QED BY <2>1 DEF Those
<1>. HIDE DEF of, first, next
<1>4. PlBefore(first) \in [1..n -> Int] /\ PlBefore(next) \in [1..n -> Int]
  BY <1>1 DEF PlBefore
<1>5. day \in [1..n -> Int]
  BY <1>1, <1>3
<1>6. \A i \in 1..n : PlBefore(next)[i] = PlBefore(first)[i] + day[i]
  <2>. SUFFICES ASSUME NEW i \in 1..n PROVE PlBefore(next)[i] = PlBefore(first)[i] + day[i]
    OBVIOUS
  <2>1. /\ PlBefore(next)[i] = IF i \in DOMAIN AllBaskets /\ tradeRows[i].ts < next
                               THEN AllBaskets[i].pl ELSE 0
        /\ PlBefore(first)[i] = IF i \in DOMAIN AllBaskets /\ tradeRows[i].ts < first
                                THEN AllBaskets[i].pl ELSE 0
    BY DEF PlBefore
  <2>2. day[i] = IF i \in DOMAIN AllBaskets /\ tradeRows[i].ts \in first..(next - 1)
                 THEN AllBaskets[i].pl ELSE 0
    BY <1>3
  <2>3. tradeRows[i].ts \in Nat /\ (i \in DOMAIN AllBaskets => AllBaskets[i].pl \in Int)
    BY <1>1
  <2>. HIDE DEF day
  <2>4. CASE i \in DOMAIN AllBaskets
    BY <1>2, <2>1, <2>2, <2>3, <2>4
  <2>5. CASE i \notin DOMAIN AllBaskets
    BY <2>1, <2>2, <2>5
  <2>. QED BY <2>4, <2>5
<1>7. DayReport(d).pl = Total(day)
  BY DEF DayReport, Summary, TotalPl, of, first, next
<1>. HIDE DEF day, n
<1>8. Total(PlBefore(next)) = Total(PlBefore(first)) + Total(day)
  BY <1>1, <1>4, <1>5, <1>6, SumOfSums
<1>9. Total(PlBefore(first)) \in Int /\ Total(day) \in Int
  BY <1>1, <1>4, <1>5, SumUp
<1>. QED BY <1>7, <1>8, <1>9 DEF first, next

\* The month is the sum of its days.
LEMMA MonthIsItsDays ==
  ASSUME ReportsInv, OneByOne
  PROVE  Month.pl = Total([d \in 1..(LastDay + 1) |-> DayReport(d - 1).pl])
<1>. DEFINE days == [d \in 1..(LastDay + 1) |-> DayReport(d - 1).pl]
            n == Len(tradeRows)
            Past(d) == Total(PlBefore(d * DaySeconds))
<1>1. PICK last \in Nat : last = LastDay + 1
  <2>1. rpNow \in Nat
    BY DEF ReportsInv, ReportNumbers
  <2>. QED BY <2>1, DayWindow DEF LastDay
<1>2. \A d \in 1..last : /\ DayReport(d - 1).pl \in Int /\ Past(d - 1) \in Int
                         /\ Past(d) = Past(d - 1) + DayReport(d - 1).pl
  <2>. SUFFICES ASSUME NEW d \in 1..last
                PROVE  /\ DayReport(d - 1).pl \in Int /\ Past(d - 1) \in Int
                       /\ Past(d) = Past(d - 1) + DayReport(d - 1).pl
    OBVIOUS
  <2>1. d - 1 \in Nat /\ (d - 1) + 1 = d
    BY <1>1
  <2>2. /\ DayReport(d - 1).pl \in Int /\ Past(d - 1) \in Int
        /\ Past((d - 1) + 1) = Past(d - 1) + DayReport(d - 1).pl
    BY <2>1, DayAdds
  <2>. QED BY <2>1, <2>2
<1>3. days \in [1..last -> Int]
  BY <1>1, <1>2
<1>4. PICK f \in [0..last -> Int] : /\ f[0] = 0 /\ Total(days) = f[last]
                                    /\ \A k \in 1..last : f[k] = f[k - 1] + days[k]
  BY <1>1, <1>3, SumUp
<1>5. /\ n \in Nat /\ \A i \in 1..n : tradeRows[i].ts \in Nat /\ tradeRows[i].ts < rpNow
      /\ rpNow \in Nat
  BY ReportTables, TableParts DEF ReportsInv, ReportNumbers, InOrder
<1>6. Past(0) = 0
  <2>1. 0 * DaySeconds = 0
    BY ReportsAssumption
  <2>2. PlBefore(0) \in [1..n -> Int] /\ \A i \in 1..n : PlBefore(0)[i] = 0
    BY <1>5 DEF PlBefore
  <2>. QED BY <1>5, <2>1, <2>2, SumOfNothing
<1>7. Past(last) = TotalPl(AllBaskets)
  <2>1. last * DaySeconds = MonthEnd /\ MonthEnd \in Nat /\ rpNow < MonthEnd
    <3>1. rpNow < MonthEnd /\ LastDay \in Nat
      BY <1>5, DayWindow DEF LastDay, MonthEnd
    <3>2. last * DaySeconds = MonthEnd
      BY <1>1 DEF MonthEnd
    <3>3. MonthEnd \in Nat
      BY <3>2, DayWindow
    <3>. QED BY <3>1, <3>2, <3>3
  <2>2. \A i \in 1..n : tradeRows[i].ts < MonthEnd
    BY <1>5, <2>1
  <2>3. PlBefore(MonthEnd) = [i \in 1..n |-> IF i \in DOMAIN AllBaskets THEN AllBaskets[i].pl
                                                                        ELSE 0]
    BY <2>2 DEF PlBefore
  <2>. QED BY <2>1, <2>3 DEF TotalPl
<1>8. Month.pl = TotalPl(AllBaskets)
  <2>1. ClosedBaskets(0, MonthEnd) = AllBaskets
    BY MonthAndDays
  <2>. QED BY <2>1 DEF Month, MonthReport, Summary
<1>. DEFINE S == {k \in 0..last : f[k] = Past(k)}
<1>. HIDE DEF Past
<1>9. 0 \in S
  BY <1>4, <1>6
<1>10. ASSUME NEW k \in 1..last, k - 1 \in S PROVE k \in S
  <2>1. f[k] = f[k - 1] + DayReport(k - 1).pl
    BY <1>1, <1>4
  <2>. QED BY <1>2, <1>10, <2>1
<1>11. 0..last \subseteq S
  <2>. HIDE DEF S
  <2>. QED BY <1>9, <1>10, UpTo
<1>12. f[last] = Past(last)
  BY <1>11
<1>. QED BY <1>4, <1>7, <1>8, <1>12

\* What the reports add up to.
LEMMA AddsUp == ReportsInv /\ OneByOne => ReportsAddUp
<1>. SUFFICES ASSUME ReportsInv, OneByOne PROVE ReportsAddUp
  OBVIOUS
<1>1. /\ ClosedBaskets(0, MonthEnd) = AllBaskets
      /\ \A d \in 0..LastDay : DayReport(d) = MonthDay(0, MonthEnd, d)
  BY MonthAndDays
<1>2. Month.gold = TotalPl(OfSymbol(AllBaskets, "XAUUSD"))
  BY <1>1 DEF Month, MonthReport, Summary
<1>3. Month.btc = TotalPl(OfSymbol(AllBaskets, "BTCUSD"))
  BY <1>1 DEF Month, MonthReport, Summary
<1>4. "XAUUSD" \in TradeSymbols => Month.gold = Earned("XAUUSD")
  BY <1>2, EarnedIs
<1>5. "BTCUSD" \in TradeSymbols => Month.btc = Earned("BTCUSD")
  BY <1>3, EarnedIs
<1>. QED BY <1>1, <1>4, <1>5, MonthIsItsDays DEF ReportsAddUp

\* The numbers of the tables are of their types.
LEMMA ReportsTyped == ReportsInv => ReportsTypeOK
<1>. SUFFICES ASSUME ReportsInv PROVE ReportsTypeOK
  OBVIOUS
<1>1. /\ DOMAIN tradeRows = 1..Len(tradeRows) /\ Len(tradeRows) \in Nat
      /\ \A i \in 1..Len(tradeRows) :
            /\ tradeRows[i].symbol \in TradeSymbols
            /\ tradeRows[i].event \in {"open", "add", "close"}
            /\ tradeRows[i].profit \in Profits \union {0}
  BY ReportTables, TableParts DEF ReportsInv
<1>2. \A i \in DOMAIN tradeRows : tradeRows[i].ts < rpNow
  BY DEF ReportsInv, InOrder
<1>3. \A s \in TradeSymbols : legsOpen[s] \in 0..MaxRows
  <2>1. \A s \in TradeSymbols : legsOpen[s] \in Nat /\ legsOpen[s] <= Len(tradeRows)
    BY DEF ReportsInv, ReportNumbers
  <2>2. Len(tradeRows) <= MaxRows /\ MaxRows \in Nat
    BY ReportsAssumption DEF ReportsInv, ReportNumbers
  <2>. QED BY <1>1, <2>1, <2>2
<1>4. Len(after) = Len(tradeRows) /\ mixed \in BOOLEAN
  BY DEF ReportsInv, ReportNumbers
<1>. QED BY <1>1, <1>2, <1>3, <1>4 DEF ReportsTypeOK

\* While baskets do not overlap, everything said of them is true.
LEMMA ReportsTrue == ReportsInv => ReportsAreTrue
<1>. SUFFICES ASSUME ReportsInv, ~mixed PROVE TwinsAgree /\ ReportsAddUp /\ CarriedIsTrue /\ PageIsTrue
  BY DEF ReportsAreTrue
<1>1. OneByOne /\ ReportNumbers
  BY DEF ReportsInv
<1>. QED BY <1>1, TwinsHold, AddsUp, CarriesHold, PagesHold

\* Whatever the charts trade, one basket after the other: the twins agree on the legs
\* of a basket, every settled profit is in the month once and under its own symbol, the
\* month is the sum of its days, a day says alone what it says in its month, a balance
\* that was carried over a gap is the balance the account had, and a page says of a
\* basket what the history does (reports.py and the twin of trade_report.py).
THEOREM ReportsHold == ReportsSpec => [](ReportsTypeOK /\ ReportsAreTrue)
<1>1. ReportsInit => ReportsInv
  BY ReportsStart
<1>2. ReportsInv /\ [ReportsNext]_reportVars => ReportsInv'
  BY ReportsStep
<1>3. ReportsInv => ReportsTypeOK /\ ReportsAreTrue
  BY ReportsTyped, ReportsTrue
<1>. QED BY <1>1, <1>2, <1>3, PTL DEF ReportsSpec
====
