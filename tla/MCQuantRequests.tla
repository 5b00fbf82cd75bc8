---------------------------- MODULE MCQuantRequests ----------------------------
(* Values for model checking QuantRequests: one index and two shares, five      *)
(* sessions (day 1 is a Monday), and prices whose ratios are whole twelfths.    *)
EXTENDS QuantRequests

Sectors_ == "NIFTY" :> Unclassified @@ "TCS" :> "IT" @@ "INFY" :> "IT"

Flat(day, price) ==
  [day |-> day, open |-> price, high |-> price, low |-> price, close |-> price,
   adj |-> price, volume |-> 1]

\* A frame of the given closes on the given days.
Frame(days, closes) ==
  [columns |-> Fields, rows |-> [i \in DOMAIN days |-> Flat(days[i], closes[i])]]

Week == <<1, 2, 3, 4, 5>>

Full == Frame(Week, <<2, 3, 2, 4, 2>>)
Rising == Frame(Week, <<1, 2, 3, 4, 6>>)
Level == Frame(Week, <<3, 3, 3, 3, 3>>)
FourDays == Frame(<<1, 2, 4, 5>>, <<2, 4, 3, 6>>)
ThreeDays == Frame(<<2, 3, 4>>, <<2, 4, 2>>)
TwoDays == Frame(<<1, 5>>, <<3, 2>>)

\* A price no capital buys a unit at.
Dear == Frame(Week, <<20, 20, 20, 20, 20>>)

\* Rows out of order and one day after the range.
Shuffled == Frame(<<5, 6, 1, 3, 2, 4>>, <<4, 1, 2, 2, 1, 3>>)

\* A split: closes before it are twice what they compare to.
Split ==
  [Full EXCEPT !.rows = [i \in DOMAIN Week |->
     IF i < 3 THEN [day |-> i, open |-> 4, high |-> 6, low |-> 2, close |-> 6, adj |-> 3, volume |-> 1]
     ELSE Flat(i, 3)]]

\* What must be refused.
Twice == Frame(<<1, 2, 2, 3, 4, 5>>, <<2, 3, 3, 2, 4, 2>>)
Hole == [Full EXCEPT !.rows[3].close = NaN]
Crossed == [Full EXCEPT !.rows[2].high = 1]
NoVolume == [Full EXCEPT !.columns = Fields \ {"volume"}]
Unadjusted == [Rising EXCEPT !.columns = Fields \ {"adj"}]
Empty == [Full EXCEPT !.rows = <<>>]

\* Two gaps, the longer in days not the one that misses more weekdays.
Gappy == Frame(<<1, 10, 20>>, <<2, 2, 2>>)

AllDownloads ==
  "NIFTY" :> {Full, Level, FourDays, TwoDays, Hole}
    @@ "TCS" :> {Full, Rising, Level, FourDays, ThreeDays, TwoDays, Dear, Shuffled, Split, Twice,
                 Hole, Crossed, NoVolume, Unadjusted, Empty, Gappy}
    @@ "INFY" :> {Rising, FourDays, ThreeDays, TwoDays, Twice, Unadjusted}

Query(interval, from, to) == [interval |-> interval, from |-> from, to |-> to]
Daily == Query("1d", 1, 5)

Prices ==
  {[op |-> "prices", query |-> query, symbol |-> symbol] :
     symbol \in {"TCS", "SENSEX"},
     query \in {Daily, Query("1d", 1, 28), Query("1h", 1, 28), Query("1d", 2, 4),
                Query("1d", 5, 1), Query("2d", 1, 5), Query("1d", 30, 31)}}

Plain(strategy, parameters, label) ==
  [strategy |-> strategy, parameters |-> parameters, label |-> label, creates |-> "",
   leg |-> "", warmup |-> 2]

PairOn(symbol) == [Plain("pair", symbol, "") EXCEPT !.leg = symbol]

Macd == Plain("macd", "", "")
Slow == [Plain("macd", "slow=9", "Slow") EXCEPT !.warmup = 5]
Bad == [Plain("macd", "slow=x", "") EXCEPT !.creates = "InvalidParameters"]
Ghost == [Plain("momentum", "", "") EXCEPT !.creates = "UnknownStrategy"]

Comparisons ==
  {[op |-> "compare", query |-> Daily, symbol |-> "TCS", riskFree |-> 0, specs |-> specs] :
     specs \in {<<Macd>>, <<Macd, [Macd EXCEPT !.strategy = ""]>>, <<Macd, Macd>>,
                <<Macd, Slow, Macd>>, <<Bad, Ghost>>, <<Macd, Bad>>,
                <<PairOn("TCS"), Macd>>, <<PairOn("SENSEX"), Macd>>,
                <<PairOn("INFY"), PairOn("INFY")>>, <<PairOn("INFY"), Bad, PairOn("INFY")>>}}

\* Two alike, and one whose label is what numbering makes of them.
Third == [Plain("donchian", "", "macd #2") EXCEPT !.warmup = 3]
Imitating ==
  {[op |-> "compare", query |-> Daily, symbol |-> "TCS", riskFree |-> 0,
    specs |-> <<Macd, Macd, Third>>]}

Hold_(symbol, quantity) == [symbol |-> symbol, quantity |-> quantity]

Both == <<Hold_("TCS", 2), Hold_("INFY", 1)>>

Risk(holdings, riskFree) ==
  [op |-> "risk", query |-> Daily, holdings |-> holdings, benchmark |-> "NIFTY",
   riskFree |-> riskFree]

Risks ==
  {Risk(Both, 0), Risk(<<Hold_("TCS", 1)>>, 1), Risk(<<Hold_("NIFTY", 1), Hold_("TCS", 3)>>, 0),
   Risk(<<Hold_("TCS", 1), Hold_("TCS", 2)>>, 0), Risk(<<Hold_("TCS", NaN)>>, 0),
   Risk(<<Hold_("SENSEX", 1)>>, 0), Risk(<<>>, 0)}

Scenarios ==
  {[op |-> "scenario", query |-> Daily, holdings |-> holdings, benchmark |-> "NIFTY",
    riskFree |-> 0, overrides |-> overrides] :
     holdings \in {Both, <<Hold_("TCS", 1)>>},
     overrides \in {"INFY" :> 5, "TCS" :> 0, "TCS" :> 0 @@ "INFY" :> 0, "NIFTY" :> 5 @@ "TCS" :> 20,
                    "TCS" :> -1, "SENSEX" :> 5, <<>>}}

AllRequests == Prices \cup Comparisons \cup Imitating \cup Risks \cup Scenarios

Levels == <<1200, 600, 1800, 1200, 600, 1200>>

\* What an engine run may end in: a curve that ends with the position covered at
\* a loss beyond its capital among them.
Outcomes(n) ==
  {[equity |-> SubSeq(Levels, 1, n), trades |-> <<-100, 200>>, costs |-> 200],
   [equity |-> [i \in 1..n |-> 1200], trades |-> <<>>, costs |-> 0],
   [equity |-> [i \in 1..n |-> IF i < n THEN 1200 ELSE 1800], trades |-> <<600>>, costs |-> 100],
   [equity |-> [i \in 1..n |-> IF i < n THEN 600 ELSE -600], trades |-> <<-100, -200>>, costs |-> 100]}
=============================================================================
