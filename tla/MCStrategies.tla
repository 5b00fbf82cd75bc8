----------------------------- MODULE MCStrategies -----------------------------
(* Values for model checking Strategies. *)
EXTENDS Strategies

Lowest == 1
Highest == 3

\* Coherent candles over three prices.
CandleValues ==
  {candle \in [open: Lowest..Highest, high: Lowest..Highest, low: Lowest..Highest,
               close: Lowest..Highest] :
     \A price \in {candle.open, candle.close} : candle.low <= price /\ price <= candle.high}

Ask(name, parameters) == [name |-> name, parameters |-> parameters]

\* Every combination of switches over short windows.
Bollinger ==
  {Ask("bollinger", [window |-> Int_(w), num_std |-> Tenths(k),
                     exit_at_middle |-> Bool(middle), allow_short |-> Bool(short)]) :
     w \in {2, 3}, k \in {5, 10}, middle, short \in BOOLEAN}

Macd ==
  {Ask("macd", [fast |-> Int_(2), slow |-> Int_(3), signal |-> Digits(2),
                allow_short |-> Bool(short), require_zero_line |-> Bool(zero)]) :
     short, zero \in BOOLEAN}

DualThrust ==
  {Ask("dual_thrust", [lookback |-> Int_(2), k_upper |-> Tenths(7), k_lower |-> Tenths(7),
                       allow_short |-> Bool(TRUE), trigger_on |-> Text(on)]) :
     on \in {"close", "intrabar"}}

PairTrading ==
  {Ask("pair_trading", [pair_symbol |-> Text("TCS"), lookback |-> Int_(10),
                        use_hedge_ratio |-> Bool(FALSE)])}

\* Requests a strategy must not come out of as they went in.
Odd ==
  {Ask("momentum", [fast |-> Int_(2)]),
   Ask("macd", [span |-> Int_(2)]),
   Ask("macd", [fast |-> Int_(3), slow |-> Int_(3)]),
   Ask("macd", [fast |-> Bool(TRUE)]),
   Ask("macd", [slow |-> Tenths(35)]),
   Ask("bollinger", [window |-> Int_(401)]),
   Ask("bollinger", [window |-> Null]),
   Ask("bollinger", [num_std |-> Int_(6)]),
   Ask("bollinger", [num_std |-> NotANumber, window |-> Tenths(20), allow_short |-> Text("false")]),
   Ask("bollinger", [num_std |-> Text("two")]),
   Ask("dual_thrust", [trigger_on |-> Text("open")]),
   Ask("pair_trading", [pair_symbol |-> Blank]),
   Ask("pair_trading", [pair_symbol |-> Int_(5)]),
   Ask("pair_trading", [pair_symbol |-> Text("INFY"), lookback |-> Int_(10)]),
   Ask("pair_trading", [entry_z |-> Tenths(5), exit_z |-> Tenths(5)])}

AllRequests == Bollinger \cup Macd \cup DualThrust \cup PairTrading \cup Odd

Lengths == [bollinger |-> 6, macd |-> 8, dual_thrust |-> 4, pair_trading |-> 13]

ZeroLineRequests ==
  {Ask("macd", [fast |-> Int_(2), slow |-> Int_(3), signal |-> Int_(2),
                allow_short |-> Bool(FALSE), require_zero_line |-> Bool(TRUE)])}
=============================================================================
