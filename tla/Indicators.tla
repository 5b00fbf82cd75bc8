------------------------------ MODULE Indicators ------------------------------
(***************************************************************************)
(* The rolling statistics behind the strategies                            *)
(* (services/quant/indicators/), over a series of whole prices.            *)
(*                                                                         *)
(* Arithmetic is exact: a mean or a deviation is kept multiplied by its    *)
(* window, a variance by the square of it, and a series averaged           *)
(* exponentially by a Scale its divisions leave whole.  A value the code   *)
(* leaves as NaN until its window is full is one whose index is outside    *)
(* the domain, or below Full.                                              *)
(***************************************************************************)
EXTENDS Integers, Sequences, FiniteSetsExt

CONSTANTS
  NaN,     \* the floating-point value that compares with nothing
  Scale    \* multiple of a price at which the exponential averages are whole

ASSUME ScaleAssumption == Scale \in Nat \ {0}

\* rolling(window, min_periods=window): no partial window has a value.
Full(i, window) == i >= window

Window(i, window) == (i - window + 1)..i

RollingSum(x, i, window) == MapThenSumSet(LAMBDA j : x[j], Window(i, window))

-----------------------------------------------------------------------------
(* Bollinger bands: middle = sma, upper and lower = middle +/- k * std.    *)

\* window * (x[i] - middle), whose sign says on which side of the middle x is.
Deviation(x, i, window) == window * x[i] - RollingSum(x, i, window)

\* window^2 * the population variance.
Dispersion(x, i, window) ==
  window * RollingSum([j \in DOMAIN x |-> x[j] * x[j]], i, window)
    - RollingSum(x, i, window) * RollingSum(x, i, window)

\* x[i] is further than k standard deviations from the middle; k is in tenths.
Beyond(x, i, window, k) ==
  k # NaN /\ 100 * Deviation(x, i, window) * Deviation(x, i, window)
               > k * k * Dispersion(x, i, window)

BelowLower(x, i, window, k) ==
  Full(i, window) /\ Deviation(x, i, window) < 0 /\ Beyond(x, i, window, k)

AboveUpper(x, i, window, k) ==
  Full(i, window) /\ Deviation(x, i, window) > 0 /\ Beyond(x, i, window, k)

-----------------------------------------------------------------------------
(* MACD. *)

\* The exponential average of x[first], ..., x[last], seeded with the mean of
\* the first span of them.
Ema(x, first, last, span) ==
  LET seed == first + span - 1
      e[i \in seed..last] ==
        IF i = seed THEN RollingSum(x, i, span) \div span
        ELSE (2 * x[i] + (span - 1) * e[i - 1]) \div (span + 1)
  IN e

MacdLine(x, fast, slow) ==
  LET n      == Len(x)
      scaled == [i \in 1..n |-> Scale * x[i]]
  IN [i \in slow..n |-> Ema(scaled, 1, n, fast)[i] - Ema(scaled, 1, n, slow)[i]]

\* The MACD line less its signal line, which is seeded from the first values
\* the MACD line really has.
Histogram(x, fast, slow, signal) ==
  LET n    == Len(x)
      line == MacdLine(x, fast, slow)
      mean == Ema(line, slow, n, signal)
  IN [i \in (slow + signal - 1)..n |-> line[i] - mean[i]]

-----------------------------------------------------------------------------
(* The range of Dual Thrust, over bars with a high, a low and a close. *)

\* Faulty variant: the window ends with the bar it decides about.
PriorUnshifted(bars, i, lookback, field) ==
  {bars[j][field] : j \in Window(i, lookback)}

\* shift(1).rolling(lookback): the completed bars before bar i.
Prior(bars, i, lookback, field) == {bars[j][field] : j \in Window(i - 1, lookback)}

\* max(HH - LC, HC - LL).
ThrustRange(bars, i, lookback) ==
  Max({Max(Prior(bars, i, lookback, "high")) - Min(Prior(bars, i, lookback, "close")),
       Max(Prior(bars, i, lookback, "close")) - Min(Prior(bars, i, lookback, "low"))})
=============================================================================
