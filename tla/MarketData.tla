------------------------------ MODULE MarketData ------------------------------
(***************************************************************************)
(* The data layer of the quant service (services/quant/data/): what        *)
(* get_prices makes of whatever the provider downloads.                    *)
(*                                                                         *)
(* A download is a set of columns and a sequence of rows, as the provider  *)
(* sent them.  Days are numbered from a Monday, prices are whole, and an   *)
(* adjustment leaves them whole (a bound on the downloads, not on the      *)
(* code).  A field the provider left empty is NaN.  A data version hashes  *)
(* the content of the bars, so here it is the bars.                        *)
(***************************************************************************)
EXTENDS Integers, Sequences, FiniteSets, FiniteSetsExt, TLC

CONSTANTS
  NaN,          \* the value of an empty field
  Instruments,  \* the sector of each instrument of the universe
  Unclassified  \* the sector of an index, which has none

ASSUME FieldAssumption == NaN \notin Int

Universe == DOMAIN Instruments

Intervals == {"1d", "1wk", "1mo", "1h", "30m", "15m", "5m"}

-----------------------------------------------------------------------------
(* The provider's frame. *)

Required == {"open", "high", "low", "close", "volume"}
Fields == Required \cup {"adj"}

\* The rows of a frame, as they come: any number or none in any field.
Field == Int \cup {NaN}
Rows ==
  Seq([day: Int, open: Field, high: Field, low: Field, close: Field, adj: Field, volume: Field])

\* The elements of a sequence at some of its places, in order (SelectSeq, by the
\* places rather than a test).
Chosen(s, places) ==
  LET rank(i) == Cardinality({j \in places : j <= i})
  IN [k \in 1..Cardinality(places) |-> s[CHOOSE i \in places : rank(i) = k]]

\* sort_index, as a stable sort by day.
Sorted(rows) ==
  LET rank(i) == Cardinality({j \in DOMAIN rows : \/ rows[j].day < rows[i].day
                                                  \/ rows[j].day = rows[i].day /\ j <= i})
  IN [k \in DOMAIN rows |-> rows[CHOOSE i \in DOMAIN rows : rank(i) = k]]

\* normalize_frame: without an adjusted close the close stands for it, and the
\* rows are sorted.
Normalized(raw) ==
  Sorted([i \in DOMAIN raw.rows |->
            IF "adj" \in raw.columns THEN raw.rows[i]
            ELSE [raw.rows[i] EXCEPT !.adj = raw.rows[i].close]])

\* A response without rows, or without a required column.
Unusable(raw) == raw.rows = <<>> \/ ~(Required \subseteq raw.columns)

\* The provider may send bars slightly outside the range.
Trim(rows, from, to) ==
  Chosen(rows, {i \in DOMAIN rows : from <= rows[i].day /\ rows[i].day <= to})

\* _apply_adjustment: open, high and low scaled by adj / close.  A price that
\* cannot be scaled becomes no number, and is refused below as such.
Adjusted(row) ==
  LET scaled(price) ==
        IF NaN \in {price, row.adj, row.close} \/ row.close = 0 THEN NaN
        ELSE IF row.close > 0 THEN (price * row.adj) \div row.close
        ELSE (-(price * row.adj)) \div (-row.close)
  IN [row EXCEPT !.open = scaled(row.open), !.high = scaled(row.high),
                 !.low = scaled(row.low), !.close = row.adj]

-----------------------------------------------------------------------------
(* validate_prices. *)

Incomplete(row) == \E field \in Fields : row[field] = NaN

\* A row whose prices contradict each other or make no sense.
Incoherent(row) ==
  \/ \E field \in Fields \ {"volume"} : row[field] <= 0
  \/ row.volume < 0
  \/ row.high < row.low
  \/ row.open < row.low \/ row.open > row.high
  \/ row.close < row.low \/ row.close > row.high

\* Faulty variant: rows for the same day pass.
ViolationsOfOrder(rows) ==
  {i \in DOMAIN rows : Incomplete(rows[i]) \/ Incoherent(rows[i])}
    \cup {i \in DOMAIN rows : i > 1 /\ rows[i].day < rows[i - 1].day}

\* The rows that break a rule, of order or of value; nothing is repaired.
Violations(rows) ==
  {i \in DOMAIN rows : Incomplete(rows[i]) \/ Incoherent(rows[i])}
    \cup {i \in DOMAIN rows : \E j \in DOMAIN rows : j # i /\ rows[j].day = rows[i].day}
    \cup {i \in DOMAIN rows : i > 1 /\ rows[i].day < rows[i - 1].day}

LongGapDays == 4
SevereGapDays == 10

IsWeekday(day) == day % 7 \in 1..5

\* Weekdays strictly between the bars i and i + 1.
MissingDays(rows, i) ==
  Cardinality({day \in (rows[i].day + 1)..(rows[i + 1].day - 1) : IsWeekday(day)})

CalendarDays(rows, i) == rows[i + 1].day - rows[i].day

\* detect_gaps: the bars followed by a gap.
Gaps(rows, interval) ==
  {i \in 1..(Len(rows) - 1) :
     /\ interval \in {"1d", "1wk", "1mo"}
     /\ CalendarDays(rows, i) >= LongGapDays
     /\ MissingDays(rows, i) > 0}

\* The severity is judged by the gap that misses most days, the first of them.
Severity(rows, interval) ==
  LET gaps  == Gaps(rows, interval)
      most  == Max({MissingDays(rows, i) : i \in gaps})
      worst == Min({i \in gaps : MissingDays(rows, i) = most})
  IN IF gaps = {} THEN "clean"
     ELSE IF CalendarDays(rows, worst) >= SevereGapDays THEN "severe_gaps"
     ELSE "gaps_detected"

-----------------------------------------------------------------------------
(* get_prices. *)

\* What is refused before anything is downloaded.
RequestError(symbol, query) ==
  IF symbol \notin Universe THEN "UnknownSymbol"
  ELSE IF query.interval \notin Intervals \/ query.from > query.to THEN "InvalidRequest"
  ELSE ""

NoSeries(error) == [error |-> error, symbol |-> "", bars |-> <<>>, quality |-> ""]

\* The series, or the error, that a download ends in.
GetPrices(symbol, query, raw) ==
  LET trimmed == Trim(Normalized(raw), query.from, query.to)
      bars    == [i \in DOMAIN trimmed |-> Adjusted(trimmed[i])]
  IN IF Unusable(raw) THEN NoSeries("ProviderError")
     ELSE IF Violations(bars) # {} THEN NoSeries("DataValidationError")
     ELSE [error |-> "", symbol |-> symbol, bars |-> bars,
           quality |-> Severity(bars, query.interval)]

DataVersion(series) == <<series.symbol, series.bars>>

DaysOf(series) == {series.bars[i].day : i \in DOMAIN series.bars}

BarOn(series, day) == CHOOSE bar \in {series.bars[i] : i \in DOMAIN series.bars} : bar.day = day
=============================================================================
