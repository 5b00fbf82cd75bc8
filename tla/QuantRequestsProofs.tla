-------------------------- MODULE QuantRequestsProofs --------------------------
(***************************************************************************)
(* What a request is answered, for any universe, any requests and anything *)
(* the provider may send, however its answers differ from one download to  *)
(* the next: the series that are accepted, the runs of a comparison and    *)
(* what its answer says of them, and the weights and sessions of a report. *)
(***************************************************************************)
EXTENDS QuantRequests, CountingTheorems, SequenceTheorems

-----------------------------------------------------------------------------
(* Sequences taken apart: Chosen and Sorted go through all they are asked   *)
(* for, each once and in order.                                             *)

\* at[k] is the place of the k-th that is chosen.
Picks(at, s, places) ==
  /\ \A k \in 1..Cardinality(places) : at[k] \in places /\ Chosen(s, places)[k] = s[at[k]]
  /\ \A i \in places : \E k \in 1..Cardinality(places) : at[k] = i
  /\ \A k, l \in 1..Cardinality(places) : k < l => at[k] < at[l]

LEMMA ChosenIs ==
  ASSUME NEW s, NEW n \in Nat, NEW places \in SUBSET (1..n)
  PROVE  /\ IsFiniteSet(places) /\ Cardinality(places) \in Nat /\ Cardinality(places) <= n
         /\ DOMAIN Chosen(s, places) = 1..Cardinality(places)
         /\ \E at : Picks(at, s, places)
<1>. DEFINE upTo == [i \in places |-> {j \in places : j <= i}]
            rank(i) == Cardinality({j \in places : j <= i})
            at == [k \in 1..Cardinality(places) |-> CHOOSE i \in places : rank(i) = k]
<1>1. IsFiniteSet(places) /\ Cardinality(places) <= n
  <2>1. IsFiniteSet(1..n) /\ Cardinality(1..n) = n
    BY FS_Interval
  <2>. QED
    BY <2>1, FS_Subset
<1>2. Orders(upTo, places)
  <2>1. \A i \in places : i \in Int
    OBVIOUS
  <2>2. \A i, j \in places : j \in upTo[i] <=> j <= i
    OBVIOUS
  <2>3. \A i \in places : upTo[i] \subseteq places
    OBVIOUS
  <2>. HIDE DEF upTo
  <2>4. \A i, j \in places : j \in upTo[i] => upTo[j] \subseteq upTo[i]
    <3>. SUFFICES ASSUME NEW i \in places, NEW j \in places, j \in upTo[i], NEW l \in upTo[j]
                  PROVE  l \in upTo[i]
      OBVIOUS
    <3>1. l \in places
      BY <2>3
    <3>2. l <= j /\ j <= i
      BY <2>2, <3>1
    <3>3. l \in Int /\ j \in Int /\ i \in Int
      BY <2>1, <3>1
    <3>4. l <= i
      BY <3>2, <3>3
    <3>. QED
      BY <2>2, <3>1, <3>4
  <2>. QED
    BY <2>1, <2>2, <2>3, <2>4 DEF Orders
<1>3. \A i \in places : RankOf(upTo, i) = rank(i)
  BY DEF RankOf
<1>4. \A i, j \in places : i \in upTo[j] => i <= j
  OBVIOUS
<1>5. /\ DOMAIN Chosen(s, places) = 1..Cardinality(places)
      /\ \A k \in 1..Cardinality(places) : Chosen(s, places)[k] = s[at[k]]
  BY DEF Chosen
<1>. HIDE DEF upTo, rank
<1>6. \A k \in 1..Cardinality(places) : at[k] \in places /\ RankOf(upTo, at[k]) = k
  <2>. TAKE k \in 1..Cardinality(places)
  <2>0. Attained(upTo, places, k)
    BY <1>1, <1>2, Ranks
  <2>1. \E i \in places : rank(i) = k
    BY <1>3, <2>0 DEF Attained
  <2>2. at[k] \in places /\ rank(at[k]) = k
    BY <2>1
  <2>. QED
    BY <1>3, <2>2
<1>. HIDE DEF at
<1>7. /\ Cardinality(places) \in Nat
      /\ \A i \in places : \E k \in 1..Cardinality(places) : at[k] = i
      /\ \A k, l \in 1..Cardinality(places) : k < l => at[k] \in upTo[at[l]] /\ at[k] # at[l]
  BY <1>1, <1>2, <1>6, Ranked, FS_CardinalityType
<1>8. \A k, l \in 1..Cardinality(places) : k < l => at[k] < at[l]
  <2>1. \A i \in places : i \in Int
    OBVIOUS
  <2>. QED
    BY <1>4, <1>6, <1>7, <2>1
<1>. QED
  BY <1>1, <1>5, <1>6, <1>7, <1>8 DEF Picks

\* What is chosen of a sequence is a sequence of what it chose from.
LEMMA ChosenSeq ==
  ASSUME NEW s, NEW n \in Nat, NEW places \in SUBSET (1..n), NEW S,
         \A i \in places : s[i] \in S
  PROVE  Chosen(s, places) \in Seq(S) /\ Len(Chosen(s, places)) = Cardinality(places)
<1>1. /\ Cardinality(places) \in Nat
      /\ DOMAIN Chosen(s, places) = 1..Cardinality(places)
      /\ \A k \in 1..Cardinality(places) : Chosen(s, places)[k] \in S
  <2>. DEFINE c == Cardinality(places)
              t == Chosen(s, places)
  <2>1. c \in Nat /\ DOMAIN t = 1..c
    BY ChosenIs
  <2>3. PICK at : Picks(at, s, places)
    BY ChosenIs
  <2>4. \A k \in 1..c : at[k] \in places /\ t[k] = s[at[k]]
    BY <2>3 DEF Picks
  <2>. HIDE DEF c, t
  <2>2. \A k \in 1..c : t[k] \in S
    BY <2>4
  <2>. QED
    BY <2>1, <2>2 DEF c, t
<1>2. Chosen(s, places) = [k \in 1..Cardinality(places) |-> Chosen(s, places)[k]]
  BY <1>1 DEF Chosen
<1>. HIDE DEF Chosen
<1>3. Chosen(s, places) \in [1..Cardinality(places) -> S]
  BY <1>1, <1>2
<1>4. Chosen(s, places) \in Seq(S)
  BY <1>1, <1>3, SeqDef
<1>. QED
  BY <1>1, <1>4, LenProperties

\* Sorting keeps the rows that there are.
LEMMA SortedIs ==
  ASSUME NEW rows, NEW n \in Nat, DOMAIN rows = 1..n, \A i \in 1..n : rows[i].day \in Int
  PROVE  /\ DOMAIN Sorted(rows) = 1..n
         /\ \A k \in 1..n : \E i \in 1..n : Sorted(rows)[k] = rows[i]
         /\ \A i \in 1..n : \E k \in 1..n : Sorted(rows)[k] = rows[i]
<1>. DEFINE before(i) == {j \in DOMAIN rows : \/ rows[j].day < rows[i].day
                                              \/ rows[j].day = rows[i].day /\ j <= i}
            rank(i) == Cardinality(before(i))
            upTo == [i \in DOMAIN rows |-> before(i)]
            at == [k \in DOMAIN rows |-> CHOOSE i \in DOMAIN rows : rank(i) = k]
<1>1. IsFiniteSet(DOMAIN rows) /\ Cardinality(DOMAIN rows) = n
  BY FS_Interval
<1>2. Orders(upTo, DOMAIN rows)
  <2>1. \A i \in DOMAIN rows : i \in Int /\ rows[i].day \in Int
    OBVIOUS
  <2>2. \A i, j \in DOMAIN rows :
          j \in upTo[i] <=> \/ rows[j].day < rows[i].day
                            \/ rows[j].day = rows[i].day /\ j <= i
    <3>. TAKE i, j \in DOMAIN rows
    <3>1. upTo[i] = before(i)
      OBVIOUS
    <3>2. j \in before(i) <=> \/ rows[j].day < rows[i].day
                              \/ rows[j].day = rows[i].day /\ j <= i
      OBVIOUS
    <3>. HIDE DEF upTo, before
    <3>. QED
      BY <3>1, <3>2
  <2>3. \A i \in DOMAIN rows : upTo[i] \subseteq DOMAIN rows
    OBVIOUS
  <2>. HIDE DEF upTo
  <2>4. \A i, j \in DOMAIN rows : j \in upTo[i] => upTo[j] \subseteq upTo[i]
    <3>. SUFFICES ASSUME NEW i \in DOMAIN rows, NEW j \in DOMAIN rows, j \in upTo[i],
                         NEW l \in upTo[j]
                  PROVE  l \in upTo[i]
      OBVIOUS
    <3>1. l \in DOMAIN rows
      BY <2>3
    <3>. QED
      BY <2>1, <2>2, <3>1
  <2>5. \A i \in DOMAIN rows : i \in upTo[i]
    BY <2>1, <2>2
  <2>6. ASSUME NEW i \in DOMAIN rows, NEW j \in DOMAIN rows
        PROVE  /\ j \in upTo[i] \/ i \in upTo[j]
               /\ j \in upTo[i] /\ i \in upTo[j] => i = j
    <3>1. i \in Int /\ j \in Int /\ rows[i].day \in Int /\ rows[j].day \in Int
      BY <2>1
    <3>2. j \in upTo[i] <=> \/ rows[j].day < rows[i].day
                            \/ rows[j].day = rows[i].day /\ j <= i
      BY <2>2
    <3>3. i \in upTo[j] <=> \/ rows[i].day < rows[j].day
                            \/ rows[i].day = rows[j].day /\ i <= j
      BY <2>2
    <3>. QED
      BY <3>1, <3>2, <3>3
  <2>. QED
    BY <2>3, <2>4, <2>5, <2>6 DEF Orders
<1>3. \A i \in DOMAIN rows : RankOf(upTo, i) = rank(i)
  BY DEF RankOf
<1>4. /\ DOMAIN Sorted(rows) = DOMAIN rows
      /\ \A k \in DOMAIN rows : Sorted(rows)[k] = rows[at[k]]
  BY DEF Sorted
<1>. HIDE DEF upTo, rank
<1>5. \A k \in 1..n : at[k] \in DOMAIN rows /\ RankOf(upTo, at[k]) = k
  <2>. TAKE k \in 1..n
  <2>0. Attained(upTo, DOMAIN rows, k)
    BY <1>1, <1>2, Ranks
  <2>1. \E i \in DOMAIN rows : rank(i) = k
    BY <1>3, <2>0 DEF Attained
  <2>2. at[k] \in DOMAIN rows /\ rank(at[k]) = k
    BY <2>1
  <2>. QED
    BY <1>3, <2>2
<1>. HIDE DEF at
<1>6. \A i \in DOMAIN rows : \E k \in 1..n : at[k] = i
  <2>. DEFINE D == DOMAIN rows
  <2>1. /\ IsFiniteSet(D) /\ Orders(upTo, D)
        /\ \A k \in 1..Cardinality(D) : at[k] \in D /\ RankOf(upTo, at[k]) = k
    BY <1>1, <1>2, <1>5
  <2>2. \A i \in D : \E k \in 1..Cardinality(D) : at[k] = i
    <3>. HIDE DEF D
    <3>. QED
      BY <2>1, Ranked
  <2>. QED
    BY <1>1, <2>2
<1>7. ASSUME NEW k \in 1..n PROVE \E i \in 1..n : Sorted(rows)[k] = rows[i]
  BY <1>4, <1>5
<1>8. ASSUME NEW i \in 1..n PROVE \E k \in 1..n : Sorted(rows)[k] = rows[i]
  <2>1. PICK k \in 1..n : at[k] = i
    BY <1>6
  <2>. QED
    BY <1>4, <2>1
<1>. QED
  BY <1>4, <1>7, <1>8

-----------------------------------------------------------------------------
(* A download.  Whatever the provider sends has typed rows, and what is      *)
(* accepted of it has passed every rule of validate_prices.                 *)

Row == [day: Int, open: Field, high: Field, low: Field, close: Field, adj: Field, volume: Field]

\* A bar a trade could have been made at.
Tradable(bar) ==
  /\ bar.day \in Int /\ bar.close \in Int /\ bar.low \in Int
  /\ 0 < bar.low /\ 0 <= bar.volume
  /\ bar.low <= bar.open /\ bar.open <= bar.high
  /\ bar.low <= bar.close /\ bar.close <= bar.high

SoundBars(bars, limit) ==
  \E n \in Nat :
    /\ n <= limit /\ DOMAIN bars = 1..n /\ Len(bars) = n
    /\ \A i \in 1..n : Tradable(bars[i])
    /\ \A i \in 1..(n - 1) : bars[i].day < bars[i + 1].day

\* What a row says of its day, and what all do.
QuoteAt(rows, i) == <<rows[i].day, rows[i].adj>>

QuotesIn(rows) == {QuoteAt(rows, i) : i \in DOMAIN rows}

\* The rows as downloaded, with the close for a missing adjusted close.
Sent(raw) ==
  {<<raw.rows[i].day, IF "adj" \in raw.columns THEN raw.rows[i].adj ELSE raw.rows[i].close>> :
     i \in DOMAIN raw.rows}

QuotesOf(series) == {<<series.bars[i].day, series.bars[i].close>> : i \in DOMAIN series.bars}

\* The first n rows are all there are.
Typed(rows, n) == DOMAIN rows = 1..n /\ \A i \in 1..n : rows[i] \in Row

\* Those of a range of days, its ends included.
Within(quotes, from, to) == {quote \in quotes : quote[1] \in from..to}

LEMMA AdjustedTyped ==
  ASSUME NEW row \in Row
  PROVE  /\ Adjusted(row).day = row.day /\ Adjusted(row).close = row.adj
         /\ Adjusted(row) \in Row
<1>. DEFINE scaled(price) ==
              IF NaN \in {price, row.adj, row.close} \/ row.close = 0 THEN NaN
              ELSE IF row.close > 0 THEN (price * row.adj) \div row.close
              ELSE (-(price * row.adj)) \div (-row.close)
<1>1. ASSUME NEW price \in Field PROVE scaled(price) \in Field
  <2>1. CASE NaN \in {price, row.adj, row.close} \/ row.close = 0
    BY <2>1 DEF Field
  <2>2. CASE ~(NaN \in {price, row.adj, row.close} \/ row.close = 0)
    <3>1. price \in Int /\ row.adj \in Int /\ row.close \in Int /\ row.close # 0
      BY <2>2 DEF Field, Row
    <3>. DEFINE x == price * row.adj
                c == row.close
    <3>2. x \in Int /\ -x \in Int /\ c \in Int /\ c # 0
      BY <3>1
    <3>3. scaled(price) = IF c > 0 THEN x \div c ELSE (-x) \div (-c)
      BY <2>2
    <3>. HIDE DEF x, c, scaled
    <3>4. (IF c > 0 THEN x \div c ELSE (-x) \div (-c)) \in Int
      BY <3>2
    <3>. QED
      BY <3>3, <3>4 DEF Field
  <2>. QED
    BY <2>1, <2>2
<1>2. Adjusted(row) = [row EXCEPT !.open = scaled(row.open), !.high = scaled(row.high),
                                  !.low = scaled(row.low), !.close = row.adj]
  BY DEF Adjusted
<1>. HIDE DEF scaled
<1>. QED
  BY <1>1, <1>2 DEF Row

\* Rows in another order say the same.
LEMMA SameQuotes ==
  ASSUME NEW D, NEW rows, NEW others, DOMAIN rows = D, DOMAIN others = D,
         \A i \in D : \E k \in D : QuoteAt(rows, i) = QuoteAt(others, k),
         \A k \in D : \E i \in D : QuoteAt(rows, i) = QuoteAt(others, k)
  PROVE  QuotesIn(rows) = QuotesIn(others)
BY DEF QuotesIn

\* The rows are kept, whatever order they came in.
LEMMA NormalizedKeeps ==
  ASSUME NEW raw, raw.rows \in Rows
  PROVE  /\ Len(raw.rows) \in Nat
         /\ Typed(Normalized(raw), Len(raw.rows))
         /\ QuotesIn(Normalized(raw)) = Sent(raw)
<1>. DEFINE n == Len(raw.rows)
            filled == [i \in DOMAIN raw.rows |->
                         IF "adj" \in raw.columns THEN raw.rows[i]
                         ELSE [raw.rows[i] EXCEPT !.adj = raw.rows[i].close]]
<1>1. raw.rows \in Seq(Row)
  BY DEF Rows, Row
<1>2. n \in Nat /\ DOMAIN raw.rows = 1..n /\ \A i \in 1..n : raw.rows[i] \in Row
  BY <1>1, LenProperties
<1>3. \A i \in 1..n : filled[i] \in Row /\ filled[i].day = raw.rows[i].day
  <2>1. ASSUME NEW row \in Row
        PROVE  [row EXCEPT !.adj = row.close] \in Row /\ [row EXCEPT !.adj = row.close].day = row.day
    BY DEF Row
  <2>. QED
    BY <1>2, <2>1
<1>4. DOMAIN filled = 1..n /\ Normalized(raw) = Sorted(filled)
  BY <1>2 DEF Normalized
<1>5. QuotesIn(filled) = Sent(raw)
  <2>1. \A i \in 1..n :
          QuoteAt(filled, i)
            = <<raw.rows[i].day,
                IF "adj" \in raw.columns THEN raw.rows[i].adj ELSE raw.rows[i].close>>
    <3>1. ASSUME NEW row \in Row
          PROVE  /\ [row EXCEPT !.adj = row.close].day = row.day
                 /\ [row EXCEPT !.adj = row.close].adj = row.close
      BY DEF Row
    <3>. QED
      BY <1>2, <3>1 DEF QuoteAt
  <2>2. DOMAIN filled = 1..n
    BY <1>2
  <2>. HIDE DEF filled, n
  <2>. QED
    BY <1>2, <2>1, <2>2 DEF QuotesIn, Sent, n
<1>. HIDE DEF filled, n
<1>6. \A i \in 1..n : filled[i].day \in Int
  BY <1>3 DEF Row
<1>7. /\ DOMAIN Sorted(filled) = 1..n
      /\ \A k \in 1..n : \E i \in 1..n : Sorted(filled)[k] = filled[i]
      /\ \A i \in 1..n : \E k \in 1..n : Sorted(filled)[k] = filled[i]
  BY <1>2, <1>4, <1>6, SortedIs
<1>8. QuotesIn(Normalized(raw)) = Sent(raw)
  <2>. DEFINE D == 1..n
  <2>1. /\ DOMAIN Normalized(raw) = D /\ DOMAIN filled = D
        /\ \A i \in D : \E k \in D : Normalized(raw)[i] = filled[k]
        /\ \A k \in D : \E i \in D : Normalized(raw)[i] = filled[k]
    BY <1>2, <1>4, <1>7
  <2>. HIDE DEF D
  <2>3. \A i, k \in D : Normalized(raw)[i] = filled[k] => QuoteAt(Normalized(raw), i) = QuoteAt(filled, k)
    BY DEF QuoteAt
  <2>4. ASSUME NEW i \in D PROVE \E k \in D : QuoteAt(Normalized(raw), i) = QuoteAt(filled, k)
    <3>1. PICK k \in D : Normalized(raw)[i] = filled[k]
      BY <2>1
    <3>. QED
      BY <2>3, <3>1
  <2>5. ASSUME NEW k \in D PROVE \E i \in D : QuoteAt(Normalized(raw), i) = QuoteAt(filled, k)
    <3>1. PICK i \in D : Normalized(raw)[i] = filled[k]
      BY <2>1
    <3>. QED
      BY <2>3, <3>1
  <2>. QED
    BY <1>5, <2>1, <2>4, <2>5, SameQuotes
<1>9. \A i \in 1..n : Normalized(raw)[i] \in Row
  BY <1>3, <1>4, <1>7
<1>. QED
  BY <1>2, <1>4, <1>7, <1>8, <1>9 DEF n, Typed

\* Those in the range are kept.
LEMMA TrimKeeps ==
  ASSUME NEW rows, NEW n \in Nat, Typed(rows, n), NEW from \in Int, NEW to \in Int
  PROVE  /\ Trim(rows, from, to) \in Seq(Row) /\ Len(Trim(rows, from, to)) <= n
         /\ QuotesIn(Trim(rows, from, to)) = Within(QuotesIn(rows), from, to)
<1>. DEFINE places == {i \in DOMAIN rows : from <= rows[i].day /\ rows[i].day <= to}
            t == Chosen(rows, places)
            c == Cardinality(places)
<1>1. places \in SUBSET (1..n) /\ DOMAIN rows = 1..n /\ \A i \in places : rows[i] \in Row
  BY DEF Typed
<1>2. \A i \in 1..n : i \in places <=> rows[i].day \in from..to
  BY DEF Row, Typed
<1>3. Trim(rows, from, to) = t
  BY DEF Trim
<1>. HIDE DEF places
<1>4. c <= n /\ DOMAIN t = 1..c
  BY <1>1, ChosenIs
<1>5. PICK at : Picks(at, rows, places)
  BY <1>1, ChosenIs
<1>6. t \in Seq(Row) /\ Len(t) = c
  BY <1>1, ChosenSeq
<1>7. QuotesIn(t) = Within(QuotesIn(rows), from, to)
  <2>1. /\ \A k \in 1..c : at[k] \in places /\ t[k] = rows[at[k]]
        /\ \A i \in places : \E k \in 1..c : at[k] = i
    BY <1>5 DEF Picks
  <2>. HIDE DEF t, c
  <2>2. QuotesIn(t) = {QuoteAt(rows, i) : i \in places}
    BY <1>4, <2>1 DEF QuotesIn, QuoteAt
  <2>3. \A i \in 1..n : QuoteAt(rows, i)[1] = rows[i].day
    BY DEF QuoteAt
  <2>. QED
    BY <1>1, <1>2, <2>2, <2>3 DEF QuotesIn, Within
<1>. QED
  BY <1>3, <1>4, <1>6, <1>7

\* A function on the first n numbers is a sequence.
LEMMA Listed ==
  ASSUME NEW n \in Nat, NEW S, NEW f \in [1..n -> S]
  PROVE  f \in Seq(S) /\ Len(f) = n
<1>1. f \in Seq(S)
  BY SeqDef
<1>2. DOMAIN f = 1..n /\ DOMAIN f = 1..Len(f) /\ Len(f) \in Nat
  BY <1>1, LenProperties
<1>. QED
  BY <1>1, <1>2

LEMMA TradableRow ==
  ASSUME NEW b \in Row, ~Incomplete(b), ~Incoherent(b)
  PROVE  Tradable(b)
<1>1. b.open # NaN /\ b.high # NaN /\ b.low # NaN /\ b.close # NaN /\ b.volume # NaN
  BY DEF Incomplete, Fields, Required
<1>2. b.open \in Int /\ b.high \in Int /\ b.low \in Int /\ b.close \in Int /\ b.volume \in Int
      /\ b.day \in Int
  BY <1>1 DEF Row, Field
<1>3. ~(b.low <= 0) /\ ~(b.volume < 0) /\ ~(b.open < b.low) /\ ~(b.open > b.high)
      /\ ~(b.close < b.low) /\ ~(b.close > b.high)
  BY DEF Incoherent, Fields, Required
<1>. QED
  BY <1>2, <1>3 DEF Tradable

\* Bars that break no rule.
LEMMA Unviolated ==
  ASSUME NEW n \in Nat, NEW bars \in [1..n -> Row], Violations(bars) = {},
         NEW limit \in Nat, n <= limit
  PROVE  SoundBars(bars, limit)
<1>1. DOMAIN bars = 1..n /\ Len(bars) = n
  BY Listed
<1>2. \A i \in 1..n : ~Incomplete(bars[i]) /\ ~Incoherent(bars[i])
  BY <1>1 DEF Violations
<1>3. \A i \in 1..n : Tradable(bars[i])
  BY <1>2, TradableRow
<1>4. \A i \in 1..n : i > 1 => ~(bars[i].day < bars[i - 1].day)
  BY <1>1 DEF Violations
<1>5. \A i, j \in 1..n : i # j => bars[i].day # bars[j].day
  BY <1>1 DEF Violations
<1>6. ASSUME NEW i \in 1..(n - 1) PROVE bars[i].day < bars[i + 1].day
  <2>1. i \in 1..n /\ i + 1 \in 1..n /\ i + 1 > 1 /\ i + 1 - 1 = i /\ i # i + 1
    OBVIOUS
  <2>2. bars[i].day # bars[i + 1].day
    BY <1>5, <2>1
  <2>3. ~(bars[i + 1].day < bars[i].day)
    BY <1>4, <2>1
  <2>4. bars[i].day \in Int /\ bars[i + 1].day \in Int
    BY <1>3, <2>1 DEF Tradable
  <2>. QED
    BY <2>2, <2>3, <2>4
<1>. QED
  BY <1>1, <1>3, <1>6 DEF SoundBars

\* What get_prices accepts.
LEMMA Accepted ==
  ASSUME NEW symbol, NEW query, query.from \in Int, query.to \in Int,
         NEW raw, raw.rows \in Rows, GetPrices(symbol, query, raw).error = ""
  PROVE  LET series == GetPrices(symbol, query, raw)
         IN /\ SoundBars(series.bars, Len(raw.rows))
            /\ QuotesOf(series) = Within(Sent(raw), query.from, query.to)
<1>. DEFINE series == GetPrices(symbol, query, raw)
            normal == Normalized(raw)
            trimmed == Trim(normal, query.from, query.to)
            bars == [i \in DOMAIN trimmed |-> Adjusted(trimmed[i])]
            m == Len(raw.rows)
            n == Len(trimmed)
<1>1. Violations(bars) = {} /\ series.bars = bars
  BY DEF GetPrices, NoSeries
<1>2. m \in Nat /\ Typed(normal, m) /\ QuotesIn(normal) = Sent(raw)
  BY NormalizedKeeps
<1>3. /\ trimmed \in Seq(Row) /\ n <= m
      /\ QuotesIn(trimmed) = Within(Sent(raw), query.from, query.to)
  <2>. DEFINE from == query.from
              to == query.to
  <2>0. from \in Int /\ to \in Int
    OBVIOUS
  <2>. HIDE DEF normal, m, from, to
  <2>1. /\ Trim(normal, from, to) \in Seq(Row)
        /\ Len(Trim(normal, from, to)) <= m
        /\ QuotesIn(Trim(normal, from, to)) = Within(QuotesIn(normal), from, to)
    BY <1>2, <2>0, TrimKeeps
  <2>. QED
    BY <1>2, <2>1 DEF from, to
<1>. HIDE DEF m, normal, trimmed
<1>4. /\ n \in Nat /\ DOMAIN trimmed = 1..n
      /\ \A i \in 1..n : trimmed[i] \in Row
  BY <1>3, LenProperties
<1>. HIDE DEF n
<1>5. \A i \in 1..n : /\ Adjusted(trimmed[i]) \in Row
                      /\ Adjusted(trimmed[i]).day = trimmed[i].day
                      /\ Adjusted(trimmed[i]).close = trimmed[i].adj
  BY <1>4, AdjustedTyped
<1>6. /\ bars \in [1..n -> Row]
      /\ \A i \in 1..n : bars[i].day = trimmed[i].day /\ bars[i].close = trimmed[i].adj
  BY <1>4, <1>5
<1>. HIDE DEF bars
<1>7. SoundBars(bars, m)
  BY <1>1, <1>2, <1>3, <1>4, <1>6, Unviolated
<1>8. QuotesOf(series) = QuotesIn(trimmed)
  <2>1. DOMAIN bars = 1..n
    BY <1>6
  <2>. QED
    BY <1>1, <1>4, <1>6, <2>1 DEF QuotesOf, QuotesIn, QuoteAt
<1>. QED
  BY <1>1, <1>3, <1>7, <1>8 DEF m

-----------------------------------------------------------------------------
(* The inductive invariant: what is kept of a symbol is a download of that   *)
(* symbol that was accepted, every run so far was over what is kept and      *)
(* ended in a curve an engine may give, and an answer is given when all it   *)
(* is made of is there.                                                      *)

Downloaded(symbol, series, asked) ==
  /\ symbol \in Universe
  /\ series.error = ""
  /\ \E raw \in Downloads[symbol] : series = GetPrices(symbol, asked.query, raw)

FramesInv == \A symbol \in DOMAIN frames : Downloaded(symbol, frames[symbol], request)

LegInv == leg = NoLeg \/ \E symbol \in DOMAIN frames : leg = frames[symbol]

\* The attempt, if it is a run, was over what is kept for the request.
OverKept(attempt, asked, kept) ==
  attempt.error = "" =>
    /\ asked.symbol \in DOMAIN kept
    /\ attempt.bars = DataVersion(kept[asked.symbol])
    /\ \/ attempt.leg = DataVersion(NoLeg)
       \/ \E symbol \in DOMAIN kept : attempt.leg = DataVersion(kept[symbol])

\* What is parsed of a strategy (see ParsedAssumption).
SpecType ==
  [strategy: STRING, parameters: STRING, label: STRING, creates: STRING, leg: STRING,
   warmup: Nat \ {0, 1}]

\* What a run ends in (see OutcomeAssumption).
Sane(outcome) ==
  /\ outcome.equity \in Seq(Int)
  /\ \A i \in DOMAIN outcome.equity :
       i = 1 \/ i < Len(outcome.equity) => outcome.equity[i] > 0
  /\ outcome.trades \in Seq(Int)
  /\ outcome.costs \in Int
  /\ (outcome.costs * One) % InitialCash = 0
  /\ \A i \in DOMAIN outcome.equity : (outcome.equity[i] * One) % InitialCash = 0

\* The i-th attempt is the i-th strategy's.
Tried(attempt, asked, kept, i) ==
  /\ attempt.label = Label(asked.specs, i)
  /\ OverKept(attempt, asked, kept)
  /\ attempt.error = "" => Sane(attempt.outcome)

AttemptsInv ==
  /\ \E S : attempts \in Seq(S)
  /\ attempts # <<>> => request.op = "compare" /\ Len(attempts) <= Len(request.specs)
  /\ \A i \in 1..Len(attempts) : Tried(attempts[i], request, frames, i)

AnswerInv ==
  /\ answer \in Codes \cup {Pending, Complete}
  /\ request # NoRequest /\ answer \in {Pending, Complete} => Refusal(request) = ""
  /\ request # NoRequest /\ answer = Complete =>
       /\ Missing = {}
       /\ request.op = "compare" => Len(attempts) >= Len(request.specs)

KeptInv ==
  /\ request \in Requests \cup {NoRequest}
  /\ request = NoRequest => attempts = <<>> /\ DOMAIN frames = {} /\ answer = Pending
  /\ FramesInv
  /\ LegInv
  /\ AttemptsInv
  /\ AnswerInv

-----------------------------------------------------------------------------
\* A download that is accepted is a series of the symbol that was asked for.
LEMMA LoadedSymbol ==
  ASSUME request \in Requests, NEW symbol,
         NEW series \in Loaded(symbol), series.error = ""
  PROVE  Downloaded(symbol, series, request)
<1>. USE RequestAssumption
<1>1. ASSUME NEW error PROVE NoSeries(error).error = error
  BY DEF NoSeries
<1>2. RequestError(symbol, request.query) = ""
  BY <1>1 DEF Loaded
<1>3. symbol \in Universe /\ request.query \in Queries
  BY <1>2 DEF RequestError, Queries
<1>4. series \in Loads[request.query][symbol]
  BY <1>1, <1>2 DEF Loaded
<1>5. Loads[request.query][symbol]
        = {GetPrices(symbol, request.query, raw) : raw \in Downloads[symbol]}
  BY <1>3 DEF Loads
<1>. QED
  BY <1>3, <1>4, <1>5 DEF Downloaded

\* It is a series of that symbol, and sound.
LEMMA SoundDownload ==
  ASSUME NEW asked \in Requests, NEW symbol, NEW series, Downloaded(symbol, series, asked)
  PROVE  /\ series.symbol = symbol
         /\ \E raw \in Downloads[symbol] :
              /\ SoundBars(series.bars, Len(raw.rows))
              /\ QuotesOf(series) = Within(Sent(raw), asked.query.from, asked.query.to)
<1>1. PICK raw \in Downloads[symbol] : series = GetPrices(symbol, asked.query, raw)
  BY DEF Downloaded
<1>2. GetPrices(symbol, asked.query, raw).error = "" /\ raw.rows \in Rows
  BY <1>1, FrameAssumption DEF Downloaded
<1>3. asked.query.from \in Int /\ asked.query.to \in Int
  BY ParsedAssumption
<1>4. /\ SoundBars(series.bars, Len(raw.rows))
      /\ QuotesOf(series) = Within(Sent(raw), asked.query.from, asked.query.to)
  BY <1>1, <1>2, <1>3, Accepted
<1>5. series.symbol = symbol
  <2>1. \A error : error # "" => NoSeries(error).error # ""
    BY DEF NoSeries
  <2>. QED
    BY <1>1, <1>2, <2>1 DEF GetPrices
<1>. QED
  BY <1>4, <1>5

\* Keeping one more series changes none of those already kept, so the series
\* that came are still of their symbols and every run so far is still over them.
LEMMA KeepOneMore ==
  ASSUME FramesInv, request \in Requests, request' = request,
         NEW symbol, symbol \notin DOMAIN frames,
         NEW series \in Loaded(symbol), series.error = "",
         frames' = Keeping(symbol, series)
  PROVE  /\ FramesInv'
         /\ DOMAIN frames' = DOMAIN frames \cup {symbol}
         /\ \A other \in DOMAIN frames : other \in DOMAIN frames' /\ frames'[other] = frames[other]
         /\ symbol \in DOMAIN frames' /\ frames'[symbol] = series
         /\ \A attempt, i :
              Tried(attempt, request, frames, i) => Tried(attempt, request, frames', i)
<1>1. /\ DOMAIN frames' = DOMAIN frames \cup {symbol}
      /\ frames'[symbol] = series
      /\ \A other \in DOMAIN frames : frames'[other] = frames[other]
  BY DEF Keeping
<1>2. Downloaded(symbol, series, request)
  BY LoadedSymbol
<1>3. FramesInv'
  BY <1>1, <1>2 DEF FramesInv
<1>4. ASSUME NEW attempt, OverKept(attempt, request, frames)
      PROVE  OverKept(attempt, request, frames')
  BY <1>1, <1>4 DEF OverKept
<1>5. \A attempt, i : Tried(attempt, request, frames, i) => Tried(attempt, request, frames', i)
  BY <1>4 DEF Tried
<1>. QED
  BY <1>1, <1>3, <1>5

\* One more attempt, over what is kept.
LEMMA OneMoreAttempt ==
  ASSUME AttemptsInv, NEW attempt, attempts' = Append(attempts, attempt),
         UNCHANGED <<request, frames>>, request.op = "compare",
         request.specs \in Seq(SpecType), Len(attempts) < Len(request.specs),
         Tried(attempt, request, frames, Len(attempts) + 1)
  PROVE  AttemptsInv'
<1>1. PICK S : attempts \in Seq(S)
  BY DEF AttemptsInv
<1>. DEFINE T == S \cup {attempt}
<1>2. attempts \in Seq(T) /\ attempt \in T
  BY <1>1, SeqMonotonic
<1>. HIDE DEF T
<1>3. /\ attempts' \in Seq(T) /\ Len(attempts') = Len(attempts) + 1
      /\ \A i \in 1..Len(attempts) : attempts'[i] = attempts[i]
      /\ attempts'[Len(attempts) + 1] = attempt
      /\ Len(attempts) \in Nat
  BY <1>2, AppendProperties, LenProperties
<1>4. \A i \in 1..Len(attempts') : Tried(attempts'[i], request, frames, i)
  BY <1>3 DEF AttemptsInv
<1>5. Len(attempts') <= Len(request.specs)
  <2>1. Len(request.specs) \in Nat
    BY LenProperties
  <2>. QED
    BY <1>3, <2>1
<1>. QED
  BY <1>3, <1>4, <1>5 DEF AttemptsInv

-----------------------------------------------------------------------------
\* Nothing is in an empty sequence.
LEMMA Nothing == <<>> \in Seq({}) /\ Len(<<>>) = 0 /\ DOMAIN <<>> = {}
<1>1. <<>> \in Seq({})
  BY EmptySeq
<1>2. Len(<<>>) = 0
  OBVIOUS
<1>3. DOMAIN <<>> = 1..Len(<<>>)
  BY <1>1, LenProperties
<1>4. 1..0 = {}
  OBVIOUS
<1>. QED
  BY <1>1, <1>2, <1>3, <1>4

LEMMA Single == ASSUME NEW s, NEW x, s = <<x>> PROVE 1 \in DOMAIN s /\ s[1] = x
<1>1. s \in Seq({x}) /\ Len(s) = 1 /\ s[1] = x
  OBVIOUS
<1>2. DOMAIN s = 1..1
  BY <1>1, LenProperties
<1>. QED
  BY <1>1, <1>2

LEMMA NoAttempts == ASSUME attempts' = <<>> PROVE AttemptsInv'
<1>1. \E S : attempts' \in Seq(S)
  BY Nothing
<1>2. 1..Len(attempts') = {}
  BY Nothing
<1>. QED
  BY <1>1, <1>2 DEF AttemptsInv

\* One more at the end leaves the others where they are.
LEMMA Longer ==
  ASSUME NEW S, NEW s \in Seq(S), NEW x
  PROVE  \A i \in DOMAIN s : i \in DOMAIN Append(s, x) /\ Append(s, x)[i] = s[i]
<1>. DEFINE T == S \cup {x}
<1>1. s \in Seq(T) /\ x \in T
  BY SeqMonotonic
<1>. HIDE DEF T
<1>2. /\ Append(s, x) \in Seq(T) /\ Len(Append(s, x)) = Len(s) + 1
      /\ \A i \in 1..Len(s) : Append(s, x)[i] = s[i]
  BY <1>1, AppendProperties
<1>3. DOMAIN Append(s, x) = 1..(Len(s) + 1) /\ DOMAIN s = 1..Len(s) /\ Len(s) \in Nat
  BY <1>2, LenProperties
<1>. QED
  BY <1>2, <1>3

Items(s) == {s[i] : i \in DOMAIN s}

\* What is in one sequence after another is in either.
LEMMA RangeOfConcat ==
  ASSUME NEW S, NEW s \in Seq(S), NEW t \in Seq(S)
  PROVE  /\ s \o t \in Seq(S)
         /\ Items(s \o t) = Items(s) \cup Items(t)
<1>. DEFINE m == Len(s)
            n == Len(t)
            both == s \o t
<1>1. /\ both \in Seq(S) /\ Len(both) = m + n
      /\ \A i \in 1..(m + n) : both[i] = IF i <= m THEN s[i] ELSE t[i - m]
  BY ConcatProperties
<1>2. m \in Nat /\ n \in Nat /\ DOMAIN s = 1..m /\ DOMAIN t = 1..n
  BY LenProperties
<1>3. DOMAIN both = 1..(m + n)
  BY <1>1, LenProperties
<1>. HIDE DEF m, n, both
<1>4. \A i \in 1..m : i \in 1..(m + n) /\ both[i] = s[i]
  BY <1>1, <1>2
<1>5. \A i \in 1..n : i + m \in 1..(m + n) /\ both[i + m] = t[i]
  <2>. TAKE i \in 1..n
  <2>. DEFINE k == i + m
  <2>1. k \in 1..(m + n) /\ ~(k <= m) /\ k - m = i
    BY <1>2
  <2>. HIDE DEF k
  <2>2. both[k] = t[k - m]
    BY <1>1, <2>1
  <2>. QED
    BY <2>1, <2>2 DEF k
<1>6. ASSUME NEW i \in 1..(m + n)
      PROVE  (\E j \in 1..m : both[i] = s[j]) \/ (\E j \in 1..n : both[i] = t[j])
  <2>1. i <= m => i \in 1..m
    BY <1>2
  <2>2. ~(i <= m) => i - m \in 1..n
    BY <1>2
  <2>. QED
    BY <1>1, <2>1, <2>2
<1>7. Items(both) = Items(s) \cup Items(t)
  <2>. DEFINE B == 1..(m + n)
              M == 1..m
              N == 1..n
  <2>1. /\ DOMAIN both = B /\ DOMAIN s = M /\ DOMAIN t = N
        /\ \A i \in M : \E k \in B : both[k] = s[i]
        /\ \A i \in N : \E k \in B : both[k] = t[i]
        /\ \A k \in B : (\E j \in M : both[k] = s[j]) \/ (\E j \in N : both[k] = t[j])
    BY <1>2, <1>3, <1>4, <1>5, <1>6
  <2>. HIDE DEF B, M, N
  <2>. QED
    BY <2>1 DEF Items
<1>. QED
  BY <1>1, <1>7 DEF both

LEMMA Orderings ==
  /\ \A a, b \in Nat : a < b => a + 1 \in 1..b
  /\ \A a, b \in Nat : ~(a < b) => a >= b
  /\ \A a, b, c \in Nat, d \in Nat \ {0, 1} : ~(a < d) /\ a <= b /\ b <= c => c >= 2
  /\ \A a \in Int : (~(a <= 0) => a > 0) /\ (~(a < 0) => a >= 0)
  /\ \A a, b \in Nat : ~(a - 1 < b) => a - 1 >= b
  /\ \A b \in Nat \ {0} : ~(0 - 1 >= b)
  /\ \A a \in Nat : a = a - 1 + 1
  /\ \A a \in 0..10 : a \in Nat
  /\ \A a, b, c \in Nat : ~(10 * a < c * b) => 10 * a >= c * b
  /\ \A a, b \in Nat : a >= 2 /\ a <= b => a \in 2..b
  /\ \A a, b \in Nat : ~(a < 2) /\ b >= a => b # 0
  /\ \A a, b \in Nat : b >= a /\ b <= a => b = a
OBVIOUS

LEMMA FirstNumbers == ASSUME NEW n \in Nat PROVE IsFiniteSet(1..n) /\ Cardinality(1..n) = n
BY FS_Interval

\* A run is over the kept series of the instrument, over two sessions of it at
\* least, and so ends in a sane outcome.
LEMMA SaneRun ==
  ASSUME request \in Requests, request.op = "compare", FramesInv,
         request.symbol \in DOMAIN frames, Len(attempts) \in Nat,
         Len(attempts) < Len(request.specs), SpecError = "",
         NEW outcome \in Simulate(Len(Bars.bars))
  PROVE  Sane(outcome)
<1>. DEFINE bars == Bars.bars
            n == Len(bars)
            symbol == request.symbol
<1>1. symbol \in Universe /\ Downloaded(symbol, Bars, request)
  BY DEF FramesInv, Downloaded, Bars
<1>2. PICK raw \in Downloads[symbol] : SoundBars(bars, Len(raw.rows))
  BY <1>1, SoundDownload
<1>. HIDE DEF bars
<1>3. n \in Nat /\ DOMAIN bars = 1..n /\ n <= Len(raw.rows)
  BY <1>2 DEF SoundBars
<1>4. n >= 2
  <2>1. Spec_.warmup \in Nat \ {0, 1}
    <3>1. request.specs \in Seq(SpecType)
      BY ParsedAssumption DEF SpecType
    <3>2. Len(request.specs) \in Nat
      BY <3>1, LenProperties
    <3>3. Len(attempts) + 1 \in 1..Len(request.specs)
      BY <3>2, Orderings
    <3>4. Spec_ \in SpecType
      BY <3>1, <3>3, ElementOfSeq DEF Spec_
    <3>. QED
      BY <3>4 DEF SpecType
  <2>2. ~(Cardinality(Usable) < Spec_.warmup)
    BY DEF SpecError
  <2>3. IsFiniteSet(DaysOf(Bars)) /\ Cardinality(DaysOf(Bars)) <= n
    <3>. DEFINE f == [i \in 1..n |-> bars[i].day]
    <3>1. f \in Surjection(1..n, DaysOf(Bars))
      BY <1>3 DEF Surjection, DaysOf, bars
    <3>2. IsFiniteSet(1..n) /\ Cardinality(1..n) = n
      BY <1>3, FirstNumbers
    <3>. HIDE DEF f, n
    <3>3. IsFiniteSet(DaysOf(Bars)) /\ Cardinality(DaysOf(Bars)) <= Cardinality(1..n)
      BY <3>1, <3>2, FS_Surjection
    <3>. QED
      BY <3>2, <3>3
  <2>4. Usable \in SUBSET DaysOf(Bars)
    BY DEF Usable
  <2>5. Cardinality(Usable) <= Cardinality(DaysOf(Bars)) /\ IsFiniteSet(Usable)
    BY <2>3, <2>4, FS_Subset
  <2>6. Cardinality(Usable) \in Nat /\ Cardinality(DaysOf(Bars)) \in Nat
    BY <2>3, <2>5, FS_CardinalityType
  <2>. HIDE DEF n
  <2>. QED
    BY <1>3, <2>1, <2>2, <2>3, <2>5, <2>6, Orderings
<1>5. raw.rows \in Rows
  BY <1>1, FrameAssumption
<1>6. n \in 2..Len(raw.rows)
  <2>1. Len(raw.rows) \in Nat
    BY <1>5, LenProperties DEF Rows
  <2>. HIDE DEF n
  <2>. QED
    BY <1>3, <1>4, <2>1, Orderings
<1>7. outcome \in Simulate(n)
  BY DEF bars
<1>. HIDE DEF n
<1>. QED
  BY <1>1, <1>6, <1>7, OutcomeAssumption DEF Sane

LEMMA InitKept == Init => KeptInv
<1>. SUFFICES ASSUME Init PROVE KeptInv
  OBVIOUS
<1>1. attempts \in Seq({}) /\ Len(attempts) = 0 /\ 1..Len(attempts) = {}
  BY Nothing DEF Init
<1>2. AttemptsInv
  BY <1>1 DEF Init, AttemptsInv
<1>3. DOMAIN frames = {}
  BY Nothing DEF Init
<1>4. FramesInv /\ LegInv /\ AnswerInv
  BY <1>3 DEF Init, FramesInv, LegInv, AnswerInv
<1>. QED
  BY <1>2, <1>3, <1>4 DEF Init, KeptInv

\* Whatever a request is made of downloads, attempts and answers, the invariant
\* is kept.
LEMMA StepKept == KeptInv /\ [Next]_vars => KeptInv'
<1>. SUFFICES ASSUME KeptInv, [Next]_vars PROVE KeptInv'
  OBVIOUS
<1>. USE RequestAssumption
<1>1. ASSUME request' = request, request \in Requests,
             FramesInv', LegInv', AttemptsInv', AnswerInv'
      PROVE  KeptInv'
  BY <1>1 DEF KeptInv
<1>0. request # NoRequest => request \in Requests
  BY DEF KeptInv
<1>00. \A error : Code(error) \in Codes
  BY DEF Code, Codes
<1>2. ASSUME request \in Requests, request' = request, attempts' = attempts,
             NEW symbol, symbol \notin DOMAIN frames,
             NEW series \in Loaded(symbol), series.error = "",
             frames' = Keeping(symbol, series)
      PROVE  FramesInv' /\ AttemptsInv' /\ (leg' = leg \/ leg' = series => LegInv')
  <2>1. /\ FramesInv'
        /\ \A other \in DOMAIN frames : other \in DOMAIN frames' /\ frames'[other] = frames[other]
        /\ symbol \in DOMAIN frames' /\ frames'[symbol] = series
        /\ \A attempt, i :
             Tried(attempt, request, frames, i) => Tried(attempt, request, frames', i)
    BY <1>2, KeepOneMore DEF KeptInv
  <2>2. AttemptsInv'
    BY <1>2, <2>1 DEF AttemptsInv, KeptInv
  <2>3. leg' = leg \/ leg' = series => LegInv'
    BY <2>1 DEF LegInv, KeptInv
  <2>. QED
    BY <2>1, <2>2, <2>3
<1>3. CASE Ask
  <2>1. /\ request = NoRequest /\ attempts = <<>> /\ DOMAIN frames = {} /\ answer = Pending
        /\ attempts' = <<>> /\ frames' = frames /\ leg' = leg /\ request' \in Requests
        /\ answer' = IF Refusal(request') = "" THEN Pending ELSE Code(Refusal(request'))
    BY <1>3 DEF Ask, KeptInv
  <2>2. AttemptsInv'
    BY <2>1, NoAttempts
  <2>3. FramesInv' /\ LegInv'
    BY <2>1 DEF KeptInv, FramesInv, LegInv
  <2>4. AnswerInv'
    BY <1>00, <2>1 DEF AnswerInv
  <2>. QED
    BY <2>1, <2>2, <2>3, <2>4 DEF KeptInv
<1>4. CASE Download
  <2>1. /\ request \in Requests /\ UNCHANGED <<request, leg, attempts>> /\ answer = Pending
        /\ Refusal(request) = ""
    BY <1>0, <1>4 DEF Download, KeptInv, AnswerInv
  <2>2. PICK first \in Missing : \E series \in Loaded(Wanted(request)[first]) :
               \/ /\ series.error = ""
                  /\ frames' = Keeping(Wanted(request)[first], series)
                  /\ UNCHANGED answer
               \/ /\ series.error # ""
                  /\ answer' = Code(series.error)
                  /\ UNCHANGED frames
    BY <1>4 DEF Download
  <2>3. Wanted(request)[first] \notin DOMAIN frames
    BY DEF Missing
  <2>4. CASE \E error : answer' = Code(error) /\ UNCHANGED frames
    <3>1. AnswerInv'
      BY <1>00, <2>1, <2>4 DEF AnswerInv
    <3>. QED
      BY <1>1, <2>1, <2>4, <3>1 DEF KeptInv, FramesInv, LegInv, AttemptsInv
  <2>5. CASE \E series \in Loaded(Wanted(request)[first]) :
               series.error = "" /\ frames' = Keeping(Wanted(request)[first], series)
               /\ UNCHANGED answer
    <3>1. AnswerInv'
      BY <2>1, <2>5 DEF AnswerInv
    <3>. QED
      BY <1>1, <1>2, <2>1, <2>3, <2>5, <3>1
  <2>. QED
    BY <2>2, <2>4, <2>5
<1>5. CASE AttachLeg
  <2>1. /\ request \in Requests /\ UNCHANGED <<request, answer>> /\ answer = Pending
        /\ request.op = "compare" /\ Len(attempts) < Len(request.specs)
        /\ request.specs \in Seq(SpecType) /\ Refusal(request) = ""
    BY <1>0, <1>5, ParsedAssumption
      DEF AttachLeg, LegWanted, Running, KeptInv, AnswerInv, SpecType
  <2>0. AnswerInv'
    BY <2>1 DEF AnswerInv
  <2>2. CASE /\ Cached(Spec_.leg) /\ leg' = frames[Spec_.leg]
             /\ UNCHANGED <<frames, attempts>>
    BY <1>1, <2>0, <2>1, <2>2 DEF Cached, KeptInv, FramesInv, LegInv, AttemptsInv
  <2>3. CASE ~Cached(Spec_.leg) /\ \E series \in Loaded(Spec_.leg) :
               /\ series.error = "" /\ frames' = Keeping(Spec_.leg, series)
               /\ leg' = series /\ UNCHANGED attempts
    BY <1>1, <1>2, <2>0, <2>1, <2>3 DEF Cached
  <2>4. CASE \E error : error # "" /\ attempts' = Append(attempts, Attempt(error))
                        /\ UNCHANGED <<frames, leg>>
    <3>1. PICK error : error # "" /\ attempts' = Append(attempts, Attempt(error))
                       /\ UNCHANGED <<frames, leg>>
      BY <2>4
    <3>2. Tried(Attempt(error), request, frames, Len(attempts) + 1)
      BY <3>1 DEF Tried, OverKept, Attempt
    <3>3. AttemptsInv'
      BY <2>1, <3>1, <3>2, OneMoreAttempt DEF KeptInv
    <3>. QED
      BY <1>1, <2>0, <2>1, <3>1, <3>3 DEF KeptInv, FramesInv, LegInv
  <2>. QED
    BY <1>5, <2>2, <2>3, <2>4 DEF AttachLeg, Recorded
<1>6. CASE RunStrategy
  <2>1. /\ request \in Requests /\ UNCHANGED <<request, frames, answer>> /\ leg' = NoLeg
        /\ answer = Pending /\ request.op = "compare" /\ Missing = {}
        /\ Len(attempts) < Len(request.specs) /\ request.specs \in Seq(SpecType)
        /\ Refusal(request) = ""
    BY <1>0, <1>6, ParsedAssumption DEF RunStrategy, Running, KeptInv, AnswerInv, SpecType
  <2>2. request.symbol \in DOMAIN frames
    <3>1. Wanted(request) = <<request.symbol>>
      BY <2>1 DEF Wanted, Portfolios
    <3>2. 1 \in DOMAIN Wanted(request) /\ Wanted(request)[1] = request.symbol
      BY <3>1, Single
    <3>. QED
      BY <2>1, <3>1, <3>2 DEF Missing
  <2>3. PICK attempt : /\ attempts' = Append(attempts, attempt)
                       /\ Tried(attempt, request, frames, Len(attempts) + 1)
    <3>1. ASSUME SpecError # "", attempts' = Recorded(Attempt(SpecError))
          PROVE  \E attempt : /\ attempts' = Append(attempts, attempt)
                              /\ Tried(attempt, request, frames, Len(attempts) + 1)
      <4>1. /\ Attempt(SpecError).error = SpecError
            /\ Attempt(SpecError).label = Label(request.specs, Len(attempts) + 1)
        BY DEF Attempt
      <4>2. Tried(Attempt(SpecError), request, frames, Len(attempts) + 1)
        BY <3>1, <4>1 DEF Tried, OverKept
      <4>. QED
        BY <3>1, <4>2 DEF Recorded
    <3>2. ASSUME SpecError = "", NEW outcome \in Simulate(Len(Bars.bars)),
                 attempts' = Recorded(RunOf(outcome))
          PROVE  \E attempt : /\ attempts' = Append(attempts, attempt)
                              /\ Tried(attempt, request, frames, Len(attempts) + 1)
      <4>1. OverKept(RunOf(outcome), request, frames)
        BY <2>2 DEF OverKept, RunOf, Bars, KeptInv, LegInv
      <4>2. Len(attempts) \in Nat
        BY LenProperties DEF KeptInv, AttemptsInv
      <4>3. Sane(outcome)
        BY <2>1, <2>2, <3>2, <4>2, SaneRun DEF KeptInv
      <4>4. /\ RunOf(outcome).label = Label(request.specs, Len(attempts) + 1)
            /\ RunOf(outcome).outcome = outcome
        BY DEF RunOf, Attempt
      <4>5. Tried(RunOf(outcome), request, frames, Len(attempts) + 1)
        BY <4>1, <4>3, <4>4 DEF Tried
      <4>. QED
        BY <3>2, <4>5 DEF Recorded
    <3>. QED
      BY <1>6, <3>1, <3>2 DEF RunStrategy
  <2>4. AttemptsInv'
    BY <2>1, <2>3, OneMoreAttempt DEF KeptInv
  <2>5. AnswerInv'
    BY <2>1 DEF AnswerInv
  <2>. QED
    BY <1>1, <2>1, <2>4, <2>5 DEF KeptInv, FramesInv, LegInv
<1>7. CASE Finish
  <2>1. /\ request \in Requests /\ UNCHANGED <<request, frames, leg, attempts>>
        /\ answer = Pending /\ answer' = Complete /\ Missing = {} /\ ~Running
        /\ Refusal(request) = ""
    BY <1>0, <1>7 DEF Finish, KeptInv, AnswerInv
  <2>2. Missing' = Missing
    BY <2>1 DEF Missing
  <2>3. request.op = "compare" => Len(attempts) >= Len(request.specs)
    <3>. SUFFICES ASSUME request.op = "compare" PROVE Len(attempts) >= Len(request.specs)
      OBVIOUS
    <3>1. ~(Len(attempts) < Len(request.specs))
      BY <2>1 DEF Running
    <3>2. request.specs \in Seq(SpecType)
      BY <2>1, ParsedAssumption DEF SpecType
    <3>3. Len(attempts) \in Nat /\ Len(request.specs) \in Nat
      BY <3>2, LenProperties DEF KeptInv, AttemptsInv
    <3>. QED
      BY <3>1, <3>3, Orderings
  <2>4. AnswerInv'
    BY <2>1, <2>2, <2>3 DEF AnswerInv
  <2>. QED
    BY <1>1, <2>1, <2>4 DEF KeptInv, FramesInv, LegInv, AttemptsInv
<1>8. CASE Send
  <2>1. /\ attempts' = <<>> /\ frames' = <<>> /\ leg' = NoLeg /\ request' = NoRequest
        /\ answer' = Pending
    BY <1>8 DEF Send
  <2>2. DOMAIN frames' = {}
    BY <2>1, Nothing
  <2>3. AttemptsInv'
    BY <2>1, NoAttempts
  <2>4. FramesInv'
    BY <2>2 DEF FramesInv
  <2>5. LegInv'
    BY <2>1 DEF LegInv, NoLeg, NoSeries
  <2>6. AnswerInv'
    BY <2>1 DEF AnswerInv
  <2>. QED
    BY <2>1, <2>2, <2>3, <2>4, <2>5, <2>6 DEF KeptInv
<1>9. CASE UNCHANGED vars
  <2>1. Missing' = Missing
    BY <1>9 DEF vars, Missing
  <2>2. AnswerInv'
    BY <1>9, <2>1 DEF vars, KeptInv, AnswerInv
  <2>. QED
    BY <1>9, <2>2 DEF vars, KeptInv, FramesInv, LegInv, AttemptsInv
<1>. QED
  BY <1>3, <1>4, <1>5, <1>6, <1>7, <1>8, <1>9 DEF Next, Work

LEMMA Invariance == Spec => []KeptInv
BY InitKept, StepKept, PTL DEF Spec

-----------------------------------------------------------------------------
(* The comparison's series. *)

\* The compared strategies run on the same bars, of the instrument and of any
\* second leg they share, and the reported version is that of those bars.
THEOREM ComparedAlike == Spec => []SameBars
<1>1. KeptInv => SameBars
  <2>. SUFFICES ASSUME KeptInv PROVE SameBars
    OBVIOUS
  <2>. USE RequestAssumption
  <2>. DEFINE ran == {i \in DOMAIN attempts : attempts[i].error = ""}
  <2>1. DOMAIN attempts = 1..Len(attempts)
    BY LenProperties DEF KeptInv, AttemptsInv
  <2>2. \A i \in ran : /\ attempts[i].bars = DataVersion(frames[request.symbol])
                       /\ \/ attempts[i].leg = DataVersion(NoLeg)
                          \/ \E symbol \in DOMAIN frames :
                               attempts[i].leg = DataVersion(frames[symbol])
    BY <2>1 DEF KeptInv, AttemptsInv, Tried, OverKept
  <2>3. DataVersion(NoLeg)[1] = ""
    BY DEF DataVersion, NoLeg, NoSeries
  <2>4. \A symbol \in DOMAIN frames : DataVersion(frames[symbol])[1] = symbol /\ symbol # ""
    <3>. SUFFICES ASSUME NEW symbol \in DOMAIN frames
                  PROVE  DataVersion(frames[symbol])[1] = symbol /\ symbol # ""
      OBVIOUS
    <3>1. request \in Requests /\ Downloaded(symbol, frames[symbol], request)
      BY DEF KeptInv, FramesInv
    <3>2. frames[symbol].symbol = symbol
      BY <3>1, SoundDownload
    <3>3. symbol \in Universe
      BY <3>1 DEF Downloaded
    <3>4. symbol # ""
      BY <3>3
    <3>. QED
      BY <3>2, <3>4 DEF DataVersion
  <2>5. \A i, j \in ran : attempts[i].leg[1] = attempts[j].leg[1]
                          => attempts[i].leg = attempts[j].leg
    <3>. SUFFICES ASSUME NEW i \in ran, NEW j \in ran,
                         attempts[i].leg[1] = attempts[j].leg[1]
                  PROVE  attempts[i].leg = attempts[j].leg
      OBVIOUS
    <3>. HIDE DEF ran
    <3>1. CASE attempts[i].leg = DataVersion(NoLeg) \/ attempts[j].leg = DataVersion(NoLeg)
      BY <2>2, <2>3, <2>4, <3>1
    <3>2. CASE /\ \E x \in DOMAIN frames : attempts[i].leg = DataVersion(frames[x])
               /\ \E y \in DOMAIN frames : attempts[j].leg = DataVersion(frames[y])
      <4>1. PICK x \in DOMAIN frames : attempts[i].leg = DataVersion(frames[x])
        BY <3>2
      <4>2. PICK y \in DOMAIN frames : attempts[j].leg = DataVersion(frames[y])
        BY <3>2
      <4>3. x = y
        BY <2>4, <4>1, <4>2
      <4>. QED
        BY <4>1, <4>2, <4>3
    <3>. QED
      BY <2>2, <3>1, <3>2
  <2>6. ASSUME NEW response \in Compared
        PROVE  response.data_version = DataVersion(frames[request.symbol])
    <3>1. response = CompareResponse /\ response.error = ""
      BY <2>6 DEF Compared, Answers
    <3>2. NoResponse.error # ""
      BY DEF NoResponse, Code
    <3>3. Runs # <<>>
      BY <3>1, <3>2 DEF CompareResponse
    <3>. QED
      BY <3>1, <3>3 DEF CompareResponse, Bars
  <2>. QED
    BY <2>2, <2>5, <2>6 DEF SameBars
<1>. QED
  BY <1>1, Invariance, PTL

-----------------------------------------------------------------------------
(* What is accepted. *)

\* The state of a request is consistent: what is kept is of the universe, only a
\* comparison has attempts, no more than it asked for, and a strategy runs with
\* no second leg but one that is kept.
THEOREM Consistent == Spec => []TypeOK
<1>1. KeptInv => TypeOK
  <2>. SUFFICES ASSUME KeptInv PROVE TypeOK
    OBVIOUS
  <2>1. DOMAIN frames \subseteq Universe
    BY DEF KeptInv, FramesInv, Downloaded
  <2>. QED
    BY <2>1 DEF KeptInv, LegInv, AttemptsInv, AnswerInv, TypeOK
<1>. QED
  BY <1>1, Invariance, PTL

\* Whatever the provider sends, in whatever order, a series that is accepted is
\* the sessions of one download that fall in the range, each once and in order,
\* at the adjusted closes and at prices a trade could have had.
THEOREM AcceptedIsSound == Spec => []SoundSeries
<1>1. KeptInv => SoundSeries
  <2>. SUFFICES ASSUME KeptInv, NEW symbol \in DOMAIN frames
                PROVE  LET bars == frames[symbol].bars
                       IN /\ \A i \in 1..(Len(bars) - 1) : bars[i].day < bars[i + 1].day
                          /\ \A i \in DOMAIN bars :
                               /\ 0 < bars[i].low /\ 0 <= bars[i].volume
                               /\ bars[i].low <= bars[i].open /\ bars[i].open <= bars[i].high
                               /\ bars[i].low <= bars[i].close /\ bars[i].close <= bars[i].high
                          /\ \E raw \in Downloads[symbol] :
                               QuotesOf(frames[symbol])
                                 = Within(Sent(raw), request.query.from, request.query.to)
    BY DEF SoundSeries, QuotesOf, Sent, Within
  <2>. DEFINE bars == frames[symbol].bars
  <2>1. request \in Requests /\ Downloaded(symbol, frames[symbol], request)
    BY DEF KeptInv, FramesInv
  <2>2. PICK raw \in Downloads[symbol] :
           /\ SoundBars(bars, Len(raw.rows))
           /\ QuotesOf(frames[symbol])
                = Within(Sent(raw), request.query.from, request.query.to)
    BY <2>1, SoundDownload
  <2>. HIDE DEF bars
  <2>3. \A i \in 1..(Len(bars) - 1) : bars[i].day < bars[i + 1].day
    BY <2>2 DEF SoundBars
  <2>4. \A i \in DOMAIN bars : Tradable(bars[i])
    BY <2>2 DEF SoundBars
  <2>5. \A i \in DOMAIN bars :
          /\ 0 < bars[i].low /\ 0 <= bars[i].volume
          /\ bars[i].low <= bars[i].open /\ bars[i].open <= bars[i].high
          /\ bars[i].low <= bars[i].close /\ bars[i].close <= bars[i].high
    BY <2>4 DEF Tradable
  <2>. QED
    BY <2>2, <2>3, <2>5 DEF bars
<1>. QED
  BY <1>1, Invariance, PTL

-----------------------------------------------------------------------------
(* The window of a portfolio. *)

\* A set can be listed, each element once.
LEMMA Listing ==
  ASSUME NEW S, IsFiniteSet(S)
  PROVE  /\ SetToSeq(S) \in Seq(S)
         /\ \A x \in S : \E i \in DOMAIN SetToSeq(S) : SetToSeq(S)[i] = x
<1>. DEFINE n == Cardinality(S)
            T == 1..n
            f == SetToSeq(S)
<1>1. n \in Nat
  BY FS_CardinalityType
<1>2. IsFiniteSet(T) /\ Cardinality(T) = n
  BY <1>1, FirstNumbers
<1>3. ExistsBijection(T, S)
  BY FS_CardinalityType
<1>4. \E g \in [T -> S] : IsInjective(g)
  BY <1>3 DEF ExistsBijection, Bijection, Injection
<1>5. f \in [T -> S] /\ IsInjective(f)
  <2>1. f = CHOOSE g \in [T -> S] : IsInjective(g)
    BY DEF SetToSeq
  <2>. HIDE DEF f, T
  <2>. QED
    BY <1>4, <2>1
<1>. HIDE DEF f
<1>6. f \in Injection(T, S)
  BY <1>5 DEF Injection
<1>. HIDE DEF T
<1>7. f \in Surjection(T, S)
  BY <1>2, <1>6, FS_Injection
<1>8. \A x \in S : \E i \in T : f[i] = x
  BY <1>7 DEF Surjection
<1>9. DOMAIN f = T
  BY <1>5
<1>10. f \in Seq(S)
  BY <1>1, <1>5, Listed DEF T
<1>. QED
  BY <1>8, <1>9, <1>10 DEF f

\* The symbols a portfolio request is about.
Held(asked) ==
  IF asked.op = "risk" THEN SymbolsOf(asked.holdings)
  ELSE SymbolsOf(asked.holdings) \cup DOMAIN asked.overrides

\* What has passed the checks of Portfolio, and those of the overrides.
LEMMA Validated ==
  ASSUME NEW asked \in Requests, asked.op \in Portfolios, Refusal(asked) = ""
  PROVE  /\ asked.holdings \in Seq([symbol: STRING, quantity: Field])
         /\ SymbolsOf(asked.holdings) \subseteq Universe
         /\ \A i \in DOMAIN asked.holdings :
              asked.holdings[i].quantity \in Int /\ asked.holdings[i].quantity > 0
         /\ asked.op = "scenario" =>
              /\ DOMAIN asked.overrides \subseteq Universe
              /\ \A symbol \in DOMAIN asked.overrides :
                   asked.overrides[symbol] \in Int /\ asked.overrides[symbol] >= 0
<1>1. asked.op \in {"risk", "scenario"}
  BY DEF Portfolios
<1>2. asked.holdings \in Seq([symbol: STRING, quantity: Field])
  BY <1>1, ParsedAssumption
<1>3. PortfolioError(asked.holdings, asked.benchmark) = ""
  BY <1>1 DEF Refusal
<1>4. /\ \A i \in DOMAIN asked.holdings :
            asked.holdings[i].quantity # NaN /\ ~(asked.holdings[i].quantity <= 0)
      /\ SymbolsOf(asked.holdings) \subseteq Universe
  BY <1>3 DEF PortfolioError
<1>5. ASSUME NEW i \in DOMAIN asked.holdings
      PROVE  asked.holdings[i].quantity \in Int /\ asked.holdings[i].quantity > 0
  <2>1. i \in 1..Len(asked.holdings)
    BY <1>2, LenProperties
  <2>2. asked.holdings[i] \in [symbol: STRING, quantity: Field]
    BY <1>2, <2>1, ElementOfSeq
  <2>3. asked.holdings[i].quantity \in Field
    BY <2>2
  <2>4. asked.holdings[i].quantity \in Int
    BY <1>4, <2>3 DEF Field
  <2>. QED
    BY <1>4, <2>4, Orderings
<1>6. ASSUME asked.op = "scenario"
      PROVE  /\ DOMAIN asked.overrides \subseteq Universe
             /\ \A symbol \in DOMAIN asked.overrides :
                  asked.overrides[symbol] \in Int /\ asked.overrides[symbol] >= 0
  <2>1. OverridesError(asked.overrides) = ""
    BY <1>3, <1>6 DEF Refusal
  <2>2. /\ DOMAIN asked.overrides \subseteq Universe
        /\ \A symbol \in DOMAIN asked.overrides :
             asked.overrides[symbol] # NaN /\ ~(asked.overrides[symbol] < 0)
    BY <2>1 DEF OverridesError
  <2>3. \A symbol \in DOMAIN asked.overrides : asked.overrides[symbol] \in Field
    BY <1>6, ParsedAssumption
  <2>4. \A symbol \in DOMAIN asked.overrides : asked.overrides[symbol] \in Int
    BY <2>2, <2>3 DEF Field
  <2>. QED
    BY <2>2, <2>4, Orderings
<1>. QED
  BY <1>2, <1>4, <1>5, <1>6

\* What is analysed is what is held, and all of it has been downloaded.
LEMMA AllAnalysed ==
  ASSUME KeptInv, request # NoRequest, answer = Complete, request.op \in Portfolios
  PROVE  /\ IsFiniteSet(DOMAIN Analysed(request))
         /\ Held(request) = Items(Analysed(request))
         /\ Held(request) \subseteq DOMAIN frames
<1>. DEFINE W == Analysed(request)
            held == [i \in DOMAIN request.holdings |-> request.holdings[i].symbol]
            added == DOMAIN request.overrides \ SymbolsOf(request.holdings)
<1>1. request \in Requests /\ Refusal(request) = "" /\ Missing = {}
  BY DEF KeptInv, AnswerInv
<1>2. /\ request.holdings \in Seq([symbol: STRING, quantity: Field])
      /\ request.op = "scenario" => DOMAIN request.overrides \subseteq Universe
      /\ SymbolsOf(request.holdings) \subseteq Universe
  BY <1>1, Validated
<1>3. /\ held \in Seq(Universe)
      /\ Items(held) = SymbolsOf(request.holdings)
  <2>1. Len(request.holdings) \in Nat /\ DOMAIN request.holdings = 1..Len(request.holdings)
    BY <1>2, LenProperties
  <2>2. held \in [1..Len(request.holdings) -> Universe]
    BY <1>2, <2>1 DEF SymbolsOf
  <2>. HIDE DEF held
  <2>3. held \in Seq(Universe)
    BY <2>1, <2>2, Listed
  <2>4. Items(held) = SymbolsOf(request.holdings)
    BY DEF held, SymbolsOf, Items
  <2>. QED
    BY <2>3, <2>4
<1>. HIDE DEF held
<1>4. /\ W \in Seq(Universe)
      /\ Held(request) = Items(W)
  <2>1. CASE request.op = "risk"
    BY <1>3, <2>1 DEF Analysed, Held, held
  <2>2. CASE request.op = "scenario"
    <3>1. IsFiniteSet(added) /\ added \subseteq Universe
      BY <1>2, <2>2, FrameAssumption, FS_Subset
    <3>. DEFINE rest == SetToSeq(added)
    <3>2. W = held \o rest /\ Held(request) = SymbolsOf(request.holdings) \cup added
      BY <2>2 DEF Analysed, Held, held
    <3>. HIDE DEF W, added
    <3>3. rest \in Seq(added) /\ \A x \in added : \E i \in DOMAIN rest : rest[i] = x
      BY <3>1, Listing
    <3>. HIDE DEF rest
    <3>4. rest \in Seq(Universe)
      BY <3>1, <3>3, SeqMonotonic
    <3>5. Items(rest) = added
      <4>1. \A i \in DOMAIN rest : rest[i] \in added
        BY <3>3, LenProperties, ElementOfSeq
      <4>. QED
        BY <3>3, <4>1 DEF Items
    <3>6. W \in Seq(Universe) /\ Items(W) = Items(held) \cup Items(rest)
      BY <1>3, <3>2, <3>4, RangeOfConcat
    <3>. QED
      BY <1>3, <3>2, <3>5, <3>6
  <2>. QED
    BY <2>1, <2>2 DEF Portfolios
<1>. HIDE DEF W
<1>5. DOMAIN W = 1..Len(W) /\ Len(W) \in Nat
  BY <1>4, LenProperties
<1>6. IsFiniteSet(DOMAIN W)
  BY <1>5, FirstNumbers
<1>7. \A i \in DOMAIN W : W[i] \in DOMAIN frames
  <2>1. Wanted(request) = Append(W, request.benchmark)
    BY DEF Wanted, W
  <2>2. \A i \in DOMAIN W : i \in DOMAIN Wanted(request) /\ Wanted(request)[i] = W[i]
    BY <1>4, <2>1, Longer
  <2>. QED
    BY <1>1, <2>2 DEF Missing
<1>8. Items(W) \subseteq DOMAIN frames
  BY <1>7 DEF Items
<1>. QED
  BY <1>4, <1>6, <1>8 DEF W

\* The days of a sound series are finitely many, and on each there is a price.
LEMMA PricedDays ==
  ASSUME NEW series, NEW limit, SoundBars(series.bars, limit)
  PROVE  /\ IsFiniteSet(DaysOf(series)) /\ DaysOf(series) \subseteq Int
         /\ \A day \in DaysOf(series) :
              BarOn(series, day).close \in Int /\ BarOn(series, day).close > 0
<1>. DEFINE bars == series.bars
<1>1. PICK n \in Nat : DOMAIN bars = 1..n /\ \A i \in 1..n : Tradable(bars[i])
  BY DEF SoundBars
<1>. DEFINE T == 1..n
<1>2. IsFiniteSet(T)
  BY FirstNumbers
<1>3. DaysOf(series) = {bars[i].day : i \in T}
  BY <1>1 DEF DaysOf
<1>4. \A i \in T : /\ bars[i].day \in Int /\ bars[i].close \in Int /\ bars[i].close > 0
  <2>1. \A bar : Tradable(bar) => bar.day \in Int /\ bar.close \in Int /\ bar.close > 0
    BY DEF Tradable
  <2>. QED
    BY <1>1, <2>1
<1>5. DOMAIN bars = T
  BY <1>1
<1>. HIDE DEF bars, T
<1>6. IsFiniteSet(DaysOf(series))
  <2>. DEFINE f == [i \in T |-> bars[i].day]
  <2>1. f \in Surjection(T, DaysOf(series))
    BY <1>3 DEF Surjection
  <2>. HIDE DEF f
  <2>. QED
    BY <1>2, <2>1, FS_Surjection
<1>7. ASSUME NEW day \in DaysOf(series)
      PROVE  BarOn(series, day).close \in Int /\ BarOn(series, day).close > 0
  <2>. DEFINE all == {bars[i] : i \in DOMAIN bars}
              bar == BarOn(series, day)
  <2>1. bar = CHOOSE b \in all : b.day = day
    BY DEF BarOn, bars
  <2>2. \E b \in all : b.day = day
    BY <1>3, <1>5
  <2>3. bar \in all
    <3>. HIDE DEF all, bar
    <3>. QED
      BY <2>1, <2>2
  <2>4. PICK i \in T : bar = bars[i]
    BY <1>5, <2>3
  <2>. HIDE DEF bar
  <2>5. bar.close \in Int /\ bar.close > 0
    BY <1>4, <2>4
  <2>. QED
    BY <2>5 DEF bar
<1>. QED
  BY <1>3, <1>4, <1>6, <1>7

\* The days on which any of the symbols traded.
Sessions == UNION {DaysOf(frames[symbol]) : symbol \in Held(request)}

\* Symbols that cover the sessions well enough, and trade at a price.
LEMMA WindowIs ==
  ASSUME KeptInv, request # NoRequest, answer = Complete, request.op \in Portfolios,
         Window.error = ""
  PROVE  /\ Window.kept \subseteq Held(request)
         /\ DOMAIN Window.dropped = Held(request) \ Window.kept
         /\ Window.days = {day \in Sessions : \A symbol \in Window.kept :
                                               day \in DaysOf(frames[symbol])}
         /\ Window.days \subseteq Int /\ IsFiniteSet(Window.days)
         /\ Cardinality(Window.days) - 1 >= MinObservations
         /\ \A symbol \in Window.kept :
              10 * Cardinality(DaysOf(frames[symbol])) >= CoverageTenths * Cardinality(Sessions)
         /\ \A symbol \in Window.kept :
              Window.prices[symbol] \in Int /\ Window.prices[symbol] > 0
<1>. DEFINE A == Analysed(request)
            H == Held(request)
            held == {A[i] : i \in DOMAIN A}
            kept == {symbol \in held : Exclusion(frames, A, symbol) = ""}
            days == {day \in Pooled(frames, A) : \A symbol \in kept : day \in DaysOf(frames[symbol])}
            matched == ReturnDays(days) \cap ReturnDays(DaysOf(frames[request.benchmark]))
            few == kept = {} \/ Cardinality(days) - 1 < MinObservations
            dropped == [symbol \in held \ kept |-> Exclusion(frames, A, symbol)]
            prices == [symbol \in kept |-> BarOn(frames[symbol], Max(days)).close]
            index == [day \in matched |->
                        GrowthOn(frames[request.benchmark], DaysOf(frames[request.benchmark]), day)]
            growth == [symbol \in kept |->
                         [day \in ReturnDays(days) |-> GrowthOn(frames[symbol], days, day)]]
            found == IF Cardinality(matched) < MinObservations THEN {} ELSE matched
            full == [error |-> "", kept |-> kept, dropped |-> dropped, days |-> days,
                     matched |-> found, index |-> index, prices |-> prices, growth |-> growth]
<1>1. Window = IF few THEN NoWindow ELSE full
  BY DEF Window, LoadWindow
<1>2. /\ IsFiniteSet(DOMAIN A) /\ H = Items(A) /\ H \subseteq DOMAIN frames
  BY AllAnalysed
<1>3. held = H
  BY <1>2 DEF Items
<1>4. Pooled(frames, A) = Sessions
  <2>1. Sessions = UNION {DaysOf(frames[symbol]) : symbol \in Items(A)}
    BY <1>2 DEF Sessions
  <2>2. {DaysOf(frames[A[i]]) : i \in DOMAIN A} = {DaysOf(frames[symbol]) : symbol \in Items(A)}
    BY DEF Items
  <2>. QED
    BY <2>1, <2>2 DEF Pooled
<1>5. ASSUME NEW symbol \in H
      PROVE  /\ IsFiniteSet(DaysOf(frames[symbol])) /\ DaysOf(frames[symbol]) \subseteq Int
             /\ \A day \in DaysOf(frames[symbol]) :
                  /\ BarOn(frames[symbol], day).close \in Int
                  /\ BarOn(frames[symbol], day).close > 0
  <2>1. request \in Requests /\ Downloaded(symbol, frames[symbol], request)
    BY <1>2 DEF KeptInv, FramesInv
  <2>2. PICK raw : SoundBars(frames[symbol].bars, Len(raw.rows))
    BY <2>1, SoundDownload
  <2>. QED
    BY <2>2, PricedDays
<1>6. IsFiniteSet(Sessions) /\ Sessions \subseteq Int
  <2>. DEFINE each == {DaysOf(frames[symbol]) : symbol \in H}
  <2>1. IsFiniteSet(each)
    <3>. DEFINE f == [i \in DOMAIN A |-> DaysOf(frames[A[i]])]
    <3>1. f \in Surjection(DOMAIN A, each)
      BY <1>2 DEF Surjection, Items
    <3>. HIDE DEF f, each
    <3>. QED
      BY <1>2, <3>1, FS_Surjection
  <2>2. \A T \in each : IsFiniteSet(T) /\ T \subseteq Int
    BY <1>5
  <2>3. Sessions = UNION each
    BY DEF Sessions
  <2>. HIDE DEF each
  <2>4. IsFiniteSet(UNION each)
    BY <2>1, <2>2, FS_UNION
  <2>. QED
    BY <2>2, <2>3, <2>4
<1>7. kept \subseteq H
  BY <1>3
<1>8. days \in SUBSET Sessions
  BY <1>4
<1>9. days = {day \in Sessions : \A symbol \in kept : day \in DaysOf(frames[symbol])}
  BY <1>4
<1>10. DOMAIN dropped = H \ kept
  BY <1>3
<1>11. \A symbol \in kept : Exclusion(frames, A, symbol) = ""
  OBVIOUS
<1>12. \A symbol \in kept : prices[symbol] = BarOn(frames[symbol], Max(days)).close
  OBVIOUS
<1>13. \A symbol \in kept : days \subseteq DaysOf(frames[symbol])
  OBVIOUS
<1>. HIDE DEF A, H, held, kept, days, matched, dropped, prices, index, growth, found
<1>14. ~few
  <2>1. NoWindow.error # ""
    BY DEF NoWindow
  <2>. QED
    BY <1>1, <2>1
<1>15. /\ Window.kept = kept /\ Window.dropped = dropped /\ Window.days = days
       /\ Window.prices = prices
  BY <1>1, <1>14
<1>16. IsFiniteSet(days) /\ days \subseteq Int
  BY <1>6, <1>8, FS_Subset
<1>17. Cardinality(days) - 1 >= MinObservations
  <2>1. Cardinality(days) \in Nat /\ MinObservations \in Nat
    BY <1>16, FS_CardinalityType, WindowAssumption
  <2>2. ~(Cardinality(days) - 1 < MinObservations)
    BY <1>14
  <2>. QED
    BY <2>1, <2>2, Orderings
<1>18. days # {}
  <2>1. MinObservations \in Nat \ {0} /\ Cardinality({}) = 0
    BY WindowAssumption, FS_EmptySet
  <2>. QED
    BY <1>17, <2>1, Orderings
<1>19. Max(days) \in days
  BY <1>16, <1>18, Greatest
<1>20. \A symbol \in kept : prices[symbol] \in Int /\ prices[symbol] > 0
  BY <1>5, <1>7, <1>12, <1>13, <1>19
<1>21. ASSUME NEW symbol \in kept
       PROVE  10 * Cardinality(DaysOf(frames[symbol])) >= CoverageTenths * Cardinality(Sessions)
  <2>. DEFINE traded == Cardinality(DaysOf(frames[symbol]))
              all == Cardinality(Sessions)
  <2>1. traded \in Nat /\ all \in Nat /\ CoverageTenths \in Nat
    BY <1>5, <1>6, <1>7, FS_CardinalityType, WindowAssumption, Orderings
  <2>2. ~(10 * traded < CoverageTenths * all)
    BY <1>4, <1>11 DEF Exclusion
  <2>. HIDE DEF traded, all
  <2>5. 10 * traded >= CoverageTenths * all
    BY <2>1, <2>2, Orderings
  <2>. QED
    BY <2>5 DEF traded, all
<1>. QED
  BY <1>7, <1>9, <1>10, <1>15, <1>16, <1>17, <1>20, <1>21 DEF H

-----------------------------------------------------------------------------
(* The reports of a portfolio. *)

LEMMA Products ==
  /\ \A a, b \in Int : a > 0 /\ b > 0 => a * b \in Int /\ a * b > 0
  /\ \A a, b \in Int : a >= 0 /\ b > 0 => (a * b > 0 <=> a > 0)
  /\ \A a \in Int : a > 0 => 10 * a \in Int /\ 10 * a > 0
  /\ \A a, b \in Int : (10 * a) * b = (10 * b) * a
  /\ \A o, w, b \in Int : 10 * (o * w) * b = o * w * (10 * b)
OBVIOUS

\* All the days but the first have a return.
LEMMA OneReturnLess ==
  ASSUME NEW days, days \subseteq Int, IsFiniteSet(days), days # {}
  PROVE  Cardinality(ReturnDays(days)) = Cardinality(days) - 1
<1>. DEFINE first == Min(days)
<1>1. first \in days /\ \A day \in days : first <= day
  BY Least
<1>. HIDE DEF first
<1>2. ReturnDays(days) = days \ {first}
  <2>1. ASSUME NEW day \in days, day # first PROVE first < day
    <3>1. day \in Int /\ first \in Int /\ first <= day
      BY <1>1
    <3>. QED
      BY <2>1, <3>1
  <2>2. ~ \E day \in days : day < first
    <3>. SUFFICES ASSUME NEW day \in days, day < first PROVE FALSE
      OBVIOUS
    <3>1. day \in Int /\ first \in Int /\ first <= day
      BY <1>1
    <3>. QED
      BY <3>1
  <2>. QED
    BY <1>1, <2>1, <2>2 DEF ReturnDays
<1>3. Cardinality(days \ {first}) = Cardinality(days) - 1
  BY <1>1, FS_RemoveElement
<1>. QED
  BY <1>2, <1>3

\* Positive weights of symbols of the window.
Weighs(weights) ==
  /\ DOMAIN weights \subseteq Window.kept
  /\ \A symbol \in DOMAIN weights : weights[symbol] \in Int /\ weights[symbol] > 0

LEMMA WholeIsPositive ==
  ASSUME NEW weights, IsFiniteSet(DOMAIN weights), DOMAIN weights # {}, Weighs(weights)
  PROVE  Whole(weights) \in Int /\ Whole(weights) > 0
<1>1. SumOver(weights, DOMAIN weights) \in Int /\ SumOver(weights, DOMAIN weights) > 0
  BY SumPositive DEF Weighs
<1>2. Whole(weights) = SumOver(weights, DOMAIN weights)
  BY DEF Whole, SumOver
<1>. QED
  BY <1>1, <1>2

\* What is held in the window is worth something.
LEMMA Valued ==
  ASSUME KeptInv, request # NoRequest, answer = Complete, request.op \in Portfolios,
         Window.error = ""
  PROVE  /\ DOMAIN MarketValues(request.holdings, Window)
              = SymbolsOf(request.holdings) \cap Window.kept
         /\ Weighs(MarketValues(request.holdings, Window))
<1>. DEFINE base == MarketValues(request.holdings, Window)
            all == {request.holdings[i] : i \in DOMAIN request.holdings}
            holding(symbol) == CHOOSE h \in all : h.symbol = symbol
<1>1. request \in Requests /\ Refusal(request) = ""
  BY DEF KeptInv, AnswerInv
<1>2. \A h \in all : h.quantity \in Int /\ h.quantity > 0
  BY <1>1, Validated
<1>3. /\ DOMAIN base = SymbolsOf(request.holdings) \cap Window.kept
      /\ \A symbol \in DOMAIN base :
           base[symbol] = holding(symbol).quantity * Window.prices[symbol]
  BY DEF MarketValues
<1>4. ASSUME NEW symbol \in DOMAIN base PROVE base[symbol] \in Int /\ base[symbol] > 0
  <2>0. PICK i \in DOMAIN request.holdings : request.holdings[i].symbol = symbol
    BY <1>3 DEF SymbolsOf
  <2>1. \E h \in all : h.symbol = symbol
    <3>1. request.holdings[i] \in all
      OBVIOUS
    <3>. HIDE DEF all
    <3>. QED
      BY <2>0, <3>1
  <2>2. holding(symbol) \in all
    <3>. HIDE DEF all
    <3>. QED
      BY <2>1
  <2>3. Window.prices[symbol] \in Int /\ Window.prices[symbol] > 0
    BY <1>3, WindowIs
  <2>4. holding(symbol).quantity \in Int /\ holding(symbol).quantity > 0
    BY <1>2, <2>2
  <2>. DEFINE q == holding(symbol).quantity
              p == Window.prices[symbol]
  <2>5. base[symbol] = q * p
    BY <1>3
  <2>6. p \in Int /\ p > 0 /\ q \in Int /\ q > 0
    BY <2>3, <2>4
  <2>. HIDE DEF q, p, base
  <2>7. q * p \in Int /\ q * p > 0
    BY <2>6, Products
  <2>. QED
    BY <2>5, <2>7
<1>. QED
  BY <1>3, <1>4 DEF Weighs

\* A report on such weights leaves nothing out unsaid.
LEMMA ReportIs ==
  ASSUME KeptInv, request # NoRequest, answer = Complete, request.op \in Portfolios,
         Window.error = "", NEW weights, Weighs(weights)
  PROVE  /\ IsFiniteSet(DOMAIN weights)
         /\ Report(weights).weights = weights /\ Report(weights).dropped = Window.dropped
         /\ Reported(Report(weights), Held(request))
<1>. DEFINE report == Report(weights)
            common == {day \in Sessions :
                         \A symbol \in Held(request) \ DOMAIN report.dropped :
                           day \in DaysOf(frames[symbol])}
<1>1. /\ report.weights = weights /\ report.sectors = Sectors(weights)
      /\ report.observations = Cardinality(ReturnDays(Window.days))
      /\ report.dropped = Window.dropped
  BY DEF Report, Analyze
<1>. HIDE DEF report
<1>2. /\ Window.kept \subseteq Held(request)
      /\ DOMAIN Window.dropped = Held(request) \ Window.kept
      /\ Window.days = {day \in Sessions : \A symbol \in Window.kept :
                                            day \in DaysOf(frames[symbol])}
      /\ Window.days \subseteq Int /\ IsFiniteSet(Window.days)
      /\ Cardinality(Window.days) - 1 >= MinObservations
      /\ \A symbol \in Window.kept :
           10 * Cardinality(DaysOf(frames[symbol])) >= CoverageTenths * Cardinality(Sessions)
  BY WindowIs
<1>3. Window.days # {}
  <2>1. MinObservations \in Nat \ {0} /\ Cardinality({}) = 0
    BY WindowAssumption, FS_EmptySet
  <2>. QED
    BY <1>2, <2>1, Orderings
<1>4. report.observations = Cardinality(Window.days) - 1
  BY <1>1, <1>2, <1>3, OneReturnLess
<1>5. common = Window.days
  <2>1. Held(request) \ DOMAIN report.dropped = Window.kept
    BY <1>1, <1>2
  <2>. QED
    BY <1>2, <2>1
<1>. HIDE DEF common
<1>6. Cardinality(common) = report.observations + 1
  <2>1. Cardinality(Window.days) \in Nat
    BY <1>2, FS_CardinalityType
  <2>. QED
    BY <1>4, <1>5, <2>1, Orderings
<1>7. IsFiniteSet(DOMAIN weights)
  <2>1. Held(request) \subseteq DOMAIN frames
    BY AllAnalysed
  <2>2. Held(request) \subseteq Universe
    BY <2>1 DEF KeptInv, FramesInv, Downloaded
  <2>3. DOMAIN weights \subseteq Universe
    BY <1>2, <2>2 DEF Weighs
  <2>. QED
    BY <2>3, FrameAssumption, FS_Subset
<1>8. MapThenSumSet(LAMBDA sector : report.sectors[sector], DOMAIN report.sectors) = Whole(weights)
  <2>. DEFINE classes == ClassesOf(Instruments, DOMAIN weights)
              sums == Sectors(weights)
  <2>1. DOMAIN sums = classes
    BY DEF Sectors, ClassesOf
  <2>2. \A sector \in classes :
          sums[sector] = SumOver(weights, ClassOf(Instruments, DOMAIN weights, sector))
    BY DEF Sectors, SumOver, ClassesOf, ClassOf
  <2>3. \A symbol \in DOMAIN weights : weights[symbol] \in Int
    BY DEF Weighs
  <2>. HIDE DEF sums
  <2>4. SumOver(sums, classes) = SumOver(weights, DOMAIN weights)
    BY <1>7, <2>2, <2>3, SumOfClasses
  <2>5. SumOver(sums, DOMAIN sums) = SumOver(weights, DOMAIN weights)
    BY <2>1, <2>4
  <2>6. Whole(weights) = SumOver(weights, DOMAIN weights)
    BY DEF Whole, SumOver
  <2>7. SumOver(report.sectors, DOMAIN report.sectors) = Whole(weights)
    BY <1>1, <2>5, <2>6 DEF sums
  <2>. QED
    BY <2>7 DEF SumOver
<1>9. /\ DOMAIN report.weights \cap DOMAIN report.dropped = {}
      /\ \A symbol \in DOMAIN report.weights :
           10 * Cardinality(DaysOf(frames[symbol])) >= CoverageTenths * Cardinality(Sessions)
  BY <1>1, <1>2 DEF Weighs
<1>10. report.observations >= MinObservations
  BY <1>2, <1>4
<1>11. Reported(report, Held(request))
  BY <1>1, <1>6, <1>8, <1>9, <1>10 DEF Reported, Sessions, common
<1>. QED
  BY <1>1, <1>7, <1>11 DEF report

\* The weights of a scenario.
LEMMA TargetIs ==
  ASSUME NEW base, IsFiniteSet(DOMAIN base), DOMAIN base # {}, Weighs(base),
         NEW usable, DOMAIN usable \subseteq Window.kept,
         \A symbol \in DOMAIN usable : usable[symbol] \in Int /\ usable[symbol] >= 0
  PROVE  LET target == Positive(Combined(base, usable))
         IN /\ DOMAIN target
                 = (DOMAIN base \ DOMAIN usable)
                     \cup {symbol \in DOMAIN usable : usable[symbol] > 0}
            /\ Weighs(target)
            /\ \A symbol \in DOMAIN base \ DOMAIN usable : target[symbol] = 10 * base[symbol]
            /\ \A symbol \in DOMAIN usable :
                 usable[symbol] > 0 => target[symbol] = usable[symbol] * Whole(base)
<1>. DEFINE all == Combined(base, usable)
            target == Positive(all)
            whole == Whole(base)
<1>1. whole \in Int /\ whole > 0
  BY WholeIsPositive
<1>. HIDE DEF whole
<1>2. /\ DOMAIN all = DOMAIN base \cup DOMAIN usable
      /\ \A symbol \in DOMAIN usable : all[symbol] = usable[symbol] * whole
      /\ \A symbol \in DOMAIN base \ DOMAIN usable : all[symbol] = 10 * base[symbol]
  BY DEF Combined, whole
<1>. HIDE DEF all
<1>3. /\ DOMAIN target = {symbol \in DOMAIN all : all[symbol] > 0}
      /\ \A symbol \in DOMAIN target : target[symbol] = all[symbol]
  BY DEF Positive
<1>. HIDE DEF target
<1>4. ASSUME NEW symbol \in DOMAIN base \ DOMAIN usable
      PROVE  symbol \in DOMAIN target /\ target[symbol] = 10 * base[symbol]
             /\ target[symbol] \in Int /\ target[symbol] > 0
  <2>1. base[symbol] \in Int /\ base[symbol] > 0
    BY DEF Weighs
  <2>. QED
    BY <1>2, <1>3, <2>1, Products
<1>5. ASSUME NEW symbol \in DOMAIN usable
      PROVE  /\ symbol \in DOMAIN target <=> usable[symbol] > 0
             /\ usable[symbol] > 0 =>
                  /\ target[symbol] = usable[symbol] * whole
                  /\ target[symbol] \in Int /\ target[symbol] > 0
  BY <1>1, <1>2, <1>3, Products
<1>6. DOMAIN target \subseteq (DOMAIN base \ DOMAIN usable) \cup DOMAIN usable
  BY <1>2, <1>3
<1>7. DOMAIN target = (DOMAIN base \ DOMAIN usable)
                        \cup {symbol \in DOMAIN usable : usable[symbol] > 0}
  BY <1>4, <1>5, <1>6
<1>8. Weighs(target)
  BY <1>4, <1>5, <1>7 DEF Weighs
<1>. QED
  BY <1>4, <1>5, <1>7, <1>8 DEF target, all, whole

\* What a scenario is answered.
BaseWeights == MarketValues(request.holdings, Window)
Overriding ==
  [symbol \in DOMAIN request.overrides \cap Window.kept |-> request.overrides[symbol]]
TargetWeights == Positive(Combined(BaseWeights, Overriding))

\* A request that was answered in full.
LEMMA AnsweredOf ==
  ASSUME KeptInv, NEW op, NEW answered, NEW response \in Answers(op, answered)
  PROVE  /\ request # NoRequest /\ request \in Requests /\ answer = Complete /\ request.op = op
         /\ response = answered /\ response.error = "" /\ Refusal(request) = ""
<1>1. answer = Complete /\ request.op = op /\ response = answered /\ response.error = ""
  BY DEF Answers
<1>2. request # NoRequest
  BY <1>1, RequestAssumption DEF KeptInv
<1>. QED
  BY <1>1, <1>2 DEF KeptInv, AnswerInv

LEMMA NoAnswer == NoResponse.error # ""
BY DEF NoResponse, Code

LEMMA AssessedIs ==
  ASSUME KeptInv, NEW response \in Assessed
  PROVE  /\ request # NoRequest /\ request \in Requests /\ answer = Complete
         /\ request.op = "risk" /\ request.op \in Portfolios
         /\ Window.error = "" /\ response.report = Report(BaseWeights)
<1>1. /\ request # NoRequest /\ request \in Requests /\ answer = Complete /\ request.op = "risk"
      /\ response = RiskResponse /\ response.error = ""
  BY AnsweredOf DEF Assessed
<1>2. Window.error = ""
  BY <1>1, NoAnswer DEF RiskResponse
<1>3. response.report = Report(BaseWeights)
  BY <1>1, <1>2 DEF RiskResponse, BaseWeights
<1>. QED
  BY <1>1, <1>2, <1>3 DEF Portfolios

LEMMA ReweighedIs ==
  ASSUME KeptInv, NEW response \in Reweighed
  PROVE  /\ request # NoRequest /\ request \in Requests /\ answer = Complete
         /\ request.op = "scenario" /\ request.op \in Portfolios
         /\ Window.error = "" /\ DOMAIN BaseWeights # {}
         /\ response.before = Report(BaseWeights) /\ response.after = Report(TargetWeights)
         /\ response.changes = Changes(BaseWeights, TargetWeights)
         /\ response.deltas = Deltas(Report(BaseWeights), Report(TargetWeights))
         /\ response.ignored = DOMAIN request.overrides \ Window.kept
<1>1. /\ request # NoRequest /\ request \in Requests /\ answer = Complete
      /\ request.op = "scenario" /\ response = ScenarioResponse /\ response.error = ""
  BY AnsweredOf DEF Reweighed
<1>2. ScenarioResponse =
        IF Window.error # "" THEN NoResponse
        ELSE IF DOMAIN BaseWeights = {} \/ OverridesError(Overriding) # ""
                \/ DOMAIN TargetWeights = {}
        THEN NoResponse
        ELSE [error   |-> "",
              before  |-> Report(BaseWeights),
              after   |-> Report(TargetWeights),
              changes |-> Changes(BaseWeights, TargetWeights),
              deltas  |-> Deltas(Report(BaseWeights), Report(TargetWeights)),
              ignored |-> DOMAIN request.overrides \ Window.kept]
  BY DEF ScenarioResponse, BaseWeights, Overriding, TargetWeights
<1>3. Window.error = "" /\ DOMAIN BaseWeights # {}
  BY <1>1, <1>2, NoAnswer
<1>4. ~(DOMAIN BaseWeights = {} \/ OverridesError(Overriding) # "" \/ DOMAIN TargetWeights = {})
  BY <1>1, <1>2, NoAnswer
<1>5. /\ response.before = Report(BaseWeights) /\ response.after = Report(TargetWeights)
      /\ response.changes = Changes(BaseWeights, TargetWeights)
      /\ response.deltas = Deltas(Report(BaseWeights), Report(TargetWeights))
      /\ response.ignored = DOMAIN request.overrides \ Window.kept
  BY <1>1, <1>2, <1>3, <1>4
<1>. QED
  BY <1>1, <1>3, <1>5 DEF Portfolios

\* The weights of the scenario that was answered.
LEMMA ScenarioWeights ==
  ASSUME KeptInv, NEW response \in Reweighed
  PROVE  /\ DOMAIN BaseWeights = SymbolsOf(request.holdings) \cap Window.kept
         /\ Weighs(BaseWeights) /\ IsFiniteSet(DOMAIN BaseWeights)
         /\ DOMAIN Overriding = DOMAIN request.overrides \cap Window.kept
         /\ \A symbol \in DOMAIN Overriding :
              /\ Overriding[symbol] = request.overrides[symbol]
              /\ request.overrides[symbol] \in Int /\ request.overrides[symbol] >= 0
         /\ DOMAIN TargetWeights
              = (DOMAIN BaseWeights \ DOMAIN Overriding)
                  \cup {symbol \in DOMAIN Overriding : Overriding[symbol] > 0}
         /\ Weighs(TargetWeights)
         /\ \A symbol \in DOMAIN BaseWeights \ DOMAIN Overriding :
              TargetWeights[symbol] = 10 * BaseWeights[symbol]
         /\ \A symbol \in DOMAIN Overriding : Overriding[symbol] > 0 =>
              TargetWeights[symbol] = Overriding[symbol] * Whole(BaseWeights)
<1>1. DOMAIN BaseWeights = SymbolsOf(request.holdings) \cap Window.kept /\ Weighs(BaseWeights)
  BY ReweighedIs, Valued DEF BaseWeights
<1>2. IsFiniteSet(DOMAIN BaseWeights)
  BY <1>1, ReweighedIs, ReportIs
<1>3. /\ DOMAIN Overriding = DOMAIN request.overrides \cap Window.kept
      /\ \A symbol \in DOMAIN Overriding : Overriding[symbol] = request.overrides[symbol]
  BY DEF Overriding
<1>4. \A symbol \in DOMAIN request.overrides :
        request.overrides[symbol] \in Int /\ request.overrides[symbol] >= 0
  <2>1. Refusal(request) = ""
    BY AnsweredOf DEF Reweighed
  <2>. QED
    BY <2>1, ReweighedIs, Validated
<1>5. /\ DOMAIN Overriding \subseteq Window.kept
      /\ \A symbol \in DOMAIN Overriding : Overriding[symbol] \in Int /\ Overriding[symbol] >= 0
  BY <1>3, <1>4
<1>6. DOMAIN BaseWeights # {}
  BY ReweighedIs
<1>7. /\ DOMAIN TargetWeights
           = (DOMAIN BaseWeights \ DOMAIN Overriding)
               \cup {symbol \in DOMAIN Overriding : Overriding[symbol] > 0}
      /\ Weighs(TargetWeights)
      /\ \A symbol \in DOMAIN BaseWeights \ DOMAIN Overriding :
           TargetWeights[symbol] = 10 * BaseWeights[symbol]
      /\ \A symbol \in DOMAIN Overriding : Overriding[symbol] > 0 =>
           TargetWeights[symbol] = Overriding[symbol] * Whole(BaseWeights)
  BY <1>1, <1>2, <1>5, <1>6, TargetIs DEF TargetWeights
<1>. QED
  BY <1>1, <1>2, <1>3, <1>4, <1>7

\* Every holding is either weighed or named as dropped; what is weighed traded on
\* nearly every session and on all that were measured, and the sectors add up to
\* the whole.
THEOREM NothingUnsaid == Spec => []KeptIsReported
<1>1. ASSUME KeptInv, NEW response \in Assessed
      PROVE  /\ Reported(response.report, SymbolsOf(request.holdings))
             /\ SymbolsOf(request.holdings)
                  = DOMAIN response.report.weights \cup DOMAIN response.report.dropped
  <2>1. /\ request # NoRequest /\ answer = Complete /\ request.op \in Portfolios
        /\ request.op = "risk" /\ Window.error = "" /\ response.report = Report(BaseWeights)
    BY <1>1, AssessedIs
  <2>2. Held(request) = SymbolsOf(request.holdings)
    BY <2>1 DEF Held
  <2>3. DOMAIN BaseWeights = SymbolsOf(request.holdings) \cap Window.kept /\ Weighs(BaseWeights)
    BY <1>1, <2>1, Valued DEF BaseWeights
  <2>4. /\ Report(BaseWeights).weights = BaseWeights
        /\ Report(BaseWeights).dropped = Window.dropped
        /\ Reported(Report(BaseWeights), Held(request))
    BY <1>1, <2>1, <2>3, ReportIs
  <2>5. /\ Window.kept \subseteq Held(request)
        /\ DOMAIN Window.dropped = Held(request) \ Window.kept
    BY <1>1, <2>1, WindowIs
  <2>. QED
    BY <2>1, <2>2, <2>3, <2>4, <2>5
<1>2. ASSUME KeptInv, NEW response \in Reweighed
      PROVE  LET symbols == SymbolsOf(request.holdings) \cup DOMAIN request.overrides
             IN /\ Reported(response.before, symbols)
                /\ Reported(response.after, symbols)
                /\ symbols \cap DOMAIN response.before.dropped = DOMAIN response.after.dropped
                /\ response.ignored = DOMAIN request.overrides \cap DOMAIN response.before.dropped
                /\ SymbolsOf(request.holdings)
                     \subseteq DOMAIN response.before.weights \cup DOMAIN response.before.dropped
  <2>1. /\ request # NoRequest /\ answer = Complete /\ request.op \in Portfolios
        /\ request.op = "scenario" /\ Window.error = ""
        /\ response.before = Report(BaseWeights) /\ response.after = Report(TargetWeights)
        /\ response.ignored = DOMAIN request.overrides \ Window.kept
    BY <1>2, ReweighedIs
  <2>2. Held(request) = SymbolsOf(request.holdings) \cup DOMAIN request.overrides
    BY <2>1 DEF Held
  <2>3. /\ DOMAIN BaseWeights = SymbolsOf(request.holdings) \cap Window.kept
        /\ Weighs(BaseWeights) /\ Weighs(TargetWeights)
    BY <1>2, ScenarioWeights
  <2>4. /\ Report(BaseWeights).weights = BaseWeights
        /\ Report(BaseWeights).dropped = Window.dropped
        /\ Reported(Report(BaseWeights), Held(request))
    BY <1>2, <2>1, <2>3, ReportIs
  <2>5. /\ Report(TargetWeights).dropped = Window.dropped
        /\ Reported(Report(TargetWeights), Held(request))
    BY <1>2, <2>1, <2>3, ReportIs
  <2>6. /\ Window.kept \subseteq Held(request)
        /\ DOMAIN Window.dropped = Held(request) \ Window.kept
    BY <1>2, <2>1, WindowIs
  <2>. QED
    BY <2>1, <2>2, <2>3, <2>4, <2>5, <2>6
<1>3. KeptInv => KeptIsReported
  BY <1>1, <1>2 DEF KeptIsReported
<1>. QED
  BY <1>3, Invariance, PTL

\* A scenario moves only what it was told to move, in the proportions it was told,
\* and says of each change and each difference what it is.
THEOREM OnlyOverriddenMoves == Spec => []ScenarioProportional
<1>1. ASSUME KeptInv, NEW response \in Reweighed
      PROVE  LET before == response.before.weights
                 after  == response.after.weights
                 moved  == DOMAIN request.overrides \ response.ignored
                 stays  == DOMAIN before \ moved
             IN /\ DOMAIN after = stays \cup {symbol \in moved : request.overrides[symbol] > 0}
                /\ \A x, y \in stays : after[x] * before[y] = after[y] * before[x]
                /\ \A x \in moved, y \in stays : request.overrides[x] > 0 =>
                     10 * after[x] * before[y] = request.overrides[x] * Whole(before) * after[y]
                /\ \A x \in DOMAIN response.changes :
                     /\ response.changes[x] = "added" <=> x \in moved \ DOMAIN before
                     /\ response.changes[x] = "removed" <=> x \in DOMAIN before \ DOMAIN after
                /\ \A metric \in DOMAIN response.deltas : response.deltas[metric] = None <=>
                     metric \in DOMAIN response.before.unavailable
                                  \cup DOMAIN response.after.unavailable
  <2>. DEFINE before == BaseWeights
              after == TargetWeights
              moved == DOMAIN Overriding
              stays == DOMAIN before \ moved
              overrides == request.overrides
  <2>1. /\ request # NoRequest /\ answer = Complete /\ request.op \in Portfolios
        /\ Window.error = "" /\ DOMAIN before # {}
        /\ response.before = Report(before) /\ response.after = Report(after)
        /\ response.changes = Changes(before, after)
        /\ response.deltas = Deltas(Report(before), Report(after))
        /\ response.ignored = DOMAIN overrides \ Window.kept
    BY <1>1, ReweighedIs
  <2>2. /\ Weighs(before) /\ IsFiniteSet(DOMAIN before) /\ Weighs(after)
        /\ moved = DOMAIN overrides \cap Window.kept
        /\ \A symbol \in moved : /\ Overriding[symbol] = overrides[symbol]
                                 /\ overrides[symbol] \in Int /\ overrides[symbol] >= 0
        /\ DOMAIN after = stays \cup {symbol \in moved : Overriding[symbol] > 0}
        /\ \A symbol \in stays : after[symbol] = 10 * before[symbol]
        /\ \A symbol \in moved :
             Overriding[symbol] > 0 => after[symbol] = Overriding[symbol] * Whole(before)
    BY <1>1, ScenarioWeights
  <2>3. response.before.weights = before /\ response.after.weights = after
    BY <1>1, <2>1, <2>2, ReportIs
  <2>4. DOMAIN overrides \ response.ignored = moved
    BY <2>1, <2>2
  <2>5. Whole(before) \in Int /\ Whole(before) > 0
    BY <2>1, <2>2, WholeIsPositive
  <2>. DEFINE whole == Whole(before)
  <2>6. /\ \A symbol \in DOMAIN before : before[symbol] \in Int /\ before[symbol] > 0
        /\ \A symbol \in DOMAIN after : after[symbol] \in Int /\ after[symbol] > 0
    BY <2>2 DEF Weighs
  <2>7. DOMAIN after = stays \cup {symbol \in moved : overrides[symbol] > 0}
    BY <2>2
  <2>8. \A symbol \in moved : overrides[symbol] > 0 => after[symbol] = overrides[symbol] * whole
    BY <2>2
  <2>9. \A x, y \in stays : after[x] * before[y] = after[y] * before[x]
    <3>. HIDE DEF before, after, moved
    <3>. QED
      BY <2>2, <2>6, Products
  <2>10. ASSUME NEW x \in moved, NEW y \in stays, overrides[x] > 0
         PROVE  10 * after[x] * before[y] = overrides[x] * whole * after[y]
    <3>1. /\ overrides[x] \in Int /\ before[y] \in Int /\ whole \in Int
          /\ after[y] = 10 * before[y] /\ after[x] = overrides[x] * whole
      BY <2>2, <2>5, <2>6, <2>8, <2>10
    <3>. HIDE DEF before, after, moved, overrides, whole
    <3>. QED
      BY <3>1, Products
  <2>11. ASSUME NEW x \in DOMAIN response.changes
         PROVE  /\ response.changes[x] = "added" <=> x \in moved \ DOMAIN before
                /\ response.changes[x] = "removed" <=> x \in DOMAIN before \ DOMAIN after
    <3>. DEFINE share(weights) == IF x \in DOMAIN weights THEN weights[x] ELSE 0
    <3>1. /\ x \in DOMAIN before \cup DOMAIN after
          /\ response.changes[x] = IF share(before) = 0 THEN "added"
                                   ELSE IF share(after) = 0 THEN "removed" ELSE "reweighted"
      BY <2>1 DEF Changes
    <3>2. /\ share(before) = 0 <=> x \notin DOMAIN before
          /\ share(after) = 0 <=> x \notin DOMAIN after
      BY <2>6, Products
    <3>. HIDE DEF share, before, after, moved
    <3>. QED
      BY <2>7, <3>1, <3>2
  <2>12. ASSUME NEW metric \in DOMAIN response.deltas
         PROVE  response.deltas[metric] = None <=>
                  metric \in DOMAIN response.before.unavailable
                               \cup DOMAIN response.after.unavailable
    <3>. DEFINE b == Report(before)
                a == Report(after)
    <3>1. /\ DOMAIN response.deltas = DOMAIN b.values
          /\ response.deltas[metric]
               = DefinedIf(b.values[metric] # None /\ a.values[metric] # None)
      BY <2>1 DEF Deltas
    <3>2. /\ DOMAIN b.unavailable = {name \in DOMAIN b.values : b.values[name] = None}
          /\ DOMAIN a.unavailable = {name \in DOMAIN a.values : a.values[name] = None}
      BY DEF Report, Analyze
    <3>3. DOMAIN a.values = DOMAIN b.values
      BY DEF Report, Analyze, RiskValues
    <3>. HIDE DEF a, b, before, after
    <3>4. \A condition \in BOOLEAN : DefinedIf(condition) = None <=> ~condition
      BY OneAssumption DEF DefinedIf
    <3>5. response.deltas[metric] = None <=> ~(b.values[metric] # None /\ a.values[metric] # None)
      BY <3>1, <3>4
    <3>6. response.before = b /\ response.after = a
      BY <2>1 DEF a, b
    <3>. QED
      BY <3>1, <3>2, <3>3, <3>5, <3>6
  <2>. QED
    BY <2>3, <2>4, <2>7, <2>9, <2>10, <2>11, <2>12
<1>2. KeptInv => ScenarioProportional
  BY <1>1 DEF ScenarioProportional
<1>. QED
  BY <1>2, Invariance, PTL

-----------------------------------------------------------------------------
(* The metrics of a run. *)

\* A curve on which every return and every drawdown can be formed.
Standing(equity) ==
  /\ equity \in Seq(Int)
  /\ \A i \in 1..Len(equity) : i = 1 \/ i < Len(equity) => equity[i] > 0

LEMMA Quotients ==
  /\ \A a, b \in Int : b > 0 => a \div b \in Int
  /\ \A a, b \in Int : a * b \in Int /\ a - b \in Int /\ a + b \in Int
  /\ \A a \in Int : a < 0 => -a \in Int /\ -a > 0
  /\ \A a, b \in Int : ~(a < b) => a >= b
  /\ \A a, b \in Int : a <= b <=> b >= a
  /\ \A a \in Nat : a # 0 => a > 0
  /\ \A a \in Nat : a \in Int
  /\ \A a \in Nat \ {0} : a \in Int /\ a > 0
OBVIOUS

LEMMA PeakIs ==
  ASSUME NEW equity, Standing(equity), NEW i \in 1..Len(equity)
  PROVE  Peak(equity, i) \in Int /\ Peak(equity, i) > 0
<1>. DEFINE n == Len(equity)
            T == 1..i
            levels == {equity[j] : j \in T}
<1>1. n \in Nat /\ \A j \in 1..n : equity[j] \in Int
  BY LenProperties, ElementOfSeq DEF Standing
<1>2. i \in Nat /\ 1 \in T /\ 1 \in 1..n /\ T \subseteq 1..n
  BY <1>1
<1>3. IsFiniteSet(T)
  BY <1>2, FirstNumbers
<1>4. equity[1] > 0 /\ equity[1] \in Int
  BY <1>1, <1>2 DEF Standing
<1>. HIDE DEF n, T
<1>5. IsFiniteSet(levels)
  <2>. DEFINE f == [j \in T |-> equity[j]]
  <2>1. f \in Surjection(T, levels)
    BY DEF Surjection
  <2>. HIDE DEF f, levels
  <2>. QED
    BY <1>3, <2>1, FS_Surjection
<1>6. levels \subseteq Int /\ equity[1] \in levels
  BY <1>1, <1>2
<1>. HIDE DEF levels
<1>7. Max(levels) \in levels /\ \A j \in levels : j <= Max(levels)
  BY <1>5, <1>6, Greatest
<1>8. Max(levels) \in Int /\ equity[1] <= Max(levels)
  BY <1>6, <1>7
<1>9. \A a, b \in Int : a > 0 /\ a <= b => b > 0
  OBVIOUS
<1>10. Max(levels) > 0
  BY <1>4, <1>8, <1>9
<1>. QED
  BY <1>8, <1>10 DEF Peak, levels, T

LEMMA DrawdownIs ==
  ASSUME NEW equity, Standing(equity)
  PROVE  MaxDrawdown(equity) \in Int
<1>. DEFINE n == Len(equity)
            T == 1..n
            falls == {Drawdown(equity, i) : i \in T}
<1>1. n \in Nat /\ DOMAIN equity = T /\ \A j \in T : equity[j] \in Int
  BY LenProperties, ElementOfSeq DEF Standing
<1>2. IsFiniteSet(T)
  BY <1>1, FirstNumbers
<1>3. \A i \in T : Peak(equity, i) \in Int /\ Peak(equity, i) > 0
  BY PeakIs
<1>. HIDE DEF n, T
<1>4. \A i \in T : Drawdown(equity, i) \in Int
  BY <1>1, <1>3, OneAssumption, Quotients DEF Drawdown
<1>5. IsFiniteSet(falls)
  <2>. DEFINE f == [i \in T |-> Drawdown(equity, i)]
  <2>1. f \in Surjection(T, falls)
    BY DEF Surjection
  <2>. HIDE DEF f, falls
  <2>. QED
    BY <1>2, <2>1, FS_Surjection
<1>6. falls \subseteq Int
  BY <1>4
<1>7. equity # <<>> => falls # {}
  <2>. SUFFICES ASSUME equity # <<>> PROVE T # {}
    OBVIOUS
  <2>1. n # 0
    BY EmptySeq DEF n, Standing
  <2>. QED
    BY <1>1, <2>1 DEF T
<1>8. equity # <<>> => MaxDrawdown(equity) = Min(falls)
  BY <1>1 DEF MaxDrawdown
<1>9. equity = <<>> => MaxDrawdown(equity) = 0
  BY DEF MaxDrawdown
<1>. HIDE DEF falls
<1>10. equity # <<>> => Min(falls) \in Int
  BY <1>5, <1>6, <1>7, Least
<1>. QED
  BY <1>8, <1>9, <1>10

LEMMA DurationIs ==
  ASSUME NEW equity, Standing(equity)
  PROVE  MaxDrawdownDuration(equity) \in Int
<1>. DEFINE T == DOMAIN equity
            spans == {span \in T \X T : \A i \in span[1]..span[2] : equity[i] < Peak(equity, i)}
            lengths == {run[2] - run[1] + 1 : run \in spans}
            all == {0} \cup lengths
<1>1. T = 1..Len(equity) /\ Len(equity) \in Nat
  BY LenProperties DEF Standing
<1>2. IsFiniteSet(T)
  BY <1>1, FirstNumbers
<1>3. \A i \in T : i \in Int
  BY <1>1
<1>. HIDE DEF T
<1>4. IsFiniteSet(T \X T) /\ spans \in SUBSET (T \X T)
  BY <1>2, FS_Product
<1>5. IsFiniteSet(spans)
  <2>. HIDE DEF spans
  <2>. QED
    BY <1>4, FS_Subset
<1>6. \A run \in spans : run[2] - run[1] + 1 \in Int
  <2>. TAKE run \in spans
  <2>1. run[1] \in Int /\ run[2] \in Int
    BY <1>3, <1>4
  <2>. QED
    BY <2>1
<1>. HIDE DEF spans
<1>7. IsFiniteSet(lengths)
  <2>. DEFINE f == [run \in spans |-> run[2] - run[1] + 1]
  <2>1. f \in Surjection(spans, lengths)
    BY DEF Surjection
  <2>. HIDE DEF f, lengths
  <2>. QED
    BY <1>5, <2>1, FS_Surjection
<1>8. lengths \subseteq Int
  BY <1>6
<1>. HIDE DEF lengths
<1>9. IsFiniteSet(all) /\ all \subseteq Int /\ all # {}
  BY <1>7, <1>8, FS_AddElement
<1>. HIDE DEF all
<1>10. Max(all) \in Int
  BY <1>9, Greatest
<1>. QED
  BY <1>10 DEF MaxDrawdownDuration, all, lengths, spans, T

\* The trades that are counted, and their sums.
LEMMA TradesAre ==
  ASSUME NEW trades \in Seq(Int), NEW which \in SUBSET DOMAIN trades
  PROVE  /\ IsFiniteSet(which) /\ Cardinality(which) \in Nat
         /\ which # {} => Cardinality(which) # 0
         /\ Total(trades, which) \in Int
         /\ which # {} /\ (\A i \in which : trades[i] < 0) => Total(trades, which) < 0
<1>1. DOMAIN trades = 1..Len(trades) /\ Len(trades) \in Nat
  BY LenProperties
<1>2. \A i \in which : trades[i] \in Int
  BY <1>1, ElementOfSeq
<1>3. IsFiniteSet(which)
  BY <1>1, FirstNumbers, FS_Subset
<1>4. Total(trades, which) = SumOver(trades, which)
  BY DEF Total, SumOver
<1>5. SumOver(trades, which) \in Int
  BY <1>2, <1>3, SumInt
<1>6. which # {} /\ (\A i \in which : trades[i] < 0) => SumOver(trades, which) < 0
  BY <1>2, <1>3, SumNegative
<1>. QED
  BY <1>3, <1>4, <1>5, <1>6, FS_CardinalityType, FS_EmptySet

LEMMA SequenceOf ==
  ASSUME NEW n \in Nat, NEW S, NEW f \in [1..n -> S]
  PROVE  f \in Seq(S) /\ Len(f) = n
<1>1. f \in Seq(S)
  BY SeqDef
<1>. QED
  BY <1>1, LenProperties

\* The growth of a curve has one return less than the curve has bars.
LEMMA GrowthIs ==
  ASSUME NEW equity, Standing(equity)
  PROVE  /\ Len(Growth(equity)) \in Nat
         /\ Len(Growth(equity)) < 2 <=> Len(equity) < 3
         /\ DOMAIN Growth(equity) = 1..(Len(equity) - 1)
         /\ \A i \in DOMAIN Growth(equity) : Growth(equity)[i] \in Int
<1>. DEFINE n == Len(equity)
            growth == Growth(equity)
<1>1. n \in Nat /\ \A i \in 1..n : equity[i] \in Int
  BY LenProperties, ElementOfSeq DEF Standing
<1>. HIDE DEF n
<1>2. DOMAIN growth = 1..(n - 1)
  BY DEF Growth, n
<1>3. ASSUME NEW i \in 1..(n - 1) PROVE growth[i] \in Int
  <2>1. i \in 1..n /\ i + 1 \in 1..n /\ i < n
    BY <1>1
  <2>2. equity[i] \in Int /\ equity[i] > 0 /\ equity[i + 1] \in Int
    BY <1>1, <2>1 DEF Standing, n
  <2>3. (equity[i + 1] * One) \div equity[i] \in Int
    BY <2>2, OneAssumption, Quotients
  <2>4. growth[i] = (equity[i + 1] * One) \div equity[i]
    BY <1>3 DEF Growth, n
  <2>. QED
    BY <2>3, <2>4
<1>4. n # 0 => n - 1 \in Nat /\ Len(growth) = n - 1
  <2>1. n # 0 => n - 1 \in Nat
    BY <1>1
  <2>2. growth = [i \in 1..(n - 1) |-> growth[i]]
    BY DEF Growth, n
  <2>. HIDE DEF growth
  <2>3. ASSUME n # 0 PROVE n - 1 \in Nat /\ Len(growth) = n - 1
    <3>1. growth \in [1..(n - 1) -> Int]
      BY <1>3, <2>2
    <3>2. growth \in Seq(Int) /\ Len(growth) = n - 1
      BY <2>1, <2>3, <3>1, SequenceOf
    <3>. QED
      BY <2>1, <2>3, <3>2
  <2>. QED
    BY <2>3
<1>5. n = 0 => Len(growth) = 0
  <2>1. n = 0 => growth = <<>>
    BY DEF Growth, n
  <2>. HIDE DEF growth
  <2>. QED
    BY <2>1, Nothing
<1>. HIDE DEF growth
<1>6. Len(growth) \in Nat /\ (Len(growth) < 2 <=> n < 3)
  BY <1>1, <1>4, <1>5
<1>. QED
  BY <1>2, <1>3, <1>6 DEF growth, n

\* The reason each metric is given.
LEMMA Reasons ==
  ASSUME NEW equity, NEW trades, NEW metric
  PROVE  /\ metric = "annualized_volatility" => Reason(metric, equity, trades) = "too few returns"
         /\ metric \in {"sharpe", "sortino"} /\ Len(equity) < 3 => Reason(metric, equity, trades) = "too few returns"
         /\ metric = "sharpe" /\ ~(Len(equity) < 3) => Reason(metric, equity, trades) = "no variance"
         /\ metric = "sortino" /\ ~(Len(equity) < 3) => Reason(metric, equity, trades) = "no downside"
         /\ metric = "cagr" => Reason(metric, equity, trades) = "too few bars or no equity left"
         /\ metric = "calmar" => Reason(metric, equity, trades) = "no cagr or no drawdown"
         /\ metric = "turnover" => Reason(metric, equity, trades) = "one bar or no average equity"
         /\ metric = "win_rate" => Reason(metric, equity, trades) = "no trades"
         /\ metric = "profit_factor" /\ trades = <<>> => Reason(metric, equity, trades) = "no trades"
         /\ metric = "profit_factor" /\ trades # <<>> => Reason(metric, equity, trades) = "no losing trades"
         /\ metric = "average_loss" => Reason(metric, equity, trades) = "no losing trades"
         /\ metric = "average_win" => Reason(metric, equity, trades) = "no winning trades"
BY DEF Reason, RatioReason

\* The values that are always there, and when the others are missing.
LEMMA ValuesAre ==
  ASSUME NEW equity, Standing(equity), NEW trades \in Seq(Int), NEW costs \in Int,
         NEW riskFree \in Int, NEW values,
         values = MetricValues(equity, trades, InitialCash, costs, riskFree)
  PROVE  /\ DOMAIN values =
              {"total_return", "cagr", "annualized_volatility", "sharpe", "sortino",
               "max_drawdown", "max_drawdown_duration", "calmar", "win_rate", "profit_factor",
               "trade_count", "winning_trades", "losing_trades", "average_win", "average_loss",
               "turnover", "total_costs", "cost_drag", "final_equity"}
         /\ \A metric \in {"total_return", "max_drawdown", "max_drawdown_duration",
                           "trade_count", "winning_trades", "losing_trades", "total_costs",
                           "cost_drag", "final_equity"} : values[metric] \in Int
         /\ values.annualized_volatility = None => Len(equity) < 3
         /\ values.sharpe = None => Len(equity) < 3 \/ ~HasVariance(Growth(equity))
         /\ values.sortino = None =>
              Len(equity) < 3 \/ ~HasDownside(Growth(equity), riskFree)
         /\ values.win_rate = None => trades = <<>>
         /\ values.win_rate # None => values.win_rate \in Int
         /\ values.profit_factor = None \/ values.average_loss = None => Losses(trades) = {}
         /\ values.average_win = None => Wins(trades) = {}
<1>. DEFINE n == Len(equity)
            final == IF equity = <<>> THEN InitialCash ELSE equity[n]
<1>1. /\ Wins(trades) \in SUBSET DOMAIN trades
      /\ Losses(trades) \in SUBSET DOMAIN trades
      /\ \A i \in Losses(trades) : trades[i] < 0
  BY DEF Wins, Losses
<1>2. /\ Cardinality(Wins(trades)) \in Nat /\ Cardinality(Losses(trades)) \in Nat
      /\ Total(trades, Wins(trades)) \in Int /\ Total(trades, Losses(trades)) \in Int
      /\ Wins(trades) # {} => Cardinality(Wins(trades)) # 0
      /\ Losses(trades) # {} => Cardinality(Losses(trades)) # 0
                                /\ Total(trades, Losses(trades)) < 0
  BY <1>1, TradesAre
<1>3. InitialCash \in Int /\ InitialCash > 0 /\ One \in Int
  BY CashAssumption, OneAssumption, Quotients
<1>4. Len(trades) \in Nat /\ (trades # <<>> => Len(trades) # 0)
  BY LenProperties, EmptySeq
<1>5. n \in Nat
  BY LenProperties DEF Standing
<1>6. final \in Int
  <2>1. CASE equity = <<>>
    BY <1>3, <2>1
  <2>2. CASE equity # <<>>
    <3>1. n # 0
      BY <2>2, EmptySeq DEF Standing
    <3>. HIDE DEF n
    <3>2. n \in 1..n
      BY <1>5, <3>1
    <3>3. equity[n] \in Int
      BY <3>2, ElementOfSeq DEF Standing, n
    <3>. QED
      BY <2>2, <3>3
  <2>. QED
    BY <2>1, <2>2
<1>7. /\ (final * One) \div InitialCash - One \in Int
      /\ (costs * One) \div InitialCash \in Int
  <2>. HIDE DEF final
  <2>. QED
    BY <1>3, <1>6, Quotients
<1>8. /\ Losses(trades) # {} => ProfitFactor(trades) \in Int /\ Mean(trades, Losses(trades)) \in Int
      /\ Wins(trades) # {} => Mean(trades, Wins(trades)) \in Int
      /\ trades # <<>> => (Cardinality(Wins(trades)) * One) \div Len(trades) \in Int
  <2>1. Losses(trades) # {} => ProfitFactor(trades) \in Int
    <3>. SUFFICES ASSUME Losses(trades) # {} PROVE ProfitFactor(trades) \in Int
      OBVIOUS
    <3>1. -Total(trades, Losses(trades)) \in Int /\ -Total(trades, Losses(trades)) > 0
      BY <1>2, Quotients
    <3>2. Total(trades, Wins(trades)) * One \in Int
      BY <1>2, <1>3, Quotients
    <3>3. (Total(trades, Wins(trades)) * One) \div (-Total(trades, Losses(trades))) \in Int
      BY <3>1, <3>2, Quotients
    <3>. QED
      BY <3>3 DEF ProfitFactor
  <2>2. ASSUME NEW which, which # {}, Cardinality(which) \in Nat, Cardinality(which) # 0,
               Total(trades, which) \in Int
        PROVE  Mean(trades, which) \in Int
    <3>1. Cardinality(which) \in Int /\ Cardinality(which) > 0
      BY <2>2, Quotients
    <3>2. Total(trades, which) * One \in Int
      BY <1>3, <2>2, Quotients
    <3>3. (Total(trades, which) * One) \div Cardinality(which) \in Int
      BY <3>1, <3>2, Quotients
    <3>. QED
      BY <2>2, <3>3 DEF Mean
  <2>3. trades # <<>> => (Cardinality(Wins(trades)) * One) \div Len(trades) \in Int
    <3>1. Cardinality(Wins(trades)) * One \in Int
      BY <1>2, <1>3, Quotients
    <3>. QED
      BY <1>4, <3>1, Quotients
  <2>. QED
    BY <1>2, <2>1, <2>2, <2>3
<1>9. MaxDrawdown(equity) \in Int /\ MaxDrawdownDuration(equity) \in Int
  BY DrawdownIs, DurationIs
<1>10. Len(trades) \in Int /\ Cardinality(Wins(trades)) \in Int /\ Cardinality(Losses(trades)) \in Int
  BY <1>2, <1>4, Quotients
<1>11. None \notin Int /\ Defined # None
  BY OneAssumption
<1>12. Len(Growth(equity)) < 2 <=> n < 3
  BY GrowthIs
<1>13. Len(Growth(equity)) \in Nat
  BY GrowthIs
<1>14. ~(Len(Growth(equity)) >= 2) => n < 3
  <2>1. \A k \in Nat : ~(k >= 2) => k < 2
    OBVIOUS
  <2>. QED
    BY <1>12, <1>13, <2>1
<1>. HIDE DEF final, n
<1>15. /\ values.total_return = (final * One) \div InitialCash - One
       /\ values.max_drawdown = MaxDrawdown(equity)
       /\ values.max_drawdown_duration = MaxDrawdownDuration(equity)
       /\ values.trade_count = Len(trades)
       /\ values.winning_trades = Cardinality(Wins(trades))
       /\ values.losing_trades = Cardinality(Losses(trades))
       /\ values.total_costs = costs
       /\ values.cost_drag = (costs * One) \div InitialCash
       /\ values.final_equity = final
       /\ values.win_rate = IF trades = <<>> THEN None
                            ELSE (Cardinality(Wins(trades)) * One) \div Len(trades)
       /\ values.profit_factor = ProfitFactor(trades)
       /\ values.average_win = Mean(trades, Wins(trades))
       /\ values.average_loss = Mean(trades, Losses(trades))
  BY DEF MetricValues, final, n
<1>16. /\ values.annualized_volatility = DefinedIf(Len(Growth(equity)) >= 2)
       /\ values.sharpe = DefinedIf(Len(Growth(equity)) >= 2 /\ HasVariance(Growth(equity)))
       /\ values.sortino
            = DefinedIf(Len(Growth(equity)) >= 2 /\ HasDownside(Growth(equity), riskFree))
  BY DEF MetricValues
<1>17. DOMAIN values =
         {"total_return", "cagr", "annualized_volatility", "sharpe", "sortino",
          "max_drawdown", "max_drawdown_duration", "calmar", "win_rate", "profit_factor",
          "trade_count", "winning_trades", "losing_trades", "average_win", "average_loss",
          "turnover", "total_costs", "cost_drag", "final_equity"}
  BY DEF MetricValues
<1>18. /\ values.annualized_volatility = None => n < 3
       /\ values.sharpe = None => n < 3 \/ ~HasVariance(Growth(equity))
       /\ values.sortino = None => n < 3 \/ ~HasDownside(Growth(equity), riskFree)
  BY <1>11, <1>14, <1>16 DEF DefinedIf
<1>19. /\ values.win_rate = None => trades = <<>>
       /\ values.win_rate # None => values.win_rate \in Int
       /\ values.profit_factor = None \/ values.average_loss = None => Losses(trades) = {}
       /\ values.average_win = None => Wins(trades) = {}
  BY <1>8, <1>11, <1>15
<1>20. /\ values.total_return \in Int /\ values.max_drawdown \in Int
       /\ values.max_drawdown_duration \in Int /\ values.trade_count \in Int
       /\ values.winning_trades \in Int /\ values.losing_trades \in Int
       /\ values.total_costs \in Int /\ values.cost_drag \in Int /\ values.final_equity \in Int
  BY <1>6, <1>7, <1>9, <1>10, <1>15
<1>. QED
  BY <1>17, <1>18, <1>19, <1>20 DEF n

\* The reason of a metric without a value is true of the run.
LEMMA ReasonIsTrue ==
  ASSUME NEW equity, Standing(equity), NEW trades \in Seq(Int), NEW costs \in Int,
         request.riskFree \in Int,
         NEW metrics,
         metrics = Compute(equity, trades, InitialCash, costs, request.riskFree),
         NEW metric \in DOMAIN metrics.values
  PROVE  /\ metric \in DOMAIN metrics.unavailable <=> metrics.values[metric] = None
         /\ metric \in DOMAIN metrics.unavailable =>
              TrueOf(metrics.unavailable[metric], Growth(equity), trades)
<1>. DEFINE values == metrics.values
            growth == Growth(equity)
<1>1. values = MetricValues(equity, trades, InitialCash, costs, request.riskFree)
  BY DEF Compute
<1>2. metrics.unavailable
        = [name \in {x \in DOMAIN values : values[x] = None} |-> Reason(name, equity, trades)]
  BY DEF Compute
<1>. HIDE DEF values, growth
<1>3. /\ DOMAIN values =
           {"total_return", "cagr", "annualized_volatility", "sharpe", "sortino",
            "max_drawdown", "max_drawdown_duration", "calmar", "win_rate", "profit_factor",
            "trade_count", "winning_trades", "losing_trades", "average_win", "average_loss",
            "turnover", "total_costs", "cost_drag", "final_equity"}
      /\ \A name \in {"total_return", "max_drawdown", "max_drawdown_duration",
                      "trade_count", "winning_trades", "losing_trades", "total_costs",
                      "cost_drag", "final_equity"} : values[name] \in Int
      /\ values.annualized_volatility = None => Len(equity) < 3
      /\ values.sharpe = None => Len(equity) < 3 \/ ~HasVariance(growth)
      /\ values.sortino = None =>
           Len(equity) < 3 \/ ~HasDownside(growth, request.riskFree)
      /\ values.win_rate = None => trades = <<>>
      /\ values.profit_factor = None \/ values.average_loss = None => Losses(trades) = {}
      /\ values.average_win = None => Wins(trades) = {}
  BY <1>1, ValuesAre DEF growth
<1>4. None \notin Int
  BY OneAssumption
<1>5. \A i \in DOMAIN trades : trades[i] \in Int
  BY LenProperties, ElementOfSeq
<1>6. /\ Losses(trades) = {} => \A i \in DOMAIN trades : trades[i] >= 0
      /\ Wins(trades) = {} => \A i \in DOMAIN trades : trades[i] <= 0
  BY <1>5 DEF Losses, Wins
<1>7. /\ Len(growth) < 2 <=> Len(equity) < 3
      /\ ~(Len(equity) < 3) => Len(growth) >= 2
  <2>1. Len(growth) \in Nat /\ (Len(growth) < 2 <=> Len(equity) < 3)
    BY GrowthIs DEF growth
  <2>2. \A k \in Nat : ~(k < 2) => k >= 2
    OBVIOUS
  <2>. QED
    BY <2>1, <2>2
<1>8. ~HasDownside(growth, request.riskFree) =>
        \A i \in DOMAIN growth : growth[i] >= One + request.riskFree
  <2>1. \A i \in DOMAIN growth : growth[i] \in Int
    BY GrowthIs DEF growth
  <2>2. One + request.riskFree \in Int
    BY OneAssumption, Quotients
  <2>. DEFINE hurdle == One + request.riskFree
  <2>. HIDE DEF hurdle
  <2>3. \A i \in DOMAIN growth : ~(growth[i] < hurdle) => growth[i] >= hurdle
    BY <2>1, <2>2, Quotients DEF hurdle
  <2>. QED
    BY <2>3 DEF HasDownside, hurdle
<1>9. ASSUME values[metric] = None
      PROVE  TrueOf(Reason(metric, equity, trades), growth, trades)
  <2>. DEFINE reason == Reason(metric, equity, trades)
  <2>1. metric \in {"annualized_volatility", "sharpe", "sortino", "cagr", "calmar", "win_rate",
                    "profit_factor", "average_win", "average_loss", "turnover"}
    <3>1. metric \in DOMAIN values
      BY DEF values
    <3>. QED
      BY <1>3, <1>4, <1>9, <3>1
  <2>2. /\ metric = "annualized_volatility" => reason = "too few returns"
        /\ metric \in {"sharpe", "sortino"} /\ Len(equity) < 3 => reason = "too few returns"
        /\ metric = "sharpe" /\ ~(Len(equity) < 3) => reason = "no variance"
        /\ metric = "sortino" /\ ~(Len(equity) < 3) => reason = "no downside"
        /\ metric = "cagr" => reason = "too few bars or no equity left"
        /\ metric = "calmar" => reason = "no cagr or no drawdown"
        /\ metric = "turnover" => reason = "one bar or no average equity"
        /\ metric = "win_rate" => reason = "no trades"
        /\ metric = "profit_factor" /\ trades = <<>> => reason = "no trades"
        /\ metric = "profit_factor" /\ trades # <<>> => reason = "no losing trades"
        /\ metric = "average_loss" => reason = "no losing trades"
        /\ metric = "average_win" => reason = "no winning trades"
    BY Reasons
  <2>. SUFFICES TrueOf(reason, growth, trades)
    OBVIOUS
  <2>. HIDE DEF reason
  <2>3. CASE metric \in {"annualized_volatility", "sharpe", "sortino"}
    <3>1. CASE metric = "annualized_volatility" \/ Len(equity) < 3
      <4>1. reason = "too few returns" /\ Len(growth) < 2
        BY <1>3, <1>7, <1>9, <2>2, <2>3, <3>1
      <4>. QED
        BY <4>1 DEF TrueOf
    <3>2. CASE metric = "sharpe" /\ ~(Len(equity) < 3)
      <4>1. reason = "no variance" /\ Len(growth) >= 2 /\ ~HasVariance(growth)
        BY <1>3, <1>7, <1>9, <2>2, <3>2
      <4>. QED
        BY <4>1 DEF TrueOf
    <3>3. CASE metric = "sortino" /\ ~(Len(equity) < 3)
      <4>1. reason = "no downside" /\ Len(growth) >= 2 /\ ~HasDownside(growth, request.riskFree)
        BY <1>3, <1>7, <1>9, <2>2, <3>3
      <4>. QED
        BY <1>8, <4>1 DEF TrueOf
    <3>. QED
      BY <2>3, <3>1, <3>2, <3>3
  <2>4. CASE metric \in {"cagr", "calmar", "turnover"}
    BY <2>2, <2>4 DEF TrueOf
  <2>5. CASE metric \in {"win_rate", "profit_factor"}
    <3>1. \/ reason = "no trades" /\ trades = <<>>
          \/ reason = "no losing trades" /\ \A i \in DOMAIN trades : trades[i] >= 0
      BY <1>3, <1>6, <1>9, <2>2, <2>5
    <3>. QED
      BY <3>1 DEF TrueOf
  <2>6. CASE metric \in {"average_win", "average_loss"}
    <3>1. \/ reason = "no winning trades" /\ \A i \in DOMAIN trades : trades[i] <= 0
          \/ reason = "no losing trades" /\ \A i \in DOMAIN trades : trades[i] >= 0
      BY <1>3, <1>6, <1>9, <2>2, <2>6
    <3>. QED
      BY <3>1 DEF TrueOf
  <2>. QED
    BY <2>1, <2>3, <2>4, <2>5, <2>6
<1>10. metric \in DOMAIN metrics.unavailable <=> values[metric] = None
  BY <1>2 DEF values
<1>11. metric \in DOMAIN metrics.unavailable =>
         metrics.unavailable[metric] = Reason(metric, equity, trades)
  BY <1>2
<1>. QED
  BY <1>9, <1>10, <1>11 DEF values, growth

\* An answered comparison has an entry for each run, made of its outcome.
LEMMA ComparedIs ==
  ASSUME KeptInv, NEW response \in Compared
  PROVE  /\ request # NoRequest /\ request \in Requests /\ answer = Complete
         /\ request.op = "compare" /\ Refusal(request) = ""
         /\ response.entries = [i \in DOMAIN Runs |-> Entry(Runs[i])]
         /\ response.failures = Failures
         /\ response.table = MetricTable(response.entries)
<1>1. /\ request # NoRequest /\ request \in Requests /\ answer = Complete
      /\ request.op = "compare" /\ Refusal(request) = ""
      /\ response = CompareResponse /\ response.error = ""
  BY AnsweredOf DEF Compared
<1>2. Runs # <<>>
  BY <1>1, NoAnswer DEF CompareResponse
<1>. HIDE DEF Runs, Failures
<1>3. /\ response.entries = [i \in DOMAIN Runs |-> Entry(Runs[i])]
      /\ response.failures = Failures
      /\ response.table = MetricTable([i \in DOMAIN Runs |-> Entry(Runs[i])])
  BY <1>1, <1>2 DEF CompareResponse
<1>. QED
  BY <1>1, <1>3

\* The runs of an answer are attempts that came to an end, which was a sane one.
LEMMA RunsAre ==
  ASSUME KeptInv, NEW i \in DOMAIN Runs
  PROVE  Runs[i].error = "" /\ Sane(Runs[i].outcome)
<1>. DEFINE n == Len(attempts)
            ran == {j \in DOMAIN attempts : attempts[j].error = ""}
<1>1. n \in Nat /\ DOMAIN attempts = 1..n
  BY LenProperties DEF KeptInv, AttemptsInv
<1>2. ran \in SUBSET (1..n)
  BY <1>1
<1>3. \A j \in ran : attempts[j].error = "" /\ Sane(attempts[j].outcome)
  BY <1>1 DEF KeptInv, AttemptsInv, Tried
<1>4. Runs = Chosen(attempts, ran)
  BY DEF Runs
<1>. HIDE DEF n, ran
<1>5. DOMAIN Chosen(attempts, ran) = 1..Cardinality(ran)
  BY <1>1, <1>2, ChosenIs
<1>6. PICK at : Picks(at, attempts, ran)
  BY <1>1, <1>2, ChosenIs
<1>7. at[i] \in ran /\ Runs[i] = attempts[at[i]]
  BY <1>4, <1>5, <1>6 DEF Picks
<1>. QED
  BY <1>3, <1>7

\* A metric without a value has a reason, and the reason is true of the run.
THEOREM ReasonsAreTrue == Spec => []UnavailableExplained
<1>1. ASSUME KeptInv, NEW response \in Compared, NEW i \in DOMAIN Runs,
             NEW metric \in DOMAIN response.entries[i].metrics.values
      PROVE  /\ metric \in DOMAIN response.entries[i].metrics.unavailable
                  <=> response.entries[i].metrics.values[metric] = None
             /\ metric \in DOMAIN response.entries[i].metrics.unavailable =>
                  TrueOf(response.entries[i].metrics.unavailable[metric],
                         Growth(Runs[i].outcome.equity), Runs[i].outcome.trades)
  <2>. DEFINE equity == Runs[i].outcome.equity
              trades == Runs[i].outcome.trades
              costs == Runs[i].outcome.costs
              metrics == response.entries[i].metrics
  <2>1. /\ request \in Requests /\ request.op = "compare"
        /\ response.entries[i] = Entry(Runs[i])
    BY <1>1, ComparedIs
  <2>2. metrics = Compute(equity, trades, InitialCash, costs, request.riskFree)
    BY <2>1 DEF Entry
  <2>3. request.riskFree \in Int
    BY <2>1, ParsedAssumption
  <2>4. Sane(Runs[i].outcome)
    BY <1>1, RunsAre
  <2>5. Standing(equity) /\ trades \in Seq(Int) /\ costs \in Int
    <3>1. equity \in Seq(Int) /\ trades \in Seq(Int) /\ costs \in Int
      BY <2>4 DEF Sane
    <3>2. DOMAIN equity = 1..Len(equity)
      BY <3>1, LenProperties
    <3>. QED
      BY <2>4, <3>1, <3>2 DEF Sane, Standing
  <2>6. metric \in DOMAIN metrics.values
    BY <1>1
  <2>. HIDE DEF equity, trades, costs, metrics
  <2>7. /\ metric \in DOMAIN metrics.unavailable <=> metrics.values[metric] = None
        /\ metric \in DOMAIN metrics.unavailable =>
             TrueOf(metrics.unavailable[metric], Growth(equity), trades)
    BY <2>2, <2>3, <2>5, <2>6, ReasonIsTrue
  <2>. QED
    BY <2>7 DEF equity, trades, metrics
<1>2. KeptInv => UnavailableExplained
  BY <1>1 DEF UnavailableExplained
<1>. QED
  BY <1>2, Invariance, PTL

-----------------------------------------------------------------------------
(* The rows of a comparison. *)

\* The rows are those of s in another order: the k-th has the label of the
\* from[k]-th of s.
Lists(from, s, rows, n) ==
  /\ \A k \in 1..n : from[k] \in 1..n /\ rows[k].label = s[from[k]].label
  /\ \A i \in 1..n : \E k \in 1..n : from[k] = i
  /\ \A k, l \in 1..n : from[k] = from[l] => k = l

Rearranged(rows, s, n) ==
  Len(rows) = n /\ DOMAIN rows = 1..n /\ \E from : Lists(from, s, rows, n)

SameLabels(u, s) == \A k \in 1..Len(u) : u[k].label = s[k].label

\* What is chosen, and then what is not, is everything.
LEMMA Interleaved ==
  ASSUME NEW s, NEW n \in Nat, NEW A \in SUBSET (1..n), NEW B, B = (1..n) \ A,
         NEW S, NEW u \in Seq(S), NEW v \in Seq(S),
         Len(u) = Cardinality(A), Len(v) = Cardinality(B),
         SameLabels(u, Chosen(s, A)), SameLabels(v, Chosen(s, B))
  PROVE  Rearranged(u \o v, s, n)
<1>. DEFINE a == Cardinality(A)
            b == Cardinality(B)
            rows == u \o v
            D == 1..n
<1>1. B \in SUBSET D
  OBVIOUS
<1>2. IsFiniteSet(A) /\ IsFiniteSet(B) /\ a \in Nat /\ b \in Nat
  BY <1>1, ChosenIs
<1>3. a + b = n
  <2>1. D = A \cup B /\ A \cap B = {}
    OBVIOUS
  <2>2. Cardinality(D) = n
    BY FirstNumbers
  <2>3. Cardinality(A \cup B) = a + b - Cardinality(A \cap B)
    BY <1>2, FS_Union
  <2>4. Cardinality(A \cap B) = 0
    BY <2>1, FS_EmptySet
  <2>. HIDE DEF a, b, D
  <2>. QED
    BY <1>2, <2>1, <2>2, <2>3, <2>4
<1>4. PICK first : Picks(first, s, A)
  BY ChosenIs
<1>5. PICK second : Picks(second, s, B)
  BY <1>1, ChosenIs
<1>6. /\ \A k \in 1..a : first[k] \in A /\ u[k].label = s[first[k]].label
      /\ \A i \in A : \E k \in 1..a : first[k] = i
      /\ \A k, l \in 1..a : k < l => first[k] < first[l]
  BY <1>4 DEF Picks, SameLabels
<1>7. /\ \A k \in 1..b : second[k] \in B /\ v[k].label = s[second[k]].label
      /\ \A i \in B : \E k \in 1..b : second[k] = i
      /\ \A k, l \in 1..b : k < l => second[k] < second[l]
  BY <1>5 DEF Picks, SameLabels
<1>8. /\ rows \in Seq(S) /\ Len(rows) = a + b
      /\ \A k \in 1..(a + b) : rows[k] = IF k <= a THEN u[k] ELSE v[k - a]
  <2>1. /\ rows \in Seq(S) /\ Len(rows) = Len(u) + Len(v)
        /\ \A k \in 1..(Len(u) + Len(v)) : rows[k] = IF k <= Len(u) THEN u[k] ELSE v[k - Len(u)]
    BY ConcatProperties
  <2>2. Len(u) = a /\ Len(v) = b
    OBVIOUS
  <2>. HIDE DEF a, b, rows
  <2>. QED
    BY <2>1, <2>2
<1>9. Len(rows) = n /\ DOMAIN rows = D
  BY <1>3, <1>8, LenProperties
<1>. HIDE DEF a, b, rows
<1>10. \A k \in D : IF k <= a THEN k \in 1..a ELSE k - a \in 1..b
  BY <1>2, <1>3
<1>11. \A k \in 1..a : k \in D /\ k <= a
  BY <1>2, <1>3
<1>12. \A k \in 1..b : k + a \in D /\ ~(k + a <= a) /\ (k + a) - a = k
  BY <1>2, <1>3
<1>13. \A k, l \in 1..a : first[k] = first[l] => k = l
  <2>. SUFFICES ASSUME NEW k \in 1..a, NEW l \in 1..a, first[k] = first[l], k # l PROVE FALSE
    OBVIOUS
  <2>1. k < l \/ l < k
    BY <1>2
  <2>2. first[k] \in D /\ first[l] \in D
    BY <1>1, <1>6
  <2>3. first[k] < first[l] \/ first[l] < first[k]
    BY <1>6, <2>1
  <2>. QED
    BY <2>2, <2>3
<1>14. \A k, l \in 1..b : second[k] = second[l] => k = l
  <2>. SUFFICES ASSUME NEW k \in 1..b, NEW l \in 1..b, second[k] = second[l], k # l PROVE FALSE
    OBVIOUS
  <2>1. k < l \/ l < k
    BY <1>2
  <2>2. second[k] \in D /\ second[l] \in D
    BY <1>1, <1>7
  <2>3. second[k] < second[l] \/ second[l] < second[k]
    BY <1>7, <2>1
  <2>. QED
    BY <2>2, <2>3
<1>15. \A k, l \in D : ~(k <= a) /\ ~(l <= a) /\ k - a = l - a => k = l
  BY <1>2
<1>. DEFINE from == [k \in D |-> IF k <= a THEN first[k] ELSE second[k - a]]
<1>16. \A k \in D : IF k <= a THEN from[k] = first[k] /\ from[k] \in A
                              ELSE from[k] = second[k - a] /\ from[k] \in B
  BY <1>6, <1>7, <1>10
<1>17. \A k \in D : from[k] \in D /\ rows[k].label = s[from[k]].label
  <2>. TAKE k \in D
  <2>1. from[k] \in D
    BY <1>1, <1>16
  <2>2. rows[k] = IF k <= a THEN u[k] ELSE v[k - a]
    BY <1>3, <1>8
  <2>. HIDE DEF from, D
  <2>3. CASE k <= a
    BY <1>6, <1>10, <1>16, <2>1, <2>2, <2>3
  <2>4. CASE ~(k <= a)
    BY <1>7, <1>10, <1>16, <2>1, <2>2, <2>4
  <2>. QED
    BY <2>3, <2>4
<1>18. \A i \in D : \E k \in D : from[k] = i
  <2>. TAKE i \in D
  <2>0. i \in A \/ i \in B
    OBVIOUS
  <2>. HIDE DEF from, D
  <2>1. CASE i \in A
    <3>1. PICK k \in 1..a : first[k] = i
      BY <1>6, <2>1
    <3>2. k \in D /\ from[k] = i
      BY <1>11, <1>16, <3>1
    <3>. QED
      BY <3>2
  <2>2. CASE i \in B
    <3>1. PICK k \in 1..b : second[k] = i
      BY <1>7, <2>2
    <3>. DEFINE l == k + a
    <3>2. l \in D /\ ~(l <= a) /\ l - a = k
      BY <1>12
    <3>. HIDE DEF l
    <3>3. from[l] = i
      BY <1>16, <3>1, <3>2
    <3>. QED
      BY <3>2, <3>3
  <2>. QED
    BY <2>0, <2>1, <2>2
<1>19. A \cap B = {}
  OBVIOUS
<1>20. \A k, l \in D : from[k] = from[l] => k = l
  <2>. SUFFICES ASSUME NEW k \in D, NEW l \in D, from[k] = from[l] PROVE k = l
    OBVIOUS
  <2>. HIDE DEF from, D
  <2>1. (k <= a) <=> (l <= a)
    BY <1>16, <1>19
  <2>2. CASE k <= a
    BY <1>10, <1>13, <1>16, <2>1, <2>2
  <2>3. CASE ~(k <= a)
    <3>1. k - a \in 1..b /\ l - a \in 1..b /\ second[k - a] = second[l - a]
      BY <1>10, <1>16, <2>1, <2>3
    <3>2. k - a = l - a
      BY <1>14, <3>1
    <3>. QED
      BY <1>15, <2>1, <2>3, <3>2
  <2>. QED
    BY <2>2, <2>3
<1>. HIDE DEF from
<1>21. Lists(from, s, rows, n)
  BY <1>17, <1>18, <1>20 DEF Lists
<1>. QED
  BY <1>9, <1>21 DEF rows, Rearranged

\* An answered comparison tried every strategy.
LEMMA AllTried ==
  ASSUME KeptInv, answer = Complete, request # NoRequest, request.op = "compare",
         Refusal(request) = ""
  PROVE  /\ Len(attempts) \in Nat /\ Len(attempts) = Len(request.specs) /\ Len(attempts) >= 2
         /\ DOMAIN attempts = 1..Len(attempts)
         /\ DOMAIN request.specs = 1..Len(attempts)
         /\ \A i \in 1..Len(attempts) : attempts[i].label = Label(request.specs, i)
<1>1. request \in Requests
  BY DEF KeptInv
<1>2. request.specs \in Seq(SpecType)
  BY <1>1, ParsedAssumption DEF SpecType
<1>3. Len(request.specs) \in Nat /\ DOMAIN request.specs = 1..Len(request.specs)
  BY <1>2, LenProperties
<1>4. Len(attempts) \in Nat /\ DOMAIN attempts = 1..Len(attempts)
  BY LenProperties DEF KeptInv, AttemptsInv
<1>5. ~(Len(request.specs) < 2)
  BY DEF Refusal
<1>6. Len(attempts) >= Len(request.specs)
  BY DEF KeptInv, AnswerInv
<1>7. attempts # <<>> => Len(attempts) <= Len(request.specs)
  BY DEF KeptInv, AttemptsInv
<1>8. attempts = <<>> => Len(attempts) = 0
  BY Nothing
<1>9. Len(attempts) = Len(request.specs)
  <2>1. attempts # <<>>
    BY <1>3, <1>4, <1>5, <1>6, <1>8, Orderings
  <2>. QED
    BY <1>3, <1>4, <1>6, <1>7, <2>1, Orderings
<1>10. \A i \in 1..Len(attempts) : attempts[i].label = Label(request.specs, i)
  BY DEF KeptInv, AttemptsInv, Tried
<1>11. Len(attempts) >= 2
  <2>1. ~(Len(attempts) < 2)
    BY <1>5, <1>9
  <2>. QED
    BY <1>4, <2>1, Orderings
<1>. QED
  BY <1>3, <1>4, <1>9, <1>10, <1>11

\* The rows of an answer, runs and failures, are the attempts in another order.
LEMMA RowsAre ==
  ASSUME KeptInv, NEW response \in Compared
  PROVE  Rearranged(response.entries \o response.failures, attempts, Len(attempts))
<1>. DEFINE n == Len(attempts)
            ran == {i \in DOMAIN attempts : attempts[i].error = ""}
            failed == {i \in DOMAIN attempts : attempts[i].error # ""}
            u == response.entries
            v == response.failures
<1>1. n \in Nat /\ DOMAIN attempts = 1..n
  BY LenProperties DEF KeptInv, AttemptsInv
<1>2. ran \in SUBSET (1..n) /\ failed = (1..n) \ ran /\ failed \in SUBSET (1..n)
  BY <1>1
<1>3. Runs = Chosen(attempts, ran) /\ Failures = Chosen(attempts, failed)
  BY DEF Runs, Failures
<1>4. u = [i \in DOMAIN Runs |-> Entry(Runs[i])] /\ v = Failures
  BY ComparedIs
<1>. HIDE DEF n, ran, failed, u, v
<1>5. /\ Cardinality(ran) \in Nat /\ DOMAIN Runs = 1..Cardinality(ran)
      /\ Cardinality(failed) \in Nat /\ DOMAIN v = 1..Cardinality(failed)
  BY <1>1, <1>2, <1>3, <1>4, ChosenIs
<1>. DEFINE S == Items(u) \cup Items(v)
<1>6. u \in Seq(S) /\ Len(u) = Cardinality(ran)
  <2>1. u \in [1..Cardinality(ran) -> S]
    BY <1>4, <1>5 DEF Items
  <2>. HIDE DEF S
  <2>. QED
    BY <1>5, <2>1, SequenceOf
<1>7. v \in Seq(S) /\ Len(v) = Cardinality(failed)
  <2>1. v = Chosen(attempts, failed)
    BY <1>3, <1>4
  <2>2. \A i \in failed : attempts[i] \in S
    <3>1. PICK at : Picks(at, attempts, failed)
      BY <1>1, <1>2, ChosenIs
    <3>. SUFFICES ASSUME NEW i \in failed PROVE attempts[i] \in Items(v)
      OBVIOUS
    <3>2. PICK k \in 1..Cardinality(failed) : at[k] = i
      BY <3>1 DEF Picks
    <3>3. v[k] = attempts[i]
      BY <2>1, <3>1, <3>2 DEF Picks
    <3>. QED
      BY <1>5, <3>3 DEF Items
  <2>. HIDE DEF S
  <2>. QED
    BY <1>1, <1>2, <2>1, <2>2, ChosenSeq
<1>. HIDE DEF S
<1>8. SameLabels(u, Chosen(attempts, ran))
  BY <1>3, <1>4, <1>5, <1>6 DEF Entry, SameLabels
<1>9. SameLabels(v, Chosen(attempts, failed))
  BY <1>3, <1>4 DEF SameLabels
<1>10. Rearranged(u \o v, attempts, n)
  BY <1>1, <1>2, <1>6, <1>7, <1>8, <1>9, Interleaved
<1>. QED
  BY <1>10 DEF n, u, v

\* Of strategies shown alike, the later has the greater number; so two labels can
\* be the same only if one of them was given as numbering makes the other.
LEMMA LabelsApart ==
  ASSUME NEW asked \in Requests, asked.op = "compare", NEW n \in Nat, n >= 2,
         Len(asked.specs) = n, DOMAIN asked.specs = 1..n
  PROVE  /\ \A i \in 1..n : Label(asked.specs, i) # None
         /\ Imitated(asked.specs) \/
              \A i, j \in 1..n : Label(asked.specs, i) = Label(asked.specs, j) => i = j
<1>. DEFINE base(i) == DisplayLabel(asked.specs[i])
            used(i) == {j \in 1..(i - 1) : base(j) = base(i)}
            number(i) == Cardinality(used(i)) + 1
<1>1. ASSUME NEW i \in 1..n
      PROVE  /\ IsFiniteSet(used(i)) /\ number(i) \in 1..n
             /\ used(i) = {} <=> number(i) = 1
  <2>. DEFINE U == used(i)
  <2>1. i - 1 \in Nat /\ i - 1 <= n - 1
    OBVIOUS
  <2>2. U \in SUBSET (1..(i - 1))
    OBVIOUS
  <2>. HIDE DEF U
  <2>. DEFINE before == 1..(i - 1)
  <2>3. IsFiniteSet(before) /\ Cardinality(before) = i - 1
    BY <2>1, FirstNumbers
  <2>. HIDE DEF before
  <2>4. IsFiniteSet(U) /\ Cardinality(U) <= i - 1
    <3>1. U \in SUBSET before
      BY <2>2 DEF before
    <3>. QED
      BY <2>3, <3>1, FS_Subset
  <2>5. Cardinality(U) \in Nat /\ (Cardinality(U) = 0 <=> U = {})
    BY <2>4, FS_CardinalityType, FS_EmptySet
  <2>6. Cardinality(U) + 1 \in 1..n /\ (U = {} <=> Cardinality(U) + 1 = 1)
    BY <2>1, <2>4, <2>5
  <2>. QED
    BY <2>4, <2>6 DEF U
<1>2. ASSUME NEW i \in 1..n, NEW j \in 1..n, i < j, base(i) = base(j)
      PROVE  number(i) # number(j)
  <2>. DEFINE U == used(i)
              V == used(j)
  <2>1. IsFiniteSet(U) /\ IsFiniteSet(V)
    BY <1>1
  <2>2. i \notin U /\ U \cup {i} \in SUBSET V
    BY <1>2
  <2>. HIDE DEF U, V
  <2>3. IsFiniteSet(U \cup {i}) /\ Cardinality(U \cup {i}) = Cardinality(U) + 1
    BY <2>1, <2>2, FS_AddElement
  <2>4. Cardinality(U \cup {i}) <= Cardinality(V)
    BY <2>1, <2>2, FS_Subset
  <2>5. Cardinality(U) \in Nat /\ Cardinality(V) \in Nat
    BY <2>1, FS_CardinalityType
  <2>6. Cardinality(U) + 1 # Cardinality(V) + 1
    BY <2>3, <2>4, <2>5
  <2>. QED
    BY <2>6 DEF U, V
<1>3. \A i \in 1..n :
        Label(asked.specs, i) = IF number(i) = 1 THEN base(i) ELSE Numbered(base(i), number(i))
  <2>. TAKE i \in 1..n
  <2>1. Label(asked.specs, i) = IF used(i) = {} THEN base(i) ELSE Numbered(base(i), number(i))
    BY DEF Label
  <2>. QED
    BY <1>1, <2>1
<1>4. \A i, j \in 1..n, k, m \in 2..n :
        /\ base(i) # None /\ Numbered(base(i), k) # None
        /\ Numbered(base(i), k) = Numbered(base(j), m) => base(i) = base(j) /\ k = m
  BY NumberingAssumption
<1>5. ASSUME ~Imitated(asked.specs), NEW i \in 1..n, NEW j \in 1..n, NEW k \in 2..n
      PROVE  base(i) # Numbered(base(j), k)
  <2>1. i \in DOMAIN asked.specs /\ j \in DOMAIN asked.specs /\ k \in 2..Len(asked.specs)
    BY <1>5
  <2>. QED
    BY <1>5, <2>1 DEF Imitated
<1>6. \A i \in 1..n : number(i) = 1 \/ number(i) \in 2..n
  <2>1. \A i \in 1..n : number(i) \in 1..n
    BY <1>1
  <2>. HIDE DEF number
  <2>. QED
    BY <2>1
<1>. HIDE DEF base, used, number
<1>7. \A i \in 1..n : base(i) # None
  <2>1. 2 \in 2..n
    OBVIOUS
  <2>. QED
    BY <1>4, <2>1
<1>8. \A i \in 1..n : Label(asked.specs, i) # None
  BY <1>3, <1>4, <1>6, <1>7
<1>9. ASSUME ~Imitated(asked.specs), NEW i \in 1..n, NEW j \in 1..n,
             Label(asked.specs, i) = Label(asked.specs, j)
      PROVE  i = j
  <2>1. base(i) = base(j) /\ number(i) = number(j)
    <3>1. CASE number(i) = 1 /\ number(j) = 1
      BY <1>3, <1>9, <3>1
    <3>2. CASE number(i) \in 2..n /\ number(j) \in 2..n
      BY <1>3, <1>4, <1>9, <3>2
    <3>3. CASE number(i) = 1 /\ number(j) \in 2..n
      BY <1>3, <1>5, <1>9, <3>3
    <3>4. CASE number(i) \in 2..n /\ number(j) = 1
      BY <1>3, <1>5, <1>9, <3>4
    <3>. QED
      BY <1>6, <3>1, <3>2, <3>3, <3>4
  <2>2. ~(i < j) /\ ~(j < i)
    BY <1>2, <2>1
  <2>. QED
    BY <2>2
<1>. QED
  BY <1>8, <1>9

\* Every strategy asked for is in the answer once; and under a label of its own,
\* as long as no label that was given is one that numbering makes.
THEOREM AllAccounted == Spec => []EntriesAccounted
<1>1. ASSUME KeptInv, NEW response \in Compared
      PROVE  LET rows == response.entries \o response.failures
             IN /\ Len(rows) = Len(request.specs)
                /\ \A i \in DOMAIN request.specs :
                     \E k \in DOMAIN rows : rows[k].label = Label(request.specs, i)
                /\ \/ Imitated(request.specs)
                   \/ \A k, l \in DOMAIN rows : rows[k].label = rows[l].label => k = l
  <2>. DEFINE rows == response.entries \o response.failures
              n == Len(attempts)
              D == 1..n
  <2>1. /\ request \in Requests /\ request # NoRequest /\ answer = Complete
        /\ request.op = "compare" /\ Refusal(request) = ""
    BY <1>1, ComparedIs
  <2>2. /\ n = Len(request.specs) /\ DOMAIN request.specs = D
        /\ \A i \in D : attempts[i].label = Label(request.specs, i)
    BY <1>1, <2>1, AllTried
  <2>3. Len(rows) = n /\ DOMAIN rows = D
    BY <1>1, RowsAre DEF Rearranged
  <2>4. PICK from : Lists(from, attempts, rows, n)
    BY <1>1, RowsAre DEF Rearranged
  <2>5. \/ Imitated(request.specs)
        \/ \A i, j \in D : Label(request.specs, i) = Label(request.specs, j) => i = j
    BY <1>1, <2>1, <2>2, AllTried, LabelsApart
  <2>6. /\ \A k \in D : from[k] \in D /\ rows[k].label = attempts[from[k]].label
        /\ \A i \in D : \E k \in D : from[k] = i
        /\ \A k, l \in D : from[k] = from[l] => k = l
    BY <2>4 DEF Lists
  <2>. HIDE DEF rows, n, D
  <2>7. \A k \in D : rows[k].label = Label(request.specs, from[k])
    BY <2>2, <2>6
  <2>8. Len(rows) = Len(request.specs)
    BY <2>2, <2>3
  <2>9. \A i \in D : \E k \in D : rows[k].label = Label(request.specs, i)
    BY <2>6, <2>7
  <2>10. \/ Imitated(request.specs)
         \/ \A k, l \in D : rows[k].label = rows[l].label => k = l
    BY <2>5, <2>6, <2>7
  <2>. QED
    BY <2>2, <2>3, <2>8, <2>9, <2>10 DEF rows
<1>2. KeptInv => EntriesAccounted
  BY <1>1 DEF EntriesAccounted
<1>. QED
  BY <1>2, Invariance, PTL

-----------------------------------------------------------------------------
(* The best of a comparison. *)

ValueOf(entries, metric, i) == entries[i].metrics.values[metric]

Marked(entries, label) == CHOOSE i \in DOMAIN entries : entries[i].label = label

Rivals(entries, metric) == {i \in DOMAIN entries : ValueOf(entries, metric, i) # None}

Winners(entries, metric) ==
  {i \in Rivals(entries, metric) : \A j \in Rivals(entries, metric) :
     Prefers(metric, ValueOf(entries, metric, i), ValueOf(entries, metric, j))}

\* The entries have labels of their own.
Labelled(entries, n) ==
  /\ DOMAIN entries = 1..n
  /\ \A i \in 1..n : entries[i].label # None
  /\ \A i, j \in 1..n : entries[i].label = entries[j].label => i = j

\* Of rivals with values, somebody wins.
LEMMA SomeoneWins ==
  ASSUME NEW entries, NEW n \in Nat, DOMAIN entries = 1..n, NEW metric,
         \A i \in Rivals(entries, metric) : ValueOf(entries, metric, i) \in Int,
         Rivals(entries, metric) # {}
  PROVE  Winners(entries, metric) # {}
<1>. DEFINE R == Rivals(entries, metric)
            value == [i \in R |-> ValueOf(entries, metric, i)]
            V == {value[i] : i \in R}
<1>1. IsFiniteSet(R)
  <2>1. R \in SUBSET (1..n)
    BY DEF Rivals
  <2>. HIDE DEF R
  <2>. QED
    BY <2>1, FirstNumbers, FS_Subset
<1>2. R # {} /\ \A i \in R : value[i] = ValueOf(entries, metric, i) /\ value[i] \in Int
  OBVIOUS
<1>3. Winners(entries, metric) = {i \in R : \A j \in R : Prefers(metric, value[i], value[j])}
  BY <1>2 DEF Winners
<1>. HIDE DEF R
<1>4. IsFiniteSet(V) /\ V \subseteq Int /\ V # {}
  <2>1. value \in Surjection(R, V)
    BY DEF Surjection
  <2>2. V \subseteq Int /\ V # {}
    BY <1>2
  <2>. HIDE DEF value, V
  <2>3. IsFiniteSet(V)
    BY <1>1, <2>1, FS_Surjection
  <2>. QED
    BY <2>2, <2>3
<1>. HIDE DEF V
<1>5. /\ Max(V) \in V /\ \A x \in V : x <= Max(V)
      /\ Min(V) \in V /\ \A x \in V : Min(V) <= x
  BY <1>4, Greatest, Least
<1>6. \A x \in V : x \in Int
  BY <1>4
<1>7. PICK most \in R : value[most] = Max(V)
  BY <1>5 DEF V
<1>8. PICK least \in R : value[least] = Min(V)
  BY <1>5 DEF V
<1>9. \A j \in R : value[j] \in V
  BY DEF V
<1>. HIDE DEF value
<1>10. CASE Better[metric] = "higher"
  <2>1. \A j \in R : value[most] >= value[j]
    <3>. TAKE j \in R
    <3>1. value[j] <= value[most] /\ value[j] \in Int /\ value[most] \in Int
      BY <1>2, <1>5, <1>7, <1>9
    <3>. QED
      BY <3>1
  <2>2. \A j \in R : Prefers(metric, value[most], value[j])
    BY <1>10, <2>1 DEF Prefers
  <2>. QED
    BY <1>3, <2>2
<1>11. CASE Better[metric] # "higher"
  <2>1. \A j \in R : value[least] <= value[j]
    BY <1>5, <1>8, <1>9
  <2>2. \A j \in R : Prefers(metric, value[least], value[j])
    BY <1>11, <2>1 DEF Prefers
  <2>. QED
    BY <1>3, <2>2
<1>. QED
  BY <1>10, <1>11

\* The best is a winner, found by its label, if there is anyone to beat.
LEMMA BestOf ==
  ASSUME NEW entries, NEW n \in Nat, Labelled(entries, n),
         NEW metric, Better[metric] # "neither",
         \A i \in Rivals(entries, metric) : ValueOf(entries, metric, i) \in Int
  PROVE  /\ Best(entries, metric) = None <=> Cardinality(Rivals(entries, metric)) < 2
         /\ Best(entries, metric) # None =>
              Marked(entries, Best(entries, metric)) \in Winners(entries, metric)
         /\ Best(entries, metric)
              = IF Cardinality(Rivals(entries, metric)) < 2 THEN None
                ELSE entries[Min(Winners(entries, metric))].label
<1>. DEFINE R == Rivals(entries, metric)
            W == Winners(entries, metric)
            place(i) == Min(Alike(entries, i))
            first == Min(W)
            foremost == CHOOSE i \in W : \A j \in W : place(i) <= place(j)
            best == Best(entries, metric)
<1>1. \A i \in 1..n : Alike(entries, i) = {i} /\ place(i) = i
  <2>. TAKE i \in 1..n
  <2>1. Alike(entries, i) = {i}
    BY DEF Alike, Labelled
  <2>2. \A S : S = {i} => Min(S) = i
    BY DEF Min
  <2>. QED
    BY <2>1, <2>2
<1>2. best = IF Cardinality(R) < 2 THEN None ELSE entries[foremost].label
  <2>1. Comparable(entries, metric) = R
    <3>1. DOMAIN entries = 1..n
      BY DEF Labelled
    <3>2. \A i \in 1..n : \A j \in Alike(entries, i) : j <= i
      BY <1>1
    <3>. QED
      BY <3>1, <3>2 DEF Comparable, Rivals, ValueOf
  <2>. QED
    BY <2>1 DEF Best, Winners, ValueOf
<1>3. W \in SUBSET (1..n)
  BY DEF Winners, Rivals, Labelled
<1>4. Cardinality(R) < 2 \/ R # {}
  BY FS_EmptySet
<1>5. R # {} => W # {}
  BY SomeoneWins DEF Labelled
<1>. HIDE DEF R, W, best
<1>6. IsFiniteSet(W) /\ W \subseteq Int
  <2>1. IsFiniteSet(1..n)
    BY FirstNumbers
  <2>2. IsFiniteSet(W)
    BY <1>3, <2>1, FS_Subset
  <2>. QED
    BY <1>3, <2>2
<1>7. W # {} => first \in W /\ \A i \in W : first <= i
  BY <1>6, Least
<1>8. W # {} => foremost = first
  <2>. HIDE DEF first, place
  <2>1. \A i \in W : place(i) = i /\ i \in Int
    BY <1>3, <1>1
  <2>2. ASSUME W # {}, NEW i \in W, \A j \in W : place(i) <= place(j) PROVE i = first
    BY <1>7, <2>1, <2>2
  <2>3. ASSUME W # {} PROVE \A j \in W : place(first) <= place(j)
    BY <1>7, <2>1, <2>3
  <2>. QED
    BY <1>7, <2>2, <2>3
<1>. HIDE DEF first, foremost
<1>9. ASSUME ~(Cardinality(R) < 2)
      PROVE  best = entries[first].label /\ best # None /\ Marked(entries, best) = first /\ first \in W
  <2>1. best = entries[first].label /\ first \in W
    BY <1>2, <1>4, <1>5, <1>7, <1>9, <1>8
  <2>2. first \in 1..n
    BY <1>3, <2>1
  <2>3. entries[first].label # None
    BY <2>2 DEF Labelled
  <2>4. \A i \in DOMAIN entries : entries[i].label = best <=> i = first
    BY <2>1, <2>2 DEF Labelled
  <2>5. first \in DOMAIN entries
    BY <2>2 DEF Labelled
  <2>6. Marked(entries, best) = first
    BY <2>4, <2>5 DEF Marked
  <2>. QED
    BY <2>1, <2>3, <2>6
<1>10. best = None <=> Cardinality(R) < 2
  BY <1>2, <1>9
<1>11. best # None => Marked(entries, best) \in W
  BY <1>9, <1>10
<1>12. best = IF Cardinality(R) < 2 THEN None ELSE entries[first].label
  BY <1>2, <1>9
<1>. QED
  BY <1>10, <1>11, <1>12 DEF best, R, W, first

\* Amounts that are whole parts of the initial capital compare as their parts do.
LEMMA SameOrder ==
  \A x, y \in Int :
    (x * One) % InitialCash = 0 /\ (y * One) % InitialCash = 0 =>
      LET p == (x * One) \div InitialCash
          q == (y * One) \div InitialCash
      IN /\ x >= y <=> p - One >= q - One
         /\ x <= y <=> p <= q
<1>1. One \in Nat \ {0} /\ InitialCash \in Nat \ {0}
  BY OneAssumption, CashAssumption
<1>2. \A a \in Int, d \in Nat \ {0} : a % d = 0 => (a \div d) * d = a /\ a \div d \in Int
  OBVIOUS
<1>3. \A a, b \in Int, c \in Nat \ {0} : a >= b <=> a * c >= b * c
  OBVIOUS
<1>. TAKE x, y \in Int
<1>. HAVE (x * One) % InitialCash = 0 /\ (y * One) % InitialCash = 0
<1>. DEFINE p == (x * One) \div InitialCash
            q == (y * One) \div InitialCash
<1>4. x * One \in Int /\ y * One \in Int
  BY <1>1
<1>5. p * InitialCash = x * One /\ q * InitialCash = y * One /\ p \in Int /\ q \in Int
  BY <1>1, <1>2, <1>4
<1>. HIDE DEF p, q
<1>6. (x >= y <=> p >= q) /\ (y >= x <=> q >= p)
  BY <1>1, <1>3, <1>5
<1>7. (x >= y <=> p - One >= q - One) /\ (x <= y <=> p <= q)
  BY <1>1, <1>5, <1>6
<1>. QED
  BY <1>7 DEF p, q

\* The return is the final equity as a part of the initial capital, and the drag
\* the costs.
LEMMA PartsAre ==
  ASSUME NEW outcome, Sane(outcome), NEW riskFree, NEW values,
         values = MetricValues(outcome.equity, outcome.trades, InitialCash,
                               outcome.costs, riskFree)
  PROVE  /\ values.total_return = (values.final_equity * One) \div InitialCash - One
         /\ values.cost_drag = (values.total_costs * One) \div InitialCash
         /\ (values.final_equity * One) % InitialCash = 0
         /\ (values.total_costs * One) % InitialCash = 0
<1>. DEFINE equity == outcome.equity
            n == Len(equity)
            final == IF equity = <<>> THEN InitialCash ELSE equity[n]
<1>1. /\ values.final_equity = final /\ values.total_costs = outcome.costs
      /\ values.total_return = (final * One) \div InitialCash - One
      /\ values.cost_drag = (outcome.costs * One) \div InitialCash
  BY DEF MetricValues
<1>2. (final * One) % InitialCash = 0
  <2>1. CASE equity = <<>>
    <3>1. \A a \in Nat \ {0}, b \in Nat \ {0} : (a * b) % a = 0
      OBVIOUS
    <3>2. (InitialCash * One) % InitialCash = 0
      BY <3>1, OneAssumption, CashAssumption
    <3>. QED
      BY <2>1, <3>2
  <2>2. CASE equity # <<>>
    <3>1. equity \in Seq(Int)
      BY DEF Sane
    <3>2. n \in Nat \ {0} /\ DOMAIN equity = 1..n
      BY <2>2, <3>1, EmptySeq, LenProperties
    <3>3. n \in DOMAIN equity
      BY <3>2
    <3>4. \A i \in DOMAIN equity : (equity[i] * One) % InitialCash = 0
      BY DEF Sane
    <3>. QED
      BY <2>2, <3>3, <3>4
  <2>. QED
    BY <2>1, <2>2
<1>3. (outcome.costs * One) % InitialCash = 0
  BY DEF Sane
<1>. HIDE DEF final
<1>. QED
  BY <1>1, <1>2, <1>3

\* The values that the winners are found by.
Measured(values) ==
  /\ values.total_return \in Int /\ values.final_equity \in Int
  /\ values.total_costs \in Int /\ values.cost_drag \in Int /\ values.max_drawdown \in Int
  /\ values.win_rate # None => values.win_rate \in Int
  /\ values.total_return = (values.final_equity * One) \div InitialCash - One
  /\ values.cost_drag = (values.total_costs * One) \div InitialCash
  /\ (values.final_equity * One) % InitialCash = 0
  /\ (values.total_costs * One) % InitialCash = 0

LEMMA EntriesAre ==
  ASSUME KeptInv, NEW response \in Compared, ~Imitated(request.specs)
  PROVE  \E n \in Nat : /\ Labelled(response.entries, n)
                        /\ \A i \in 1..n : Measured(response.entries[i].metrics.values)
<1>. DEFINE entries == response.entries
            n == Len(attempts)
            ran == {i \in DOMAIN attempts : attempts[i].error = ""}
            c == Cardinality(ran)
<1>1. /\ request \in Requests /\ request # NoRequest /\ answer = Complete
      /\ request.op = "compare" /\ Refusal(request) = ""
      /\ entries = [i \in DOMAIN Runs |-> Entry(Runs[i])]
  BY ComparedIs
<1>2. /\ n \in Nat /\ DOMAIN attempts = 1..n /\ DOMAIN request.specs = 1..n
      /\ \A i \in 1..n : attempts[i].label = Label(request.specs, i)
  BY <1>1, AllTried
<1>3. ran \in SUBSET (1..n)
  BY <1>2
<1>4. Runs = Chosen(attempts, ran)
  BY DEF Runs
<1>5. /\ \A i \in 1..n : Label(request.specs, i) # None
      /\ \A i, j \in 1..n : Label(request.specs, i) = Label(request.specs, j) => i = j
  BY <1>1, <1>2, AllTried, LabelsApart
<1>. HIDE DEF n, ran
<1>6. c \in Nat /\ DOMAIN Runs = 1..c
  BY <1>2, <1>3, <1>4, ChosenIs
<1>7. PICK at : Picks(at, attempts, ran)
  BY <1>2, <1>3, ChosenIs
<1>8. /\ \A k \in 1..c : at[k] \in 1..n /\ Runs[k] = attempts[at[k]]
      /\ \A k, l \in 1..c : k < l => at[k] < at[l]
  BY <1>3, <1>4, <1>7 DEF Picks
<1>. HIDE DEF c, entries
<1>9. \A k, l \in 1..c : at[k] = at[l] => k = l
  <2>. SUFFICES ASSUME NEW k \in 1..c, NEW l \in 1..c, at[k] = at[l], k # l PROVE FALSE
    OBVIOUS
  <2>1. k < l \/ l < k
    BY <1>6
  <2>2. at[k] < at[l] \/ at[l] < at[k]
    BY <1>8, <2>1
  <2>3. at[k] \in Int /\ at[l] \in Int
    BY <1>2, <1>8
  <2>. QED
    BY <2>2, <2>3
<1>10. \A k \in 1..c : entries[k] = Entry(Runs[k]) /\ entries[k].label = Label(request.specs, at[k])
  BY <1>1, <1>2, <1>6, <1>8 DEF Entry
<1>11. Labelled(entries, c)
  <2>1. DOMAIN entries = 1..c
    BY <1>1, <1>6
  <2>2. \A k \in 1..c : entries[k].label # None
    BY <1>5, <1>8, <1>10
  <2>3. \A k, l \in 1..c : entries[k].label = entries[l].label => k = l
    BY <1>5, <1>8, <1>9, <1>10
  <2>. QED
    BY <2>1, <2>2, <2>3 DEF Labelled
<1>12. ASSUME NEW k \in 1..c PROVE Measured(entries[k].metrics.values)
  <2>. DEFINE outcome == Runs[k].outcome
              values == entries[k].metrics.values
  <2>1. Sane(outcome)
    BY <1>6, RunsAre
  <2>2. request.riskFree \in Int
    BY <1>1, ParsedAssumption
  <2>3. values = MetricValues(outcome.equity, outcome.trades, InitialCash, outcome.costs,
                              request.riskFree)
    <3>1. entries[k].metrics
            = Compute(outcome.equity, outcome.trades, InitialCash, outcome.costs,
                      request.riskFree)
      <4>1. entries[k] = Entry(Runs[k])
        BY <1>10
      <4>2. Entry(Runs[k]).metrics
              = Compute(outcome.equity, outcome.trades, InitialCash, outcome.costs,
                        request.riskFree)
        BY DEF Entry
      <4>. QED
        BY <4>1, <4>2
    <3>. HIDE DEF outcome
    <3>. QED
      BY <3>1 DEF Compute
  <2>. HIDE DEF outcome, values
  <2>4. Standing(outcome.equity) /\ outcome.trades \in Seq(Int) /\ outcome.costs \in Int
    <3>1. outcome.equity \in Seq(Int) /\ outcome.trades \in Seq(Int) /\ outcome.costs \in Int
      BY <2>1 DEF Sane
    <3>2. DOMAIN outcome.equity = 1..Len(outcome.equity)
      BY <3>1, LenProperties
    <3>. QED
      BY <2>1, <3>1, <3>2 DEF Sane, Standing
  <2>5. /\ \A metric \in {"total_return", "max_drawdown", "max_drawdown_duration",
                           "trade_count", "winning_trades", "losing_trades", "total_costs",
                           "cost_drag", "final_equity"} : values[metric] \in Int
        /\ values.win_rate # None => values.win_rate \in Int
    BY <2>2, <2>3, <2>4, ValuesAre
  <2>6. /\ values.total_return = (values.final_equity * One) \div InitialCash - One
        /\ values.cost_drag = (values.total_costs * One) \div InitialCash
        /\ (values.final_equity * One) % InitialCash = 0
        /\ (values.total_costs * One) % InitialCash = 0
    BY <2>1, <2>3, PartsAre
  <2>7. Measured(values)
    BY <2>5, <2>6 DEF Measured
  <2>. QED
    BY <2>7 DEF values
<1>. QED
  BY <1>6, <1>11, <1>12 DEF entries

\* The run marked best is one no other beats, and one that has no value of a
\* metric neither wins nor lets another win alone; as long as no label that was
\* given is one that numbering makes, since a label is all that marks a run.
THEOREM BestMarked == Spec => []BestIsBest
<1>1. ASSUME KeptInv, NEW response \in Compared, ~Imitated(request.specs)
      PROVE  LET entries == response.entries
                 best(metric) == response.table[metric]
                 marked(metric) == Marked(entries, best(metric))
             IN /\ best("final_equity") = best("total_return")
                /\ best("total_costs") = best("cost_drag")
                /\ \A metric \in {"final_equity", "total_costs", "max_drawdown", "win_rate"} :
                     best(metric) = None <=> Cardinality(Rivals(entries, metric)) < 2
                /\ \A metric \in {"final_equity", "max_drawdown", "win_rate"} :
                     best(metric) # None =>
                       \A i \in Rivals(entries, metric) :
                         ValueOf(entries, metric, i) <= ValueOf(entries, metric, marked(metric))
                /\ best("total_costs") # None =>
                     \A i \in DOMAIN entries :
                       ValueOf(entries, "total_costs", i)
                         >= ValueOf(entries, "total_costs", marked("total_costs"))
  <2>. DEFINE entries == response.entries
              names == {"final_equity", "total_return", "total_costs", "cost_drag",
                        "max_drawdown", "win_rate"}
  <2>1. \A metric \in DOMAIN Better : response.table[metric] = Best(entries, metric)
    BY <1>1, ComparedIs DEF MetricTable
  <2>2. PICK n \in Nat : /\ Labelled(entries, n)
                         /\ \A i \in 1..n : Measured(entries[i].metrics.values)
    BY <1>1, EntriesAre
  <2>3. /\ names \subseteq DOMAIN Better
        /\ \A metric \in {"final_equity", "total_return", "max_drawdown", "win_rate"} :
             Better[metric] = "higher"
        /\ \A metric \in {"total_costs", "cost_drag"} : Better[metric] = "lower"
    BY DEF Better
  <2>4. DOMAIN entries = 1..n
    BY <2>2 DEF Labelled
  <2>. HIDE DEF entries
  <2>5. \A i \in 1..n :
          /\ \A metric \in names \ {"win_rate"} : ValueOf(entries, metric, i) \in Int
          /\ ValueOf(entries, "win_rate", i) # None => ValueOf(entries, "win_rate", i) \in Int
          /\ ValueOf(entries, "total_return", i)
               = (ValueOf(entries, "final_equity", i) * One) \div InitialCash - One
          /\ ValueOf(entries, "cost_drag", i)
               = (ValueOf(entries, "total_costs", i) * One) \div InitialCash
          /\ (ValueOf(entries, "final_equity", i) * One) % InitialCash = 0
          /\ (ValueOf(entries, "total_costs", i) * One) % InitialCash = 0
    BY <2>2 DEF Measured, ValueOf
  <2>6. ASSUME NEW metric \in names
        PROVE  /\ \A i \in Rivals(entries, metric) : i \in 1..n /\ ValueOf(entries, metric, i) \in Int
               /\ metric # "win_rate" => Rivals(entries, metric) = 1..n
    <3>1. Rivals(entries, metric) = {i \in 1..n : ValueOf(entries, metric, i) # None}
      BY <2>4 DEF Rivals
    <3>2. None \notin Int
      BY OneAssumption
    <3>3. CASE metric = "win_rate"
      BY <2>5, <3>1, <3>3
    <3>4. CASE metric # "win_rate"
      <4>1. \A i \in 1..n : ValueOf(entries, metric, i) \in Int
        BY <2>5, <2>6, <3>4
      <4>. QED
        BY <3>1, <3>2, <3>4, <4>1
    <3>. QED
      BY <3>3, <3>4
  <2>7. ASSUME NEW metric \in names
        PROVE  /\ response.table[metric] = None <=> Cardinality(Rivals(entries, metric)) < 2
               /\ response.table[metric] # None =>
                    Marked(entries, response.table[metric]) \in Winners(entries, metric)
               /\ response.table[metric]
                    = IF Cardinality(Rivals(entries, metric)) < 2 THEN None
                      ELSE entries[Min(Winners(entries, metric))].label
    <3>1. Better[metric] # "neither" /\ response.table[metric] = Best(entries, metric)
      BY <2>1, <2>3
    <3>2. \A i \in Rivals(entries, metric) : ValueOf(entries, metric, i) \in Int
      BY <2>6
    <3>. QED
      BY <2>2, <3>1, <3>2, BestOf
  <2>8. Rivals(entries, "final_equity") = 1..n /\ Rivals(entries, "total_return") = 1..n
    BY <2>6
  <2>9. Rivals(entries, "total_costs") = 1..n /\ Rivals(entries, "cost_drag") = 1..n
    BY <2>6
  <2>10. \A i, j \in 1..n :
           Prefers("final_equity", ValueOf(entries, "final_equity", i),
                                   ValueOf(entries, "final_equity", j))
             <=> Prefers("total_return", ValueOf(entries, "total_return", i),
                                         ValueOf(entries, "total_return", j))
    <3>. TAKE i, j \in 1..n
    <3>. DEFINE x == ValueOf(entries, "final_equity", i)
                y == ValueOf(entries, "final_equity", j)
    <3>1. /\ x \in Int /\ y \in Int
          /\ (x * One) % InitialCash = 0 /\ (y * One) % InitialCash = 0
          /\ ValueOf(entries, "total_return", i) = (x * One) \div InitialCash - One
          /\ ValueOf(entries, "total_return", j) = (y * One) \div InitialCash - One
      BY <2>5
    <3>. HIDE DEF x, y
    <3>2. x >= y <=> (x * One) \div InitialCash - One >= (y * One) \div InitialCash - One
      BY <3>1, SameOrder
    <3>. QED
      BY <2>3, <3>1, <3>2 DEF Prefers, x, y
  <2>11. \A i, j \in 1..n :
           Prefers("total_costs", ValueOf(entries, "total_costs", i),
                                  ValueOf(entries, "total_costs", j))
             <=> Prefers("cost_drag", ValueOf(entries, "cost_drag", i),
                                      ValueOf(entries, "cost_drag", j))
    <3>. TAKE i, j \in 1..n
    <3>. DEFINE x == ValueOf(entries, "total_costs", i)
                y == ValueOf(entries, "total_costs", j)
    <3>1. /\ x \in Int /\ y \in Int
          /\ (x * One) % InitialCash = 0 /\ (y * One) % InitialCash = 0
          /\ ValueOf(entries, "cost_drag", i) = (x * One) \div InitialCash
          /\ ValueOf(entries, "cost_drag", j) = (y * One) \div InitialCash
      BY <2>5
    <3>. HIDE DEF x, y
    <3>2. x <= y <=> (x * One) \div InitialCash <= (y * One) \div InitialCash
      BY <3>1, SameOrder
    <3>. QED
      BY <2>3, <3>1, <3>2 DEF Prefers, x, y
  <2>12. response.table["final_equity"] = response.table["total_return"]
    <3>1. Winners(entries, "final_equity") = Winners(entries, "total_return")
      BY <2>8, <2>10 DEF Winners
    <3>. QED
      BY <2>7, <2>8, <3>1
  <2>13. response.table["total_costs"] = response.table["cost_drag"]
    <3>1. Winners(entries, "total_costs") = Winners(entries, "cost_drag")
      BY <2>9, <2>11 DEF Winners
    <3>. QED
      BY <2>7, <2>9, <3>1
  <2>14. ASSUME NEW metric \in {"final_equity", "max_drawdown", "win_rate"},
                response.table[metric] # None,
                NEW i \in Rivals(entries, metric)
         PROVE  ValueOf(entries, metric, i)
                  <= ValueOf(entries, metric, Marked(entries, response.table[metric]))
    <3>. DEFINE won == Marked(entries, response.table[metric])
    <3>1. metric \in names /\ won \in Winners(entries, metric)
      BY <2>7, <2>14
    <3>. HIDE DEF won
    <3>2. /\ won \in Rivals(entries, metric)
          /\ Prefers(metric, ValueOf(entries, metric, won), ValueOf(entries, metric, i))
      BY <2>14, <3>1 DEF Winners
    <3>3. ValueOf(entries, metric, won) >= ValueOf(entries, metric, i)
      BY <2>3, <2>14, <3>2 DEF Prefers
    <3>4. ValueOf(entries, metric, won) \in Int /\ ValueOf(entries, metric, i) \in Int
      BY <2>6, <2>14, <3>1, <3>2
    <3>5. ValueOf(entries, metric, i) <= ValueOf(entries, metric, won)
      BY <3>3, <3>4, Quotients
    <3>. QED
      BY <3>5 DEF won
  <2>15. ASSUME response.table["total_costs"] # None, NEW i \in DOMAIN entries
         PROVE  ValueOf(entries, "total_costs", i)
                  >= ValueOf(entries, "total_costs", Marked(entries, response.table["total_costs"]))
    <3>. DEFINE won == Marked(entries, response.table["total_costs"])
    <3>1. won \in Winners(entries, "total_costs")
      BY <2>7, <2>15
    <3>. HIDE DEF won
    <3>2. /\ won \in 1..n
          /\ Prefers("total_costs", ValueOf(entries, "total_costs", won),
                                    ValueOf(entries, "total_costs", i))
      BY <2>4, <2>9, <2>15, <3>1 DEF Winners
    <3>3. ValueOf(entries, "total_costs", won) <= ValueOf(entries, "total_costs", i)
      BY <2>3, <3>2 DEF Prefers
    <3>4. ValueOf(entries, "total_costs", won) \in Int /\ ValueOf(entries, "total_costs", i) \in Int
      BY <2>4, <2>5, <2>15, <3>2
    <3>5. ValueOf(entries, "total_costs", i) >= ValueOf(entries, "total_costs", won)
      BY <3>3, <3>4, Quotients
    <3>. QED
      BY <3>5 DEF won
  <2>. QED
    BY <2>7, <2>12, <2>13, <2>14, <2>15 DEF entries
<1>2. KeptInv => BestIsBest
  BY <1>1 DEF BestIsBest, Rivals, ValueOf, Marked
<1>. QED
  BY <1>2, Invariance, PTL
=============================================================================
