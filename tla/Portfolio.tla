------------------------------ MODULE Portfolio ------------------------------
(***************************************************************************)
(* The accounting half of a backtest: the cost model                       *)
(* (services/quant/backtest/costs.py), a fill (events.py) and the portfolio *)
(* state it updates (portfolio.py), for the one instrument the engine      *)
(* simulates.                                                              *)
(*                                                                         *)
(* Arithmetic is exact.  A price is a whole number of ticks; an amount of  *)
(* money is a whole number of ticks / BPS^2, so that a fill price (one     *)
(* factor of BPS) and a commission on it (another) are integers.  The only *)
(* quotients are the pro-rata shares of a partly closed position, rounded  *)
(* down to one such unit.                                                  *)
(*                                                                         *)
(* A position's average price is kept as its cost basis,                   *)
(* average_price * |quantity|, and the list of trades as the sums of the   *)
(* gross_pnl and of the costs recorded in it.  Left out: timestamps,       *)
(* reasons, entry_bar_index and the ratios derived from these amounts.     *)
(***************************************************************************)
EXTENDS Integers

CONSTANTS
  BPS,            \* basis points in one (10 000 in the code)
  CommissionBps,  \* commission per side, in basis points of notional
  CommissionMin,  \* minimum commission of a fill, in money
  SlippageBps,    \* adverse price movement, per side
  HalfSpreadBps,  \* half the bid-ask spread, the part paid on each side
  InitialCash     \* starting capital, in money

Penalty == SlippageBps + HalfSpreadBps

\* The service accepts at most 1 000 bps of each cost (webapi/schemas.py), so
\* a fill price is positive and a proportional commission is below its notional.
ASSUME CostAssumption ==
  /\ BPS \in Nat \ {0}
  /\ CommissionBps \in 0..BPS
  /\ CommissionMin \in Nat
  /\ SlippageBps \in Nat
  /\ HalfSpreadBps \in Nat
  /\ Penalty < BPS

ASSUME CashAssumption == InitialCash \in Nat \ {0}

BUY == 1
SELL == -1
Sides == {BUY, SELL}

Abs(x) == IF x < 0 THEN -x ELSE x
Least(x, y) == IF x < y THEN x ELSE y
Greatest(x, y) == IF x < y THEN y ELSE x

\* The sign of a quantity, as +1, 0 or -1.
SignOf(x) == IF x > 0 THEN 1 ELSE IF x < 0 THEN -1 ELSE 0

\* int(num / den) for den > 0: truncation toward zero.
Truncate(num, den) ==
  IF num >= 0 THEN num \div den ELSE -((-num) \div den)

\* part / whole of an amount.
Share(amount, part, whole) == (amount * part) \div whole

-----------------------------------------------------------------------------
(* The cost model. *)

\* A price in ticks as an amount of money.
Money(price) == price * BPS * BPS

\* Faulty variant: the penalty is not turned round for a sale.
FillPriceOneSided(reference, side) == reference * (BPS + Penalty) * BPS

\* A buy pays slippage and half the spread up, a sale receives them down.
FillPrice(reference, side) == reference * (BPS + side * Penalty) * BPS

Commission(notional) ==
  Greatest(CommissionMin, (notional * CommissionBps) \div BPS)

-----------------------------------------------------------------------------
(* A fill: what was bought or sold, at which price, and what it cost. *)

Fills ==
  [side: Sides, quantity: Nat \ {0}, reference: Nat, price: Nat, commission: Nat]

MakeFill(side, quantity, reference) ==
  [side       |-> side,
   quantity   |-> quantity,
   reference  |-> Money(reference),
   price      |-> FillPrice(reference, side),
   commission |-> Commission(quantity * FillPrice(reference, side))]

Notional(fill) == fill.quantity * fill.price

SlippageCost(fill) == Abs(fill.price - fill.reference) * fill.quantity

TotalCost(fill) == fill.commission + SlippageCost(fill)

CashDelta(fill) == -(fill.side * Notional(fill)) - fill.commission

-----------------------------------------------------------------------------
(* The portfolio. *)

Accounts ==
  [cash: Int,         \* may go negative: see the findings
   qty: Int,          \* signed position
   basis: Nat,        \* average_price * |quantity|
   openCosts: Nat,    \* entry costs still attached to the position
   realized: Int,     \* realized_pnl of the position
   commission: Nat,   \* total_commission
   slippage: Nat,     \* total_slippage
   traded: Nat,       \* total_traded_notional
   gross: Int,        \* sum of gross_pnl over the trades
   tradeCosts: Nat]   \* sum of costs over the trades

InitialAccount ==
  [cash |-> InitialCash, qty |-> 0, basis |-> 0, openCosts |-> 0,
   realized |-> 0, commission |-> 0, slippage |-> 0, traded |-> 0,
   gross |-> 0, tradeCosts |-> 0]

Equity(account, price) == account.cash + account.qty * Money(price)

\* The fields that record where the position came from, from one opening on.
OpenPosition(account, fill, signed, cost) ==
  [account EXCEPT !.qty = signed,
                  !.basis = fill.price * Abs(signed),
                  !.openCosts = cost]

\* Faulty variant: adding keeps only the latest entry cost.
AddForgetsCosts(account, fill, signed, cost) ==
  [account EXCEPT !.qty = @ + signed,
                  !.basis = @ + fill.price * Abs(signed),
                  !.openCosts = cost]

AddToPosition(account, fill, signed, cost) ==
  [account EXCEPT !.qty = @ + signed,
                  !.basis = @ + fill.price * Abs(signed),
                  !.openCosts = @ + cost]

\* Realizes the profit of the closed quantity and releases its share of the
\* entry costs.  A full close leaves no basis and no open costs: the shares of
\* the whole are the whole, which is what the code's reset makes exact.
ClosePosition(account, fill, closing, cost) ==
  LET held       == Abs(account.qty)
      direction  == SignOf(account.qty)
      entryBasis == Share(account.basis, closing, held)
      entryCost  == Share(account.openCosts, closing, held)
      costs      == entryCost + Share(cost, closing, fill.quantity)
      gross      == direction * (fill.price * closing - entryBasis)
  IN [account EXCEPT !.qty = @ - direction * closing,
                     !.basis = @ - entryBasis,
                     !.openCosts = @ - entryCost,
                     !.realized = @ + gross - costs,
                     !.gross = @ + gross,
                     !.tradeCosts = @ + costs]

\* Cash and running totals, updated by every fill whatever it does to the
\* position.
Book(account, fill) ==
  [account EXCEPT !.cash = @ + CashDelta(fill),
                  !.commission = @ + fill.commission,
                  !.slippage = @ + SlippageCost(fill),
                  !.traded = @ + Notional(fill)]

\* Faulty variant: the reversed position keeps the price it was first opened at.
ReverseAtOldPrice(booked, fill, closing, cost) ==
  LET rest   == fill.quantity - closing
      closed == ClosePosition(booked, fill, closing, cost)
  IN [closed EXCEPT !.qty = fill.side * rest,
                    !.basis = Share(booked.basis, rest, Abs(booked.qty)),
                    !.openCosts = cost - Share(cost, closing, fill.quantity)]

\* The old position is closed and the rest of the fill opens a new one, which
\* takes the rest of the fill's cost with it.
Reverse(booked, fill, closing, cost) ==
  OpenPosition(ClosePosition(booked, fill, closing, cost), fill,
               fill.side * (fill.quantity - closing),
               cost - Share(cost, closing, fill.quantity))

ApplyFill(account, fill) ==
  LET booked  == Book(account, fill)
      signed  == fill.side * fill.quantity
      cost    == TotalCost(fill)
      closing == Least(fill.quantity, Abs(account.qty))
  IN CASE account.qty = 0 ->
            OpenPosition(booked, fill, signed, cost)
       [] account.qty # 0 /\ SignOf(account.qty) = fill.side ->
            AddToPosition(booked, fill, signed, cost)
       [] account.qty # 0 /\ SignOf(account.qty) # fill.side /\ closing = fill.quantity ->
            ClosePosition(booked, fill, closing, cost)
       [] OTHER ->
            Reverse(booked, fill, closing, cost)

\* Sales always pass: no margin is modelled.
CanAfford(account, fill) ==
  \/ fill.side = SELL
  \/ account.cash >= Notional(fill) + fill.commission

\* Faulty variant: the commission is left out of the price of a unit.
MaxAffordableBeforeCommission(account, price) == Truncate(account.cash, price)

\* Faulty variant: the quantity is rounded up.
MaxAffordableRoundedUp(account, price) ==
  Truncate(account.cash * BPS, price * (BPS + CommissionBps)) + 1

\* The proportional commission is priced in, the minimum commission is not.
MaxAffordableQuantity(account, price) ==
  IF price <= 0 THEN 0
  ELSE Truncate(account.cash * BPS, price * (BPS + CommissionBps))
=============================================================================
