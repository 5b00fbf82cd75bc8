---------------------------- MODULE BacktestEngine ----------------------------
(***************************************************************************)
(* The event-driven execution simulator, services/quant/backtest/engine.py *)
(* (_run_execution with the decide function of simulate), for one          *)
(* instrument and a strategy whose signal and discretionary exits are      *)
(* arbitrary.                                                              *)
(*                                                                         *)
(* Bar by bar the engine fills the order decided on the previous bar,      *)
(* marks the portfolio to the close, and decides the position to hold from *)
(* the next bar; after the last bar it may close the position out.  Each   *)
(* of these is a step here.  The data frame and the signals are arbitrary, *)
(* so a bar is chosen when the loop reaches it and a signal when it is     *)
(* read.  The event logs are kept as the counts in tally.                  *)
(***************************************************************************)
EXTENDS Portfolio

CONSTANTS
  NumBars,          \* bars in the price series
  Prices,           \* prices a bar can have, in ticks
  Strengths,        \* signal strengths, in units of 1 / FullStrength
  FullStrength,     \* the strength clamped to 1.0
  AllocNum,         \* default_allocation is AllocNum / AllocDen (0.95)
  AllocDen,
  FillAtOpen,       \* execution_model: next bar's open, or next bar's close
  AllowShort,       \* BacktestConfig.allow_short
  LiquidateAtEnd,   \* BacktestConfig.liquidate_at_end
  Rebalances        \* Strategy.rebalances_continuously

ASSUME EngineAssumption ==
  /\ NumBars \in Nat \ {0}
  /\ Prices \subseteq Nat \ {0}
  /\ Strengths \subseteq Int
  /\ FullStrength \in Nat \ {0}
  /\ AllocNum \in Nat
  /\ AllocDen \in Nat \ {0}
  /\ {FillAtOpen, AllowShort, LiquidateAtEnd, Rebalances} \subseteq BOOLEAN

VARIABLES
  bar,         \* index of the bar being processed; 0 before the first
  phase,       \* which part of the loop body runs next
  market,      \* the bar as a MarketEvent
  account,     \* the portfolio
  equity,      \* the last point of the equity curve
  pending,     \* the single-slot queue: the order awaiting execution
  suppressed,  \* directions a discretionary exit has barred from re-entry
  tally        \* orders placed, fills of orders, buys skipped, buys reduced

vars == <<bar, phase, market, account, equity, pending, suppressed, tally>>

LONG == 1
FLAT == 0
SHORT == -1
Directions == {LONG, FLAT, SHORT}

Bars == [open: Prices, close: Prices]

\* The value of market before the first bar is read.
NoBar == [open |-> 0, close |-> 0]

\* An order always has a positive quantity, so quantity 0 is an empty slot.
NoOrder == [decided |-> 0, at |-> 0, side |-> BUY, quantity |-> 0]

Orders ==
  {NoOrder} \cup
  [decided: 1..NumBars, at: 1..NumBars, side: Sides, quantity: Nat \ {0}]

Phases == {"next", "execute", "mark", "decide", "liquidate", "done"}

TypeOK ==
  /\ bar \in 0..NumBars
  /\ phase \in Phases
  /\ market \in IF bar = 0 THEN {NoBar} ELSE Bars
  /\ account \in Accounts
  /\ equity \in Int
  /\ pending \in Orders
  /\ suppressed \in SUBSET {LONG, SHORT}
  /\ tally \in [orders: Nat, fills: Nat, skipped: Nat, reduced: Nat]

Init ==
  /\ bar = 0
  /\ phase = "next"
  /\ market = NoBar
  /\ account = InitialAccount
  /\ equity = InitialCash
  /\ pending = NoOrder
  /\ suppressed = {}
  /\ tally = [orders |-> 0, fills |-> 0, skipped |-> 0, reduced |-> 0]

-----------------------------------------------------------------------------
(* The loop reaches the next bar of the frame. *)

NextBar ==
  /\ phase = "next"
  /\ bar' = bar + 1
  /\ market' \in Bars
  /\ phase' = IF pending = NoOrder THEN "mark" ELSE "execute"
  /\ UNCHANGED <<account, equity, pending, suppressed, tally>>

-----------------------------------------------------------------------------
(* 1. Execute the order decided on the previous bar. *)

Reference == IF FillAtOpen THEN market.open ELSE market.close

OrderedFill == MakeFill(pending.side, pending.quantity, Reference)

Affordable == MaxAffordableQuantity(account, OrderedFill.price)

\* Faulty variant: the slot is not emptied.
ExecutingKeepsOrder ==
  /\ phase = "execute"
  /\ phase' = "mark"
  /\ UNCHANGED <<bar, market, equity, pending, suppressed>>

Executing ==
  /\ phase = "execute"
  /\ phase' = "mark"
  /\ pending' = NoOrder
  /\ UNCHANGED <<bar, market, equity, suppressed>>

FillInFull ==
  /\ Executing
  /\ CanAfford(account, OrderedFill)
  /\ account' = ApplyFill(account, OrderedFill)
  /\ tally' = [tally EXCEPT !.fills = @ + 1]

\* The buy is cut to the largest quantity the cash is thought to cover.
FillReduced ==
  /\ Executing
  /\ ~CanAfford(account, OrderedFill)
  /\ Affordable > 0
  /\ account' = ApplyFill(account, MakeFill(pending.side, Affordable, Reference))
  /\ tally' = [tally EXCEPT !.fills = @ + 1, !.reduced = @ + 1]

SkipBuy ==
  /\ Executing
  /\ ~CanAfford(account, OrderedFill)
  /\ Affordable <= 0
  /\ tally' = [tally EXCEPT !.skipped = @ + 1]
  /\ UNCHANGED account

-----------------------------------------------------------------------------
(* 2. Mark to market at this bar's close. *)

MarkToMarket ==
  /\ phase = "mark"
  /\ equity' = Equity(account, market.close)
  /\ phase' = IF bar = NumBars THEN "liquidate" ELSE "decide"
  /\ UNCHANGED <<bar, market, account, pending, suppressed, tally>>

-----------------------------------------------------------------------------
(* 3. Decide the position to hold from the next bar. *)

\* Strategy.position_size: whole units for a share of equity, truncated
\* toward zero, signed by the direction.
PositionSize(direction, strength) ==
  LET clamped == Least(Greatest(strength, 0), FullStrength)
  IN IF direction = FLAT \/ market.close <= 0 THEN 0
     ELSE direction * Truncate(equity * AllocNum * clamped,
                               AllocDen * FullStrength * Money(market.close))

\* Faulty variant: a sale is placed with a negative quantity.
PlaceOrderSigned(target) ==
  LET delta == target - account.qty
  IN /\ pending' = IF delta = 0 THEN NoOrder
                   ELSE [decided |-> bar, at |-> bar + 1,
                         side |-> SignOf(delta), quantity |-> delta]
     /\ tally' = [tally EXCEPT !.orders = IF delta = 0 THEN @ ELSE @ + 1]

\* Faulty variant: the order may fill on the bar that decided it.
PlaceOrderSameBar(target) ==
  LET delta == target - account.qty
  IN /\ pending' = IF delta = 0 THEN NoOrder
                   ELSE [decided |-> bar, at |-> bar,
                         side |-> SignOf(delta), quantity |-> Abs(delta)]
     /\ tally' = [tally EXCEPT !.orders = IF delta = 0 THEN @ ELSE @ + 1]

PlaceOrder(target) ==
  LET delta == target - account.qty
  IN /\ pending' = IF delta = 0 THEN NoOrder
                   ELSE [decided |-> bar, at |-> bar + 1,
                         side |-> SignOf(delta), quantity |-> Abs(delta)]
     /\ tally' = [tally EXCEPT !.orders = IF delta = 0 THEN @ ELSE @ + 1]

Deciding ==
  /\ phase = "decide"
  /\ phase' = "next"
  /\ UNCHANGED <<bar, market, account, equity>>

\* Faulty variant: only long positions are barred from re-entry.
ExitPositionLongOnly ==
  /\ Deciding
  /\ account.qty # 0
  /\ suppressed' = {LONG}
  /\ PlaceOrder(0)

\* A stop or a time-based exit.  It bars re-entry in the same direction.
ExitPosition ==
  /\ Deciding
  /\ account.qty # 0
  /\ suppressed' = {SignOf(account.qty)}
  /\ PlaceOrder(0)

\* Faulty variant: the strategy's own view of shorting decides.
PermittedByStrategy(signal) == signal

\* The engine has the final say on shorting.
Permitted(signal) == IF signal = SHORT /\ ~AllowShort THEN FLAT ELSE signal

\* The direction left when a suppressed one counts as flat.
Effective(signal) ==
  IF Permitted(signal) \in suppressed THEN FLAT ELSE Permitted(signal)

\* Faulty variant: every bar re-sizes the position.
TargetResized(direction, strength) == PositionSize(direction, strength)

\* An already correct position is left alone unless the strategy rebalances.
Target(direction, strength) ==
  IF direction = SignOf(account.qty) /\ ~Rebalances
  THEN account.qty
  ELSE PositionSize(direction, strength)

\* Suppression ends as soon as the signal is anything but the barred direction.
FollowSignal(signal, strength) ==
  /\ Deciding
  /\ suppressed' = suppressed \cap {Permitted(signal)}
  /\ PlaceOrder(Target(Effective(signal), strength))

-----------------------------------------------------------------------------
(* 4. Close out.  The position is closed at the last close whatever the    *)
(* cash on hand, and the last equity point is taken again.                 *)

ClosingFill ==
  MakeFill(IF account.qty > 0 THEN SELL ELSE BUY, Abs(account.qty), market.close)

Closing ==
  /\ phase = "liquidate"
  /\ phase' = "done"
  /\ UNCHANGED <<bar, market, pending, suppressed, tally>>

\* Faulty variant: the last equity point is not taken again.
LiquidateStaleEquity ==
  /\ Closing
  /\ account' = IF account.qty = 0 THEN account ELSE ApplyFill(account, ClosingFill)
  /\ UNCHANGED equity

Liquidate ==
  /\ Closing
  /\ account' = IF account.qty = 0 THEN account ELSE ApplyFill(account, ClosingFill)
  /\ equity' = Equity(account', market.close)

LeaveOpen == Closing /\ UNCHANGED <<account, equity>>

CloseOut == IF LiquidateAtEnd THEN Liquidate ELSE LeaveOpen

Done ==
  /\ phase = "done"
  /\ UNCHANGED vars

-----------------------------------------------------------------------------
Step ==
  \/ NextBar
  \/ FillInFull \/ FillReduced \/ SkipBuy
  \/ MarkToMarket
  \/ ExitPosition
  \/ \E signal \in Directions, strength \in Strengths : FollowSignal(signal, strength)
  \/ CloseOut

Next == Step \/ Done

Spec == Init /\ [][Next]_vars

-----------------------------------------------------------------------------
(* Safety. *)

\* The money in the account and the money in the position, at its cost, are the
\* starting capital plus the gross profit of every trade less every commission:
\* opening, adding, reducing and reversing (Portfolio.apply_fill) neither
\* create nor lose money, in any order.
CashReconciles ==
  account.cash + SignOf(account.qty) * account.basis
    = InitialCash + account.gross - account.commission

\* Every cost paid is charged to exactly one trade or is still attached to the
\* open position, through partial closes, additions and reversals (the
\* entry_cost_share, exit_cost_share and opening_cost of apply_fill).
CostsAttributed ==
  account.commission + account.slippage = account.tradeCosts + account.openCosts

\* No order is lost, filled twice or left over: each placed order is filled,
\* skipped with a warning, or waiting for the next bar, and none waits once the
\* loop has ended (the pending slot of _run_execution).
OrdersSettled ==
  /\ tally.orders = tally.fills + tally.skipped + (IF pending = NoOrder THEN 0 ELSE 1)
  /\ phase \in {"liquidate", "done"} => pending = NoOrder

\* An order reaches execution on the bar after the one that decided it, so the
\* assertion at the head of _execute never fires.
FillsOnNextBar ==
  phase = "execute" => pending.at = bar /\ pending.decided = bar - 1

\* Cash never goes negative while bars are processed, nor at all in a long-only
\* run: the affordability check of _execute covers every buy that needs it.
\* Covering a short in _liquidate is not checked, hence the last disjunct.
CashNeverNegative ==
  account.cash >= 0 \/ (AllowShort /\ phase = "done")

\* A long-only run never holds a short position, whatever the strategy signals,
\* sizes and exits.
LongOnly == ~AllowShort => account.qty >= 0

\* A run that closes out ends with nothing but cash, its last equity point is
\* that cash, and no cost is left unattributed.
ClosedOut ==
  phase = "done" /\ LiquidateAtEnd =>
    /\ account.qty = 0
    /\ account.basis = 0
    /\ account.openCosts = 0
    /\ equity = account.cash

-----------------------------------------------------------------------------
(* Action properties. *)

\* A fill loses exactly the costs it reports: valued at the reference price of
\* the bar, the account falls by the commission and the slippage the fill adds
\* to the totals, on both sides and for every kind of fill.
FillsLoseTheirCosts ==
  [][tally'.fills # tally.fills =>
       Equity(account', Reference) - Equity(account, Reference)
         = (account.commission - account'.commission)
             + (account.slippage - account'.slippage)]_vars

\* While a direction is barred after a discretionary exit, the position never
\* grows in it: a stop is not undone on the next bar.
StopHolds ==
  [][\A direction \in suppressed \cap suppressed' :
       direction * account'.qty <= direction * account.qty]_vars

\* A strategy that does not rebalance never adds to a position it holds.
NoChurn ==
  [][~Rebalances /\ SignOf(account'.qty) = SignOf(account.qty)
       => Abs(account'.qty) <= Abs(account.qty)]_vars

\* A buy the engine reports as reduced is smaller than the buy it replaces.
ReductionsReduce ==
  [][tally'.reduced # tally.reduced
       => account'.qty - account.qty < pending.quantity]_vars
=============================================================================
