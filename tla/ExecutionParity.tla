---------------------------- MODULE ExecutionParity ----------------------------
(***************************************************************************)
(* The parity surface of the two executors: simulate_targets of            *)
(* services/quant/backtest/engine.py and its C++ counterpart, reached       *)
(* through services/quant/backtest/cpp_engine.py and implemented by         *)
(* services/execution-cpp/src/{simulator,portfolio}.cpp.                    *)
(*                                                                         *)
(* A run is either a strategy run (BacktestEngine alone) or a call of      *)
(* simulate_targets with one target quantity per bar.  Such a call is made *)
(* of both executors with the same frame and targets, and the two are run  *)
(* here side by side: each action conjoins one step of the Python loop     *)
(* with the step the C++ loop takes on the same bar.  The C++ side has its *)
(* own state and is translated from its own code; only the amounts a fill  *)
(* carries and the form of an account are shared with Portfolio.           *)
(*                                                                         *)
(* Left out: reasons, timestamps and the per-bar event lists other than    *)
(* their counts; targets are whole quantities.                             *)
(***************************************************************************)
EXTENDS BacktestEngine

CONSTANT Targets   \* the quantities a target array may hold

ASSUME TargetAssumption == Targets \subseteq Int

VARIABLES
  source,   \* who decides the target: a strategy, or the target array
  call,     \* the lengths of the arguments of simulate_targets
  build,    \* where an import of the C++ extension could find it
  cpp       \* the state of the C++ executor

parityVars == <<vars, source, call, build, cpp>>

-----------------------------------------------------------------------------
(* The call and the extension. *)

\* The length of reasons when they are not given.
NoReasons == -1

\* One array of each length the checks tell apart.
Calls ==
  [bars: {0, NumBars}, targets: {0, NumBars}, reasons: {NoReasons, 0, NumBars}]

WellFormed == [bars |-> NumBars, targets |-> NumBars, reasons |-> NoReasons]

\* The checks at the head of simulate_targets, the same in all three places.
Refused ==
  \/ call.bars = 0
  \/ call.targets # call.bars
  \/ call.reasons \notin {NoReasons, call.bars}

Accepted == ~Refused

\* installed: an import by name succeeds.  built: what the local build
\* directory holds, if anything.
Builds == [installed: BOOLEAN, built: {"nothing", "loadable", "other_abi"}]

\* The local build is looked at only when the import by name fails, and a build
\* for another Python is reported, never loaded.
Loaded == build.installed \/ build.built = "loadable"

-----------------------------------------------------------------------------
(* The C++ account (portfolio.cpp). *)

CppOpen(a, fill, signed, cost) ==
  [a EXCEPT !.qty = signed, !.basis = fill.price * Abs(signed), !.openCosts = cost]

CppAdd(a, fill, signed, cost) ==
  [a EXCEPT !.qty = @ + signed,
            !.basis = @ + Abs(fill.price * signed),
            !.openCosts = @ + cost]

\* A position closed in full is reset, one closed in part keeps what remains.
CppClose(a, fill, closing, cost) ==
  LET sign   == SignOf(a.qty)
      entry  == Share(a.openCosts, closing, Abs(a.qty))
      basis  == Share(a.basis, closing, Abs(a.qty))
      gross  == (fill.price * closing - basis) * sign
      costs  == entry + Share(cost, closing, fill.quantity)
      booked == [a EXCEPT !.realized = @ + gross - costs,
                          !.gross = @ + gross,
                          !.tradeCosts = @ + costs]
  IN IF a.qty - sign * closing = 0
     THEN [booked EXCEPT !.qty = 0, !.basis = 0, !.openCosts = 0]
     ELSE [booked EXCEPT !.qty = @ - sign * closing,
                         !.basis = @ - basis,
                         !.openCosts = @ - entry]

\* Every fill that is not in the direction of the position closes what it can;
\* what remains of it opens a position on its own side.
CppApplyFill(a, fill) ==
  LET signed    == fill.side * fill.quantity
      cost      == TotalCost(fill)
      booked    == [a EXCEPT !.cash = @ + CashDelta(fill),
                             !.commission = @ + fill.commission,
                             !.slippage = @ + SlippageCost(fill),
                             !.traded = @ + Notional(fill)]
      closing   == IF Abs(signed) < Abs(a.qty) THEN Abs(signed) ELSE Abs(a.qty)
      remaining == Abs(signed) - closing
      closed    == CppClose(booked, fill, closing, cost)
  IN IF a.qty = 0 THEN CppOpen(booked, fill, signed, cost)
     ELSE IF SignOf(a.qty) = fill.side THEN CppAdd(booked, fill, signed, cost)
     ELSE IF remaining > 0
          THEN CppOpen(closed, fill, fill.side * remaining,
                       cost - Share(cost, closing, fill.quantity))
          ELSE closed

CppEquity(a, price) == a.cash + a.qty * Money(price)

CppCanAfford(a, side, cost) == side = SELL \/ a.cash >= cost

CppMaxAffordable(a, price) ==
  IF price <= 0 THEN 0
  ELSE IF a.cash >= 0 THEN (a.cash * BPS) \div (price * (BPS + CommissionBps))
  ELSE -((-(a.cash * BPS)) \div (price * (BPS + CommissionBps)))

-----------------------------------------------------------------------------
(* The C++ loop (simulator.cpp). *)

\* The C++ executor before a call, and for good when the extension is missing:
\* there is no fallback to the Python engine.
NotRun == [ran |-> FALSE]

CppInitial ==
  [ran |-> TRUE, account |-> InitialAccount, equity |-> InitialCash, pending |-> NoOrder,
   tally |-> [orders |-> 0, fills |-> 0, skipped |-> 0, reduced |-> 0]]

CppFill(order, quantity) == MakeFill(order.side, quantity, Reference)

\* Faulty variant: pending.reset() is missing after a skipped order.
CppExecuteKeepsSkipped ==
  LET order      == cpp.pending
      fill       == CppFill(order, order.quantity)
      affordable == CppMaxAffordable(cpp.account, fill.price)
  IN cpp' =
       IF CppCanAfford(cpp.account, order.side, Notional(fill) + fill.commission)
       THEN [cpp EXCEPT !.account = CppApplyFill(@, fill), !.tally.fills = @ + 1,
                        !.pending = NoOrder]
       ELSE IF affordable <= 0 THEN [cpp EXCEPT !.tally.skipped = @ + 1]
       ELSE [cpp EXCEPT !.account = CppApplyFill(@, CppFill(order, affordable)),
                        !.tally.reduced = @ + 1, !.tally.fills = @ + 1,
                        !.pending = NoOrder]

\* execute, apply_fill and pending.reset, on the bar after the decision.
CppExecute ==
  LET order      == cpp.pending
      fill       == CppFill(order, order.quantity)
      affordable == CppMaxAffordable(cpp.account, fill.price)
      emptied    == [cpp EXCEPT !.pending = NoOrder]
  IN cpp' =
       IF CppCanAfford(cpp.account, order.side, Notional(fill) + fill.commission)
       THEN [emptied EXCEPT !.account = CppApplyFill(@, fill), !.tally.fills = @ + 1]
       ELSE IF affordable <= 0 THEN [emptied EXCEPT !.tally.skipped = @ + 1]
       ELSE [emptied EXCEPT !.account = CppApplyFill(@, CppFill(order, affordable)),
                            !.tally.reduced = @ + 1, !.tally.fills = @ + 1]

CppMark == cpp' = [cpp EXCEPT !.equity = CppEquity(cpp.account, market.close)]

\* make_pending_order: a target already held places nothing.
CppDecide(target) ==
  LET delta == target - cpp.account.qty
  IN cpp' = IF delta = 0 THEN cpp
            ELSE [cpp EXCEPT !.pending = [decided |-> bar, at |-> bar + 1,
                                          side |-> IF delta > 0 THEN BUY ELSE SELL,
                                          quantity |-> Abs(delta)],
                             !.tally.orders = @ + 1]

\* liquidate, and the last equity point taken again.
CppLiquidate ==
  LET held   == cpp.account.qty
      fill   == MakeFill(IF held > 0 THEN SELL ELSE BUY, Abs(held), market.close)
      closed == IF held = 0 THEN cpp.account ELSE CppApplyFill(cpp.account, fill)
  IN cpp' = [cpp EXCEPT !.account = closed, !.equity = CppEquity(closed, market.close)]

-----------------------------------------------------------------------------
(* Both executors, side by side. *)

ParityInit ==
  /\ Init
  /\ \/ source = "strategy" /\ call = WellFormed /\ build = [installed |-> FALSE, built |-> "nothing"]
     \/ source = "targets" /\ call \in Calls /\ build \in Builds
  /\ cpp = NotRun

\* What the C++ executor does while the Python one takes a step: nothing, when
\* it has not been called or could not be loaded.
CppStep(step) == IF cpp.ran THEN step ELSE UNCHANGED cpp

Called == <<source, call, build>>

\* A call with arguments that do not fit is refused by both before any bar;
\* the first bar otherwise starts both.
ReachBar ==
  /\ Accepted
  /\ NextBar
  /\ cpp' = IF bar = 0 /\ source = "targets" /\ Loaded THEN CppInitial ELSE cpp
  /\ UNCHANGED Called

Execute ==
  /\ FillInFull \/ FillReduced \/ SkipBuy
  /\ CppStep(CppExecute)
  /\ UNCHANGED Called

Mark == MarkToMarket /\ CppStep(CppMark) /\ UNCHANGED Called

\* decide of a strategy run.
DecideByStrategy ==
  /\ source = "strategy"
  /\ \/ ExitPosition
     \/ \E signal \in Directions, strength \in Strengths : FollowSignal(signal, strength)
  /\ UNCHANGED <<Called, cpp>>

\* decide of simulate_targets: the target of this bar, whatever the position,
\* the equity and allow_short.
DecideByTarget(target) ==
  /\ source = "targets"
  /\ Deciding
  /\ PlaceOrder(target)
  /\ CppStep(CppDecide(target))
  /\ UNCHANGED <<suppressed, Called>>

WindUp ==
  /\ CloseOut
  /\ CppStep(IF LiquidateAtEnd THEN CppLiquidate ELSE UNCHANGED cpp)
  /\ UNCHANGED Called

Finished ==
  /\ phase = "done" \/ Refused
  /\ UNCHANGED parityVars

ParityNext ==
  \/ ReachBar \/ Execute \/ Mark
  \/ DecideByStrategy
  \/ \E target \in Targets : DecideByTarget(target)
  \/ WindUp
  \/ Finished

ParitySpec == ParityInit /\ [][ParityNext]_parityVars

-----------------------------------------------------------------------------
\* What either executor hands back: the portfolio, the equity curve (its last
\* point so far) and the events, as their counts.  _to_simulation_output builds
\* the same SimulationOutput from the C++ result, a position that is flat
\* without an entry.
PythonOutput == [portfolio |-> account, equity |-> equity, events |-> tally]

CppOutput == [portfolio |-> cpp.account, equity |-> cpp.equity, events |-> cpp.tally]

\* On the same bars and targets the two executors agree on every amount, on the
\* order that is waiting and on how many orders were placed, filled, reduced
\* and skipped, after every step and for every sequence of openings,
\* additions, partial closes, reversals and refused buys ("Same signature, same
\* return type, same numbers", cpp_engine.simulate_targets); and a C++ result
\* exists only where the extension could be loaded.
Parity ==
  cpp.ran =>
    /\ Loaded /\ Accepted
    /\ CppOutput = PythonOutput
    /\ cpp.pending = pending
=============================================================================
