------------------------- MODULE ExecutionParityProofs -------------------------
(***************************************************************************)
(* The two executors agree, for every cost model, price series, set of     *)
(* targets and configuration: the C++ account, order, equity and event     *)
(* counts are those of the Python engine after every step of a call.       *)
(***************************************************************************)
EXTENDS ExecutionParity, BacktestEngineProofs

-----------------------------------------------------------------------------
(* The C++ account does to a fill what the Python one does. *)

\* A position closed in full is reset by the one and left with no more than
\* rounding leaves it, which is nothing, by the other.
LEMMA CloseAgrees ==
  ASSUME NEW a \in Accounts, NEW fill \in Fills, a.qty # 0, NEW cost \in Nat,
         NEW closing \in Nat, closing <= Abs(a.qty), closing <= fill.quantity
  PROVE  CppClose(a, fill, closing, cost) = ClosePosition(a, fill, closing, cost)
<1>. DEFINE sign  == SignOf(a.qty)
            entry == Share(a.openCosts, closing, Abs(a.qty))
            basis == Share(a.basis, closing, Abs(a.qty))
            costs == entry + Share(cost, closing, fill.quantity)
            gross == sign * (fill.price * closing - basis)
            booked == [a EXCEPT !.realized = @ + gross - costs,
                                !.gross = @ + gross,
                                !.tradeCosts = @ + costs]
<1>1. /\ a.qty \in Int /\ a.basis \in Nat /\ a.openCosts \in Nat
      /\ Abs(a.qty) \in Nat /\ Abs(a.qty) > 0
      /\ sign \in {1, -1} /\ a.qty = sign * Abs(a.qty)
      /\ fill.price \in Nat /\ fill.quantity \in Nat
  BY DEF Accounts, Fills, Abs, SignOf
<1>2. entry \in Nat /\ basis \in Nat
  BY <1>1, ShareBounds
<1>3. (fill.price * closing - basis) * sign = gross
  BY <1>1, <1>2
<1>4. booked.qty = a.qty /\ booked.basis = a.basis /\ booked.openCosts = a.openCosts
  BY DEF Accounts
<1>5. ClosePosition(a, fill, closing, cost)
        = [booked EXCEPT !.qty = a.qty - sign * closing,
                         !.basis = a.basis - basis,
                         !.openCosts = a.openCosts - entry]
  BY DEF ClosePosition, Accounts
<1>6. CppClose(a, fill, closing, cost)
        = IF a.qty - sign * closing = 0
          THEN [booked EXCEPT !.qty = 0, !.basis = 0, !.openCosts = 0]
          ELSE [booked EXCEPT !.qty = a.qty - sign * closing,
                              !.basis = a.basis - basis,
                              !.openCosts = a.openCosts - entry]
  BY <1>3, <1>4 DEF CppClose
<1>7. a.qty - sign * closing = 0 => a.basis - basis = 0 /\ a.openCosts - entry = 0
  <2>. SUFFICES ASSUME a.qty - sign * closing = 0
                PROVE  a.basis - basis = 0 /\ a.openCosts - entry = 0
    OBVIOUS
  <2>1. closing = Abs(a.qty)
    BY <1>1
  <2>2. basis = a.basis /\ entry = a.openCosts
    BY <1>1, <2>1, ShareOfWhole
  <2>. QED
    BY <1>1, <2>2
<1>. HIDE DEF booked
<1>. QED
  BY <1>5, <1>6, <1>7

\* Whatever the fill does to the position.
LEMMA ApplyFillAgrees ==
  ASSUME NEW a \in Accounts, NEW fill \in Fills
  PROVE  CppApplyFill(a, fill) = ApplyFill(a, fill)
<1>. DEFINE booked  == Book(a, fill)
            signed  == fill.side * fill.quantity
            cost    == TotalCost(fill)
            held    == Abs(a.qty)
<1>1. /\ a.qty \in Int /\ fill.quantity \in Nat \ {0} /\ fill.side \in {1, -1}
      /\ held \in Nat /\ cost \in Nat /\ fill.price \in Nat
      /\ Abs(signed) = fill.quantity /\ signed \in Int
  BY FillAmounts DEF Accounts, Fills, Sides, BUY, SELL, Abs
<1>2. booked \in Accounts /\ booked.qty = a.qty
  BY BookType, BookPosition
<1>3. booked = [a EXCEPT !.cash = @ + CashDelta(fill),
                         !.commission = @ + fill.commission,
                         !.slippage = @ + SlippageCost(fill),
                         !.traded = @ + Notional(fill)]
  BY DEF Book
<1>4. CppApplyFill(a, fill)
        = LET closing   == IF Abs(signed) < Abs(a.qty) THEN Abs(signed) ELSE Abs(a.qty)
              remaining == Abs(signed) - closing
              closed    == CppClose(booked, fill, closing, cost)
          IN IF a.qty = 0 THEN CppOpen(booked, fill, signed, cost)
             ELSE IF SignOf(a.qty) = fill.side THEN CppAdd(booked, fill, signed, cost)
             ELSE IF remaining > 0
                  THEN CppOpen(closed, fill, fill.side * remaining,
                               cost - Share(cost, closing, fill.quantity))
                  ELSE closed
  BY <1>3 DEF CppApplyFill
<1>. HIDE DEF booked, cost
<1>5. ASSUME NEW b, NEW s, NEW c
      PROVE  CppOpen(b, fill, s, c) = OpenPosition(b, fill, s, c)
  BY DEF CppOpen, OpenPosition
<1>6. CASE a.qty = 0
  BY <1>4, <1>5, <1>6 DEF ApplyFill, booked, cost
<1>7. CASE a.qty # 0 /\ SignOf(a.qty) = fill.side
  <2>1. Abs(fill.price * signed) = fill.price * Abs(signed)
    BY <1>1 DEF Abs
  <2>2. CppAdd(booked, fill, signed, cost) = AddToPosition(booked, fill, signed, cost)
    BY <2>1 DEF CppAdd, AddToPosition
  <2>. QED
    BY <1>4, <1>7, <2>2 DEF ApplyFill, booked, cost
<1>8. CASE a.qty # 0 /\ SignOf(a.qty) # fill.side /\ fill.quantity <= held
  <2>1. /\ Least(fill.quantity, held) = fill.quantity
        /\ (IF Abs(signed) < held THEN Abs(signed) ELSE held) = fill.quantity
        /\ ~(fill.quantity - fill.quantity > 0)
    BY <1>1, <1>8 DEF Least
  <2>2. ApplyFill(a, fill) = ClosePosition(booked, fill, fill.quantity, cost)
    BY <1>8, <2>1 DEF ApplyFill, booked, cost
  <2>3. CppClose(booked, fill, fill.quantity, cost)
          = ClosePosition(booked, fill, fill.quantity, cost)
    BY <1>1, <1>2, <1>8, CloseAgrees
  <2>4. CppApplyFill(a, fill) = CppClose(booked, fill, fill.quantity, cost)
    BY <1>1, <1>4, <1>8, <2>1
  <2>. QED
    BY <2>2, <2>3, <2>4
<1>9. CASE a.qty # 0 /\ SignOf(a.qty) # fill.side /\ fill.quantity > held
  <2>1. /\ Least(fill.quantity, held) = held /\ held # fill.quantity
        /\ (IF Abs(signed) < held THEN Abs(signed) ELSE held) = held
        /\ fill.quantity - held > 0
    BY <1>1, <1>9 DEF Least
  <2>2. ApplyFill(a, fill) = Reverse(booked, fill, held, cost)
    BY <1>9, <2>1 DEF ApplyFill, booked, cost
  <2>3. CppClose(booked, fill, held, cost) = ClosePosition(booked, fill, held, cost)
    BY <1>1, <1>2, <1>9, CloseAgrees
  <2>4. CppApplyFill(a, fill)
          = CppOpen(CppClose(booked, fill, held, cost), fill,
                    fill.side * (fill.quantity - held), cost - Share(cost, held, fill.quantity))
    BY <1>1, <1>4, <1>9, <2>1
  <2>. QED
    BY <1>5, <2>2, <2>3, <2>4 DEF Reverse
<1>. QED
  BY <1>1, <1>6, <1>7, <1>8, <1>9

-----------------------------------------------------------------------------
(* The invariant: the state of the C++ executor is a copy of the Python     *)
(* one's, from the first bar of an accepted call on.                        *)

Mirror ==
  [ran |-> TRUE, account |-> account, equity |-> equity, pending |-> pending, tally |-> tally]

NothingYet ==
  /\ account = InitialAccount /\ equity = InitialCash /\ pending = NoOrder
  /\ tally = [orders |-> 0, fills |-> 0, skipped |-> 0, reduced |-> 0]

MirrorInv ==
  /\ cpp = NotRun \/ (cpp = Mirror /\ source = "targets" /\ Loaded /\ Accepted)
  /\ bar = 0 => cpp = NotRun /\ NothingYet

ParityInv == IInv /\ MirrorInv

\* One step of the C++ loop on a copy leaves a copy.
LEMMA Ran ==
  /\ cpp = NotRun => ~cpp.ran
  /\ cpp = Mirror => /\ cpp.ran /\ cpp.account = account /\ cpp.equity = equity
                     /\ cpp.pending = pending /\ cpp.tally = tally
BY DEF NotRun, Mirror

LEMMA ExecuteAgrees ==
  ASSUME IInv, cpp = Mirror, CppExecute, FillInFull \/ FillReduced \/ SkipBuy
  PROVE  cpp' = Mirror'
<1>. DEFINE fill == CppFill(pending, pending.quantity)
<1>1. /\ phase = "execute" /\ pending' = NoOrder /\ equity' = equity
  BY DEF FillInFull, FillReduced, SkipBuy, Executing
<1>2. /\ OrderedFill \in Fills /\ pending.side \in Sides
      /\ account \in Accounts /\ account.cash \in Int
      /\ Affordable > 0 => MakeFill(pending.side, Affordable, Reference) \in Fills
  BY <1>1, OrderFillType, PendingType DEF IInv, TypeOK, QueueInv, Accounts
<1>3. fill = OrderedFill
  BY DEF CppFill, OrderedFill
<1>4. OrderedFill.side = pending.side
  BY DEF OrderedFill, MakeFill
<1>5. CppCanAfford(account, pending.side, Notional(fill) + fill.commission)
        <=> CanAfford(account, OrderedFill)
  BY <1>3, <1>4 DEF CppCanAfford, CanAfford
<1>6. CppMaxAffordable(account, fill.price) = Affordable
  <2>1. account.cash * BPS >= 0 <=> account.cash >= 0
    BY <1>2, CostAssumption
  <2>. QED
    BY <1>3, <2>1 DEF CppMaxAffordable, Affordable, MaxAffordableQuantity, Truncate
<1>7. /\ CppFill(pending, Affordable) = MakeFill(pending.side, Affordable, Reference)
      /\ CppApplyFill(account, fill) = ApplyFill(account, OrderedFill)
      /\ Affordable > 0 =>
           CppApplyFill(account, CppFill(pending, Affordable))
             = ApplyFill(account, MakeFill(pending.side, Affordable, Reference))
  BY <1>2, <1>3, ApplyFillAgrees DEF CppFill
<1>8. cpp' =
        IF CanAfford(account, OrderedFill)
        THEN [cpp EXCEPT !.pending = NoOrder, !.account = ApplyFill(account, OrderedFill),
                         !.tally = [tally EXCEPT !.fills = @ + 1]]
        ELSE IF Affordable <= 0
        THEN [cpp EXCEPT !.pending = NoOrder, !.tally = [tally EXCEPT !.skipped = @ + 1]]
        ELSE [cpp EXCEPT !.pending = NoOrder,
                         !.account = CppApplyFill(account, CppFill(pending, Affordable)),
                         !.tally = [tally EXCEPT !.fills = @ + 1, !.reduced = @ + 1]]
  <2>. DEFINE emptied == [cpp EXCEPT !.pending = NoOrder]
  <2>1. /\ cpp.account = account /\ cpp.tally = tally /\ cpp.pending = pending
        /\ emptied.account = account /\ emptied.tally = tally
    BY Ran DEF Mirror
  <2>2. cpp' =
          IF CanAfford(account, OrderedFill)
          THEN [emptied EXCEPT !.account = CppApplyFill(@, fill), !.tally.fills = @ + 1]
          ELSE IF Affordable <= 0 THEN [emptied EXCEPT !.tally.skipped = @ + 1]
          ELSE [emptied EXCEPT !.account = CppApplyFill(@, CppFill(pending, Affordable)),
                               !.tally.reduced = @ + 1, !.tally.fills = @ + 1]
    BY <1>5, <1>6, <2>1 DEF CppExecute
  <2>3. tally \in [orders: Nat, fills: Nat, skipped: Nat, reduced: Nat]
    BY DEF IInv, TypeOK
  <2>. QED
    BY <1>7, <2>1, <2>2, <2>3 DEF Mirror
<1>9. CASE FillInFull
  BY <1>1, <1>8, <1>9 DEF FillInFull, Mirror
<1>10. CASE FillReduced
  <2>1. /\ account' = CppApplyFill(account, CppFill(pending, Affordable))
        /\ tally' = [tally EXCEPT !.fills = @ + 1, !.reduced = @ + 1]
        /\ ~CanAfford(account, OrderedFill) /\ ~(Affordable <= 0)
    BY <1>1, <1>7, <1>10, OrderFillType DEF FillReduced, IInv
  <2>. QED
    BY <1>1, <1>8, <2>1 DEF Mirror
<1>11. CASE SkipBuy
  BY <1>1, <1>8, <1>11 DEF SkipBuy, Mirror
<1>. QED
  BY <1>9, <1>10, <1>11

LEMMA MarkAgrees ==
  ASSUME cpp = Mirror, MarkToMarket, CppMark
  PROVE  cpp' = Mirror'
BY DEF Mirror, MarkToMarket, CppMark, CppEquity, Equity

LEMMA DecideAgrees ==
  ASSUME IInv, cpp = Mirror, NEW target \in Int, Deciding, PlaceOrder(target), CppDecide(target)
  PROVE  cpp' = Mirror'
<1>. DEFINE delta == target - account.qty
            order == [decided |-> bar, at |-> bar + 1, side |-> SignOf(delta),
                      quantity |-> Abs(delta)]
<1>1. /\ account' = account /\ equity' = equity /\ pending = NoOrder
      /\ tally \in [orders: Nat, fills: Nat, skipped: Nat, reduced: Nat]
      /\ delta \in Int
  BY DEF Deciding, IInv, TypeOK, QueueInv, Accounts
<1>2. CASE delta = 0
  <2>1. cpp' = cpp
    BY <1>2, Ran DEF CppDecide
  <2>2. pending' = pending /\ tally' = tally
    BY <1>1, <1>2 DEF PlaceOrder
  <2>. QED
    BY <1>1, <2>1, <2>2 DEF Mirror
<1>3. CASE delta # 0
  <2>1. SignOf(delta) = IF delta > 0 THEN BUY ELSE SELL
    BY <1>1, <1>3 DEF SignOf, BUY, SELL
  <2>2. cpp' = [cpp EXCEPT !.pending = order, !.tally.orders = @ + 1]
    BY <1>3, <2>1, Ran DEF CppDecide
  <2>3. pending' = order /\ tally' = [tally EXCEPT !.orders = @ + 1]
    BY <1>3 DEF PlaceOrder
  <2>. HIDE DEF order
  <2>. QED
    BY <1>1, <2>2, <2>3 DEF Mirror
<1>. QED
  BY <1>2, <1>3

LEMMA LiquidateAgrees ==
  ASSUME IInv, cpp = Mirror, Liquidate, CppLiquidate
  PROVE  cpp' = Mirror'
<1>1. /\ account \in Accounts /\ account.qty \in Int /\ market.close \in Nat
      /\ pending' = pending /\ tally' = tally
  BY CloseType DEF IInv, TypeOK, Accounts, Liquidate, Closing
<1>2. account.qty # 0 => CppApplyFill(account, ClosingFill) = ApplyFill(account, ClosingFill)
  <2>1. account.qty # 0 => Abs(account.qty) \in Nat \ {0}
    BY <1>1 DEF Abs
  <2>2. account.qty # 0 => ClosingFill \in Fills
    BY <1>1, <2>1, MakeFillType DEF ClosingFill, Sides
  <2>. QED
    BY <1>1, <2>2, ApplyFillAgrees
<1>3. account' = IF account.qty = 0 THEN account ELSE CppApplyFill(account, ClosingFill)
  BY <1>2 DEF Liquidate
<1>4. cpp' = [cpp EXCEPT !.account = account', !.equity = CppEquity(account', market.close)]
  BY <1>3, Ran DEF CppLiquidate, ClosingFill
<1>. QED
  BY <1>1, <1>4 DEF Mirror, Liquidate, CppEquity, Equity

-----------------------------------------------------------------------------
LEMMA InitParity == ParityInit => ParityInv
BY InitIInv DEF ParityInit, Init, ParityInv, MirrorInv, NothingYet

LEMMA StepParity == ParityInv /\ [ParityNext]_parityVars => ParityInv'
<1>. SUFFICES ASSUME ParityInv, [ParityNext]_parityVars PROVE ParityInv'
  OBVIOUS
<1>. USE DEF ParityInv
<1>1. ASSUME cpp = Mirror => source = "targets" /\ Loaded /\ Accepted, UNCHANGED Called, bar' > 0,
             cpp = NotRun => cpp' = NotRun, cpp = Mirror => cpp' = Mirror'
      PROVE  MirrorInv'
  BY <1>1 DEF MirrorInv, Called, Loaded, Accepted, Refused
<1>2. /\ cpp = Mirror => source = "targets" /\ Loaded /\ Accepted
      /\ phase # "next" => bar \in Nat /\ bar > 0
  BY DEF MirrorInv, NotRun, Mirror, IInv, TypeOK, QueueInv
<1>3. CASE ReachBar
  <2>1. IInv'
    BY <1>3, StepIInv DEF ReachBar, Next, Step
  <2>2. /\ bar' > 0 /\ UNCHANGED <<account, equity, pending, tally>>
    BY <1>3 DEF ReachBar, NextBar, IInv, TypeOK
  <2>3. CASE bar = 0 /\ source = "targets" /\ Loaded
    <3>1. cpp' = CppInitial /\ Accepted /\ NothingYet /\ source' = "targets"
      BY <1>3, <2>3 DEF ReachBar, MirrorInv, Called
    <3>2. cpp' = Mirror'
      BY <2>2, <3>1 DEF CppInitial, Mirror, NothingYet
    <3>3. Loaded' /\ Accepted'
      BY <1>3, <2>3, <3>1 DEF ReachBar, Called, Loaded, Accepted, Refused
    <3>4. bar' # 0
      BY <2>2
    <3>. QED
      BY <2>1, <3>1, <3>2, <3>3, <3>4 DEF MirrorInv
  <2>4. CASE ~(bar = 0 /\ source = "targets" /\ Loaded)
    <3>1. cpp' = cpp /\ UNCHANGED Called
      BY <1>3, <2>4 DEF ReachBar
    <3>2. Mirror' = Mirror
      BY <2>2 DEF Mirror
    <3>. QED
      BY <1>1, <1>2, <2>1, <2>2, <3>1, <3>2
  <2>. QED
    BY <2>3, <2>4
<1>4. CASE Execute
  <2>1. IInv'
    BY <1>4, StepIInv DEF Execute, Next, Step
  <2>2. phase = "execute" /\ bar' = bar
    BY <1>4 DEF Execute, FillInFull, FillReduced, SkipBuy, Executing
  <2>3. cpp = Mirror => cpp' = Mirror'
    BY <1>4, Ran, ExecuteAgrees DEF Execute, CppStep
  <2>4. cpp = NotRun => cpp' = NotRun
    BY <1>4, Ran DEF Execute, CppStep
  <2>. QED
    BY <1>1, <1>2, <1>4, <2>1, <2>2, <2>3, <2>4 DEF Execute
<1>5. CASE Mark
  <2>1. IInv'
    BY <1>5, StepIInv DEF Mark, Next, Step
  <2>2. phase = "mark" /\ bar' = bar
    BY <1>5 DEF Mark, MarkToMarket
  <2>3. cpp = Mirror => cpp' = Mirror'
    BY <1>5, Ran, MarkAgrees DEF Mark, CppStep
  <2>4. cpp = NotRun => cpp' = NotRun
    BY <1>5, Ran DEF Mark, CppStep
  <2>. QED
    BY <1>1, <1>2, <1>5, <2>1, <2>2, <2>3, <2>4 DEF Mark
<1>6. CASE DecideByStrategy
  <2>1. IInv'
    BY <1>6, StepIInv DEF DecideByStrategy, Next, Step
  <2>2. cpp = NotRun
    BY <1>6 DEF DecideByStrategy, MirrorInv
  <2>3. phase = "decide" /\ bar' = bar /\ cpp' = NotRun
    BY <1>6, <2>2 DEF DecideByStrategy, ExitPosition, FollowSignal, Deciding
  <2>4. bar' # 0
    BY <1>2, <2>3
  <2>. QED
    BY <2>1, <2>3, <2>4 DEF MirrorInv
<1>7. ASSUME NEW target \in Targets, DecideByTarget(target) PROVE ParityInv'
  <2>1. target \in Int
    BY TargetAssumption
  <2>2. IInv'
    BY <1>7, <2>1, DecisionKeepsIInv DEF DecideByTarget, IInv, TypeOK
  <2>3. phase = "decide" /\ bar' = bar
    BY <1>7 DEF DecideByTarget, Deciding
  <2>4. cpp = Mirror => cpp' = Mirror'
    BY <1>7, <2>1, Ran, DecideAgrees DEF DecideByTarget, CppStep
  <2>5. cpp = NotRun => cpp' = NotRun
    BY <1>7, Ran DEF DecideByTarget, CppStep
  <2>. QED
    BY <1>1, <1>2, <1>7, <2>2, <2>3, <2>4, <2>5 DEF DecideByTarget
<1>8. CASE WindUp
  <2>1. IInv'
    BY <1>8, StepIInv DEF WindUp, Next, Step
  <2>2. phase = "liquidate" /\ bar' = bar
    BY <1>8 DEF WindUp, CloseOut, Liquidate, LeaveOpen, Closing
  <2>3. cpp = Mirror => cpp' = Mirror'
    <3>1. CASE LiquidateAtEnd
      BY <1>8, <3>1, Ran, LiquidateAgrees DEF WindUp, CloseOut, CppStep
    <3>2. CASE ~LiquidateAtEnd
      <4>1. cpp' = cpp /\ UNCHANGED <<account, equity, pending, tally>>
        BY <1>8, <3>2 DEF WindUp, CloseOut, LeaveOpen, Closing, CppStep
      <4>. QED
        BY <4>1 DEF Mirror
    <3>. QED
      BY <3>1, <3>2
  <2>4. cpp = NotRun => cpp' = NotRun
    BY <1>8, Ran DEF WindUp, CppStep
  <2>. QED
    BY <1>1, <1>2, <1>8, <2>1, <2>2, <2>3, <2>4 DEF WindUp
<1>9. CASE Finished \/ UNCHANGED parityVars
  <2>1. UNCHANGED parityVars
    BY <1>9 DEF Finished
  <2>2. IInv'
    BY <2>1, StepIInv DEF parityVars
  <2>3. MirrorInv'
    BY <2>1 DEF parityVars, vars, MirrorInv, NothingYet, Mirror, Loaded, Accepted, Refused
  <2>. QED
    BY <2>2, <2>3
<1>. QED
  BY <1>3, <1>4, <1>5, <1>6, <1>7, <1>8, <1>9 DEF ParityNext

\* On the same bars and targets the two executors agree after every step: every
\* amount, the order that is waiting and the event counts.
THEOREM ExecutorsAgree == ParitySpec => []Parity
<1>1. ParityInv => Parity
  BY Ran DEF ParityInv, MirrorInv, Parity, CppOutput, PythonOutput
<1>. QED
  BY <1>1, InitParity, StepParity, PTL DEF ParitySpec

\* The Python account of a call of simulate_targets is balanced and its costs
\* attributed whatever the targets are, so by the agreement the C++ one's is too.
THEOREM TargetsReconcile == ParitySpec => [](CashReconciles /\ CostsAttributed)
<1>1. ParityInv => CashReconciles /\ CostsAttributed
  <2>. SUFFICES ASSUME IInv PROVE CashReconciles /\ CostsAttributed
    BY DEF ParityInv
  <2>1. /\ account.cash \in Int /\ account.gross \in Int /\ account.commission \in Nat
        /\ account.basis \in Nat /\ account.qty \in Int /\ InitialCash \in Nat
    BY CashAssumption DEF IInv, TypeOK, Accounts
  <2>2. SignOf(account.qty) * account.basis \in Int
    BY <2>1 DEF SignOf
  <2>3. CashReconciles
    BY <2>1, <2>2 DEF IInv, AccountInv, Balance, CashReconciles
  <2>4. CostsAttributed
    BY DEF IInv, TypeOK, Accounts, AccountInv, Unattributed, CostsAttributed
  <2>. QED
    BY <2>3, <2>4
<1>. QED
  BY <1>1, InitParity, StepParity, PTL DEF ParitySpec
=============================================================================
