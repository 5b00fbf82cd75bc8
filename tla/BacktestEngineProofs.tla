------------------------- MODULE BacktestEngineProofs -------------------------
(***************************************************************************)
(* Theorems about the execution simulator and its accounting, for every    *)
(* series length, price set, cost model and configuration: a fill keeps    *)
(* the account balanced and its costs attributed, the loop is causal and   *)
(* settles its orders, the accounting identities hold throughout, and,     *)
(* without a minimum commission, a long-only run never overdraws its cash  *)
(* and never goes short.                                                   *)
(*                                                                         *)
(* The facts about the operators of Portfolio come first.                  *)
(***************************************************************************)
EXTENDS BacktestEngine, TLAPS

-----------------------------------------------------------------------------
(* Arithmetic. *)

\* A quotient of naturals is a natural, and rounds down.
LEMMA QuotientBounds ==
  ASSUME NEW num \in Nat, NEW den \in Nat, den > 0
  PROVE  /\ num \div den \in Nat
         /\ (num \div den) * den <= num
OBVIOUS

\* The product of two naturals is a natural.
LEMMA ProductNat ==
  ASSUME NEW x \in Nat, NEW y \in Nat
  PROVE  x * y \in Nat
OBVIOUS

\* A share of a part that is not more than the whole is not more than the
\* amount shared (Portfolio._close).
LEMMA ShareBounds ==
  ASSUME NEW amount \in Nat, NEW part \in Nat, NEW whole \in Nat,
         whole > 0, part <= whole
  PROVE  /\ Share(amount, part, whole) \in Nat
         /\ Share(amount, part, whole) <= amount
<1>1. amount * part \in Nat /\ amount * whole \in Nat
  BY ProductNat
<1>2. amount * part <= amount * whole
  OBVIOUS
<1>3. (amount * whole) \div whole = amount
  OBVIOUS
<1>4. (amount * part) \div whole <= (amount * whole) \div whole
  BY <1>1, <1>2
<1>. QED
  BY <1>1, <1>3, <1>4, QuotientBounds DEF Share

\* The share of the whole is the whole: nothing is left over when a position is
\* closed in full.
LEMMA ShareOfWhole ==
  ASSUME NEW amount \in Nat, NEW whole \in Nat, whole > 0
  PROVE  Share(amount, whole, whole) = amount
BY DEF Share

-----------------------------------------------------------------------------
(* Types. *)

\* A fill made from a positive quantity and a positive price is well formed,
\* whichever side it is on: the penalty never turns a price negative.
LEMMA MakeFillType ==
  ASSUME NEW side \in Sides, NEW quantity \in Nat \ {0}, NEW reference \in Nat
  PROVE  MakeFill(side, quantity, reference) \in Fills
<1>. USE CostAssumption
<1>1. Money(reference) \in Nat
  BY ProductNat DEF Money
<1>2. FillPrice(reference, side) \in Nat
  <2>1. Penalty \in Nat
    BY DEF Penalty
  <2>2. BPS + side * Penalty \in Nat
    BY <2>1 DEF Sides, BUY, SELL
  <2>. QED
    BY <2>2, ProductNat DEF FillPrice
<1>3. quantity * FillPrice(reference, side) \in Nat
  BY <1>2, ProductNat
<1>4. (quantity * FillPrice(reference, side)) * CommissionBps \in Nat
  BY <1>3, ProductNat
<1>5. Commission(quantity * FillPrice(reference, side)) \in Nat
  BY <1>4, QuotientBounds DEF Commission, Greatest
<1>. QED
  BY <1>1, <1>2, <1>5 DEF MakeFill, Fills

\* The amounts derived from a fill are naturals.
LEMMA FillAmounts ==
  ASSUME NEW fill \in Fills
  PROVE  /\ Notional(fill) \in Nat
         /\ SlippageCost(fill) \in Nat
         /\ TotalCost(fill) \in Nat
         /\ CashDelta(fill) \in Int
<1>1. /\ fill.side \in {1, -1} /\ fill.quantity \in Nat /\ fill.price \in Nat
      /\ fill.reference \in Nat /\ fill.commission \in Nat
  BY DEF Fills, Sides, BUY, SELL
<1>2. Notional(fill) \in Nat
  BY <1>1, ProductNat DEF Notional
<1>3. Abs(fill.price - fill.reference) \in Nat
  BY <1>1 DEF Abs
<1>4. SlippageCost(fill) \in Nat
  BY <1>1, <1>3, ProductNat DEF SlippageCost
<1>. QED
  BY <1>1, <1>2, <1>4 DEF TotalCost, CashDelta

\* Booking a fill changes cash and the totals and keeps the account well formed.
LEMMA BookType ==
  ASSUME NEW acct \in Accounts, NEW fill \in Fills
  PROVE  Book(acct, fill) \in Accounts
<1>1. /\ CashDelta(fill) \in Int /\ SlippageCost(fill) \in Nat
      /\ Notional(fill) \in Nat /\ fill.commission \in Nat
  BY FillAmounts DEF Fills
<1>. DEFINE result == Book(acct, fill)
<1>2. /\ acct.cash + CashDelta(fill) \in Int
      /\ acct.commission + fill.commission \in Nat
      /\ acct.slippage + SlippageCost(fill) \in Nat
      /\ acct.traded + Notional(fill) \in Nat
  BY <1>1 DEF Accounts
<1>. QED
  BY <1>2 DEF Book, Accounts

\* Booking leaves the position alone.
LEMMA BookPosition ==
  ASSUME NEW acct \in Accounts, NEW fill \in Fills
  PROVE  /\ Book(acct, fill).qty = acct.qty
         /\ Book(acct, fill).basis = acct.basis
         /\ Book(acct, fill).openCosts = acct.openCosts
         /\ Book(acct, fill).realized = acct.realized
         /\ Book(acct, fill).gross = acct.gross
         /\ Book(acct, fill).tradeCosts = acct.tradeCosts
         /\ Book(acct, fill).cash = acct.cash + CashDelta(fill)
         /\ Book(acct, fill).commission = acct.commission + fill.commission
         /\ Book(acct, fill).slippage = acct.slippage + SlippageCost(fill)
BY DEF Book, Accounts

-----------------------------------------------------------------------------
(* What each kind of fill does to the position. *)

\* Opening from flat.
LEMMA OpenType ==
  ASSUME NEW acct \in Accounts, NEW fill \in Fills,
         NEW signed \in Int, NEW cost \in Nat
  PROVE  OpenPosition(acct, fill, signed, cost) \in Accounts
<1>1. Abs(signed) \in Nat /\ fill.price \in Nat
  BY DEF Abs, Fills
<1>2. fill.price * Abs(signed) \in Nat
  BY <1>1, ProductNat
<1>. QED
  BY <1>2 DEF OpenPosition, Accounts

\* Adding to a position.
LEMMA AddType ==
  ASSUME NEW acct \in Accounts, NEW fill \in Fills,
         NEW signed \in Int, NEW cost \in Nat
  PROVE  AddToPosition(acct, fill, signed, cost) \in Accounts
<1>1. Abs(signed) \in Nat /\ fill.price \in Nat
  BY DEF Abs, Fills
<1>2. fill.price * Abs(signed) \in Nat
  BY <1>1, ProductNat
<1>3. /\ acct.qty + signed \in Int
      /\ acct.basis + fill.price * Abs(signed) \in Nat
      /\ acct.openCosts + cost \in Nat
  BY <1>2 DEF Accounts
<1>. QED
  BY <1>3 DEF AddToPosition, Accounts

\* What closing part of a position leaves, field by field: the amounts released
\* never exceed the amounts attached.
LEMMA CloseEffect ==
  ASSUME NEW acct \in Accounts, NEW fill \in Fills, acct.qty # 0,
         NEW closing \in Nat \ {0}, closing <= Abs(acct.qty),
         closing <= fill.quantity, NEW cost \in Nat
  PROVE  /\ ClosePosition(acct, fill, closing, cost) \in Accounts
         /\ LET after == ClosePosition(acct, fill, closing, cost)
                entryBasis == Share(acct.basis, closing, Abs(acct.qty))
            IN /\ after.cash = acct.cash
               /\ after.commission = acct.commission
               /\ after.slippage = acct.slippage
               /\ after.qty = acct.qty - SignOf(acct.qty) * closing
               /\ after.basis = acct.basis - entryBasis
               /\ after.gross = acct.gross
                     + SignOf(acct.qty) * (fill.price * closing - entryBasis)
               /\ after.tradeCosts + after.openCosts
                     = acct.tradeCosts + acct.openCosts
                         + Share(cost, closing, fill.quantity)
<1>. DEFINE held       == Abs(acct.qty)
            entryBasis == Share(acct.basis, closing, held)
            entryCost  == Share(acct.openCosts, closing, held)
            exitCost   == Share(cost, closing, fill.quantity)
            gross      == SignOf(acct.qty) * (fill.price * closing - entryBasis)
<1>1. /\ acct.qty \in Int /\ acct.basis \in Nat /\ acct.openCosts \in Nat
      /\ acct.realized \in Int /\ acct.gross \in Int /\ acct.tradeCosts \in Nat
      /\ fill.price \in Nat /\ fill.quantity \in Nat \ {0}
  BY DEF Accounts, Fills
<1>2. held \in Nat \ {0} /\ SignOf(acct.qty) \in {1, -1}
  BY <1>1 DEF Abs, SignOf
<1>3. entryBasis \in Nat /\ entryBasis <= acct.basis
  <2>1. closing \in Nat /\ held \in Nat /\ held > 0 /\ closing <= held
    BY <1>2
  <2>. QED
    BY <1>1, <2>1, ShareBounds
<1>4. entryCost \in Nat /\ entryCost <= acct.openCosts
  <2>1. closing \in Nat /\ held \in Nat /\ held > 0 /\ closing <= held
    BY <1>2
  <2>. QED
    BY <1>1, <2>1, ShareBounds
<1>5. exitCost \in Nat
  <2>1. closing \in Nat /\ fill.quantity \in Nat /\ fill.quantity > 0
    BY <1>1
  <2>. QED
    BY <2>1, ShareBounds
<1>6. fill.price * closing \in Nat
  BY <1>1, ProductNat
<1>7. gross \in Int
  BY <1>2, <1>3, <1>6
<1>8. ClosePosition(acct, fill, closing, cost)
        = [acct EXCEPT !.qty = acct.qty - SignOf(acct.qty) * closing,
                          !.basis = acct.basis - entryBasis,
                          !.openCosts = acct.openCosts - entryCost,
                          !.realized = acct.realized + gross - (entryCost + exitCost),
                          !.gross = acct.gross + gross,
                          !.tradeCosts = acct.tradeCosts + (entryCost + exitCost)]
  BY DEF ClosePosition
<1>9. /\ acct.qty - SignOf(acct.qty) * closing \in Int
      /\ acct.basis - entryBasis \in Nat
      /\ acct.openCosts - entryCost \in Nat
      /\ acct.realized + gross - (entryCost + exitCost) \in Int
      /\ acct.gross + gross \in Int
      /\ acct.tradeCosts + (entryCost + exitCost) \in Nat
  BY <1>1, <1>2, <1>3, <1>4, <1>5, <1>7
<1>. HIDE DEF held, entryBasis, entryCost, exitCost, gross
<1>10. ClosePosition(acct, fill, closing, cost) \in Accounts
  BY <1>8, <1>9 DEF Accounts
<1>11. LET after == ClosePosition(acct, fill, closing, cost)
       IN /\ after.cash = acct.cash
          /\ after.commission = acct.commission
          /\ after.slippage = acct.slippage
          /\ after.qty = acct.qty - SignOf(acct.qty) * closing
          /\ after.basis = acct.basis - entryBasis
          /\ after.gross = acct.gross + gross
          /\ after.openCosts = acct.openCosts - entryCost
          /\ after.tradeCosts = acct.tradeCosts + (entryCost + exitCost)
  BY <1>8 DEF Accounts
<1>12. (acct.tradeCosts + (entryCost + exitCost)) + (acct.openCosts - entryCost)
         = acct.tradeCosts + acct.openCosts + exitCost
  BY <1>1, <1>4, <1>5
<1>. QED
  BY <1>10, <1>11, <1>12 DEF held, entryBasis, entryCost, exitCost, gross

-----------------------------------------------------------------------------
(* What a fill preserves.                                                  *)

\* A flat position has neither basis nor costs attached.
FlatIsEmpty(acct) ==
  acct.qty = 0 => acct.basis = 0 /\ acct.openCosts = 0

\* Cash, plus the position at cost, less gross profit, plus commission.
Balance(acct) ==
  acct.cash + SignOf(acct.qty) * acct.basis - acct.gross + acct.commission

\* Costs paid and not yet charged to a trade or to the open position.
Unattributed(acct) ==
  acct.commission + acct.slippage - acct.tradeCosts - acct.openCosts

Preserved(acct, after) ==
  /\ after \in Accounts
  /\ FlatIsEmpty(after)
  /\ Balance(after) = Balance(acct)
  /\ Unattributed(after) = Unattributed(acct)

Moved(acct, fill, after) ==
  /\ after.qty = acct.qty + fill.side * fill.quantity
  /\ after.cash = acct.cash + CashDelta(fill)

\* Opening from flat preserves balance and attribution.
LEMMA OpenPreserves ==
  ASSUME NEW acct \in Accounts, NEW fill \in Fills,
         acct.qty = 0, FlatIsEmpty(acct)
  PROVE  LET after == OpenPosition(Book(acct, fill), fill,
                                   fill.side * fill.quantity, TotalCost(fill))
         IN Preserved(acct, after) /\ Moved(acct, fill, after)
<1>. DEFINE booked == Book(acct, fill)
            signed == fill.side * fill.quantity
            after  == OpenPosition(booked, fill, signed, TotalCost(fill))
<1>1. /\ fill.side \in {1, -1} /\ fill.quantity \in Nat \ {0} /\ fill.price \in Nat
      /\ fill.commission \in Nat
  BY DEF Fills, Sides, BUY, SELL
<1>2. signed \in Int /\ signed # 0
  BY <1>1
<1>3. after \in Accounts
  BY <1>2, BookType, FillAmounts, OpenType
<1>4. /\ after.qty = signed
      /\ after.basis = fill.price * Abs(signed)
      /\ after.openCosts = TotalCost(fill)
      /\ after.cash = booked.cash /\ after.gross = booked.gross
      /\ after.commission = booked.commission /\ after.slippage = booked.slippage
      /\ after.tradeCosts = booked.tradeCosts
  BY BookType DEF OpenPosition, Accounts
<1>5. SignOf(signed) * (fill.price * Abs(signed)) = fill.side * Notional(fill)
  BY <1>1 DEF SignOf, Abs, Notional
<1>6. /\ acct.cash \in Int /\ acct.gross \in Int /\ acct.commission \in Nat
      /\ acct.slippage \in Nat /\ acct.tradeCosts \in Nat
      /\ acct.basis = 0 /\ acct.openCosts = 0
  BY DEF Accounts, FlatIsEmpty
<1>. HIDE DEF signed, after, booked
<1>7. fill.side * Notional(fill) \in Int
  BY <1>1, FillAmounts
<1>8. Balance(after) = Balance(acct)
  <2>1. Balance(acct) = acct.cash - acct.gross + acct.commission
    BY <1>6 DEF Balance, SignOf
  <2>2. Balance(after) = (acct.cash + CashDelta(fill)) + fill.side * Notional(fill)
                           - acct.gross + (acct.commission + fill.commission)
    BY <1>4, <1>5, BookPosition DEF Balance, booked
  <2>. QED
    BY <1>1, <1>6, <1>7, <2>1, <2>2 DEF CashDelta
<1>9. Unattributed(after) = Unattributed(acct)
  BY <1>1, <1>4, <1>6, FillAmounts, BookPosition DEF Unattributed, TotalCost, booked
<1>10. FlatIsEmpty(after)
  BY <1>2, <1>4 DEF FlatIsEmpty
<1>11. Moved(acct, fill, after)
  BY <1>1, <1>4, BookPosition DEF Moved, signed, booked
<1>. QED
  BY <1>3, <1>8, <1>9, <1>10, <1>11 DEF Preserved, after, signed, booked

\* Adding in the direction of the position preserves them.
LEMMA AddPreserves ==
  ASSUME NEW acct \in Accounts, NEW fill \in Fills,
         acct.qty # 0, SignOf(acct.qty) = fill.side
  PROVE  LET after == AddToPosition(Book(acct, fill), fill,
                                    fill.side * fill.quantity, TotalCost(fill))
         IN Preserved(acct, after) /\ Moved(acct, fill, after)
<1>. DEFINE booked == Book(acct, fill)
            signed == fill.side * fill.quantity
            after  == AddToPosition(booked, fill, signed, TotalCost(fill))
<1>1. /\ fill.side \in {1, -1} /\ fill.quantity \in Nat \ {0} /\ fill.price \in Nat
      /\ fill.commission \in Nat
  BY DEF Fills, Sides, BUY, SELL
<1>2. signed \in Int /\ signed # 0
  BY <1>1
<1>3. after \in Accounts
  BY <1>2, BookType, FillAmounts, AddType
<1>4. /\ after.qty = booked.qty + signed
      /\ after.basis = booked.basis + fill.price * Abs(signed)
      /\ after.openCosts = booked.openCosts + TotalCost(fill)
      /\ after.cash = booked.cash /\ after.gross = booked.gross
      /\ after.commission = booked.commission /\ after.slippage = booked.slippage
      /\ after.tradeCosts = booked.tradeCosts
  BY BookType DEF AddToPosition, Accounts
<1>5. fill.price * Abs(signed) = Notional(fill)
  BY <1>1 DEF Abs, Notional
<1>6. /\ acct.cash \in Int /\ acct.gross \in Int /\ acct.commission \in Nat
      /\ acct.slippage \in Nat /\ acct.tradeCosts \in Nat
      /\ acct.basis \in Nat /\ acct.openCosts \in Nat /\ acct.qty \in Int
  BY DEF Accounts
<1>7. /\ SignOf(acct.qty + signed) = fill.side
      /\ acct.qty + signed # 0
  BY <1>1, <1>6 DEF SignOf
<1>. HIDE DEF signed, after, booked
<1>8. Balance(after) = Balance(acct)
  <2>1. Balance(acct)
          = acct.cash + fill.side * acct.basis - acct.gross + acct.commission
    BY DEF Balance
  <2>2. Balance(after)
          = (acct.cash + CashDelta(fill)) + fill.side * (acct.basis + Notional(fill))
              - acct.gross + (acct.commission + fill.commission)
    BY <1>4, <1>5, <1>7, BookPosition DEF Balance, booked
  <2>3. CASE fill.side = 1
    BY <1>1, <1>6, <2>1, <2>2, <2>3, FillAmounts DEF CashDelta
  <2>4. CASE fill.side = -1
    BY <1>1, <1>6, <2>1, <2>2, <2>4, FillAmounts DEF CashDelta
  <2>. QED
    BY <1>1, <2>3, <2>4
<1>9. Unattributed(after) = Unattributed(acct)
  BY <1>1, <1>4, <1>6, FillAmounts, BookPosition DEF Unattributed, TotalCost, booked
<1>10. FlatIsEmpty(after)
  BY <1>4, <1>7, BookPosition DEF FlatIsEmpty, booked
<1>11. Moved(acct, fill, after)
  BY <1>1, <1>4, BookPosition DEF Moved, signed, booked
<1>. QED
  BY <1>3, <1>8, <1>9, <1>10, <1>11 DEF Preserved, after, signed, booked

\* Closing part or all of the position preserves them.
LEMMA ClosePreserves ==
  ASSUME NEW acct \in Accounts, NEW fill \in Fills, acct.qty # 0,
         SignOf(acct.qty) # fill.side, fill.quantity <= Abs(acct.qty)
  PROVE  LET after == ClosePosition(Book(acct, fill), fill,
                                    fill.quantity, TotalCost(fill))
         IN Preserved(acct, after) /\ Moved(acct, fill, after)
<1>. DEFINE booked == Book(acct, fill)
            after  == ClosePosition(booked, fill, fill.quantity, TotalCost(fill))
            share  == Share(acct.basis, fill.quantity, Abs(acct.qty))
            kept   == acct.qty + fill.side * fill.quantity
<1>1. /\ fill.side \in {1, -1} /\ fill.quantity \in Nat \ {0} /\ fill.price \in Nat
      /\ fill.commission \in Nat
  BY DEF Fills, Sides, BUY, SELL
<1>2. /\ acct.cash \in Int /\ acct.gross \in Int /\ acct.commission \in Nat
      /\ acct.slippage \in Nat /\ acct.tradeCosts \in Nat
      /\ acct.basis \in Nat /\ acct.openCosts \in Nat /\ acct.qty \in Int
  BY DEF Accounts
<1>3. booked \in Accounts /\ booked.qty # 0 /\ fill.quantity <= Abs(booked.qty)
  BY BookType, BookPosition
<1>4. SignOf(acct.qty) = -fill.side
  BY <1>1, <1>2 DEF SignOf
<1>5. /\ after \in Accounts
      /\ after.cash = booked.cash
      /\ after.commission = booked.commission
      /\ after.slippage = booked.slippage
      /\ after.qty = booked.qty - SignOf(booked.qty) * fill.quantity
      /\ after.basis = booked.basis - share
      /\ after.gross = booked.gross
            + SignOf(booked.qty) * (fill.price * fill.quantity - share)
      /\ after.tradeCosts + after.openCosts
            = booked.tradeCosts + booked.openCosts
                + Share(TotalCost(fill), fill.quantity, fill.quantity)
  <2>1. fill.quantity <= fill.quantity /\ TotalCost(fill) \in Nat
    BY <1>1, FillAmounts
  <2>2. Share(booked.basis, fill.quantity, Abs(booked.qty)) = share
    BY BookPosition
  <2>. HIDE DEF booked, share
  <2>. QED
    BY <1>1, <1>3, <2>1, <2>2, CloseEffect
<1>. HIDE DEF after, booked
<1>6. share \in Nat
  <2>1. Abs(acct.qty) \in Nat /\ Abs(acct.qty) > 0
    BY <1>2 DEF Abs
  <2>. QED
    BY <1>1, <1>2, <2>1, ShareBounds
<1>7. fill.price * fill.quantity = Notional(fill) /\ Notional(fill) \in Nat
  BY <1>1, FillAmounts DEF Notional
<1>8. after.qty = kept
  BY <1>1, <1>2, <1>4, <1>5, BookPosition DEF booked
<1>9. kept = 0 => share = acct.basis
  <2>1. kept = 0 => Abs(acct.qty) = fill.quantity
    BY <1>1, <1>2 DEF Abs
  <2>. QED
    BY <1>1, <1>2, <2>1, ShareOfWhole
<1>10. kept # 0 => SignOf(kept) = SignOf(acct.qty)
  BY <1>1, <1>2, <1>4 DEF SignOf, Abs
<1>. HIDE DEF share, kept
<1>11. SignOf(kept) * (acct.basis - share) = -(fill.side * (acct.basis - share))
  <2>1. CASE kept = 0
    <3>1. SignOf(kept) = 0 /\ acct.basis - share = 0
      BY <1>2, <1>9, <2>1 DEF SignOf
    <3>. QED
      BY <1>1, <3>1
  <2>2. CASE kept # 0
    BY <1>1, <1>2, <1>4, <1>6, <1>10, <2>2
  <2>. QED
    BY <2>1, <2>2
<1>12. Balance(after) = Balance(acct)
  <2>1. Balance(acct)
          = acct.cash + (-fill.side) * acct.basis - acct.gross + acct.commission
    BY <1>4 DEF Balance
  <2>2. Balance(after)
          = (acct.cash + CashDelta(fill)) + SignOf(kept) * (acct.basis - share)
              - (acct.gross + (-fill.side) * (Notional(fill) - share))
              + (acct.commission + fill.commission)
    BY <1>4, <1>5, <1>7, <1>8, BookPosition DEF Balance, booked
  <2>3. CASE fill.side = 1
    BY <1>1, <1>2, <1>6, <1>7, <1>11, <2>1, <2>2, <2>3 DEF CashDelta
  <2>4. CASE fill.side = -1
    BY <1>1, <1>2, <1>6, <1>7, <1>11, <2>1, <2>2, <2>4 DEF CashDelta
  <2>. QED
    BY <1>1, <2>3, <2>4
<1>13. Unattributed(after) = Unattributed(acct)
  <2>1. Share(TotalCost(fill), fill.quantity, fill.quantity) = TotalCost(fill)
    BY <1>1, FillAmounts, ShareOfWhole
  <2>2. /\ after.commission = acct.commission + fill.commission
        /\ after.slippage = acct.slippage + SlippageCost(fill)
        /\ after.tradeCosts + after.openCosts
              = acct.tradeCosts + acct.openCosts + TotalCost(fill)
    BY <1>5, <2>1, BookPosition DEF booked
  <2>3. after.tradeCosts \in Nat /\ after.openCosts \in Nat
    BY <1>5 DEF Accounts
  <2>4. SlippageCost(fill) \in Nat
    BY FillAmounts
  <2>. QED
    BY <1>1, <1>2, <2>2, <2>3, <2>4 DEF Unattributed, TotalCost
<1>14. FlatIsEmpty(after)
  <2>1. ASSUME kept = 0
        PROVE  after.basis = 0 /\ after.openCosts = 0
    <3>1. after.basis = 0
      BY <1>2, <1>5, <1>9, <2>1, BookPosition DEF booked
    <3>2. after.openCosts = 0
      <4>1. Abs(acct.qty) = fill.quantity /\ booked.qty = acct.qty
        BY <1>1, <1>2, <2>1, BookPosition DEF Abs, kept, booked
      <4>2. after.openCosts
              = booked.openCosts - Share(booked.openCosts, fill.quantity, Abs(booked.qty))
        BY <1>3 DEF after, ClosePosition, Accounts
      <4>3. booked.openCosts \in Nat
        BY <1>3 DEF Accounts
      <4>. QED
        BY <1>1, <4>1, <4>2, <4>3, ShareOfWhole
    <3>. QED
      BY <3>1, <3>2
  <2>. QED
    BY <1>8, <2>1 DEF FlatIsEmpty
<1>15. Moved(acct, fill, after)
  BY <1>5, <1>8, BookPosition DEF Moved, kept, booked
<1>. QED
  BY <1>5, <1>12, <1>13, <1>14, <1>15 DEF Preserved, after, booked

\* Reversing closes the whole position and opens the rest: the two parts share
\* the cost of the fill, and the balance is kept.
LEMMA ReversePreserves ==
  ASSUME NEW acct \in Accounts, NEW fill \in Fills, acct.qty # 0,
         SignOf(acct.qty) # fill.side, fill.quantity > Abs(acct.qty)
  PROVE  LET after == Reverse(Book(acct, fill), fill, Abs(acct.qty), TotalCost(fill))
         IN Preserved(acct, after) /\ Moved(acct, fill, after)
<1>. DEFINE booked == Book(acct, fill)
            held   == Abs(acct.qty)
            rest   == fill.quantity - held
            part   == Share(TotalCost(fill), held, fill.quantity)
            closed == ClosePosition(booked, fill, held, TotalCost(fill))
            after  == OpenPosition(closed, fill, fill.side * rest, TotalCost(fill) - part)
<1>1. /\ fill.side \in {1, -1} /\ fill.quantity \in Nat \ {0} /\ fill.price \in Nat
      /\ fill.commission \in Nat
  BY DEF Fills, Sides, BUY, SELL
<1>2. /\ acct.cash \in Int /\ acct.gross \in Int /\ acct.commission \in Nat
      /\ acct.slippage \in Nat /\ acct.tradeCosts \in Nat
      /\ acct.basis \in Nat /\ acct.openCosts \in Nat /\ acct.qty \in Int
  BY DEF Accounts
<1>3. booked \in Accounts /\ booked.qty = acct.qty /\ booked.basis = acct.basis
  BY BookType, BookPosition
<1>4. SignOf(acct.qty) = -fill.side
  BY <1>1, <1>2 DEF SignOf
<1>5. held \in Nat \ {0} /\ held <= fill.quantity /\ rest \in Nat \ {0}
  BY <1>1, <1>2 DEF Abs
<1>6. TotalCost(fill) \in Nat
  BY FillAmounts
<1>7. part \in Nat /\ part <= TotalCost(fill)
  <2>. HIDE DEF held
  <2>1. held \in Nat /\ fill.quantity \in Nat /\ fill.quantity > 0
    BY <1>1, <1>5
  <2>. QED
    BY <1>5, <1>6, <2>1, ShareBounds
<1>8. Share(booked.basis, held, Abs(booked.qty)) = acct.basis
  <2>1. Abs(booked.qty) = held
    BY <1>3
  <2>. HIDE DEF held, booked
  <2>. QED
    BY <1>2, <1>3, <1>5, <2>1, ShareOfWhole
<1>9. /\ closed \in Accounts
      /\ closed.cash = booked.cash
      /\ closed.commission = booked.commission
      /\ closed.slippage = booked.slippage
      /\ closed.gross = booked.gross + (-fill.side) * (fill.price * held - acct.basis)
      /\ closed.tradeCosts + closed.openCosts
            = booked.tradeCosts + booked.openCosts + part
  <2>1. held <= Abs(booked.qty) /\ SignOf(booked.qty) = -fill.side /\ booked.qty # 0
    BY <1>2, <1>3, <1>4 DEF Abs
  <2>. HIDE DEF held, booked
  <2>. QED
    BY <1>3, <1>5, <1>6, <1>8, <2>1, CloseEffect
<1>10. closed.openCosts = 0
  <2>1. Abs(booked.qty) = held /\ booked.openCosts \in Nat
    BY <1>3 DEF Accounts
  <2>. HIDE DEF held, booked
  <2>2. closed.openCosts = booked.openCosts - Share(booked.openCosts, held, held)
    BY <1>3, <2>1 DEF ClosePosition, Accounts
  <2>. QED
    BY <1>5, <2>1, <2>2, ShareOfWhole
<1>. HIDE DEF booked, part, closed
<1>11. /\ after.qty = fill.side * rest
       /\ after.basis = fill.price * Abs(fill.side * rest)
       /\ after.openCosts = TotalCost(fill) - part
       /\ after.cash = closed.cash /\ after.gross = closed.gross
       /\ after.commission = closed.commission /\ after.slippage = closed.slippage
       /\ after.tradeCosts = closed.tradeCosts
  BY <1>9 DEF OpenPosition, Accounts
<1>12. fill.side * rest \in Int /\ TotalCost(fill) - part \in Nat /\ fill.side * rest # 0
  <2>. HIDE DEF rest
  <2>. QED
    BY <1>1, <1>5, <1>6, <1>7
<1>13. after \in Accounts
  BY <1>9, <1>12, OpenType
<1>14. SignOf(fill.side * rest) * (fill.price * Abs(fill.side * rest))
         = fill.side * (fill.price * rest)
  <2>. HIDE DEF rest
  <2>. QED
    BY <1>1, <1>5 DEF SignOf, Abs
<1>15. /\ fill.price * rest \in Nat /\ fill.price * held \in Nat
       /\ fill.price * rest + fill.price * held = Notional(fill)
  <2>1. fill.price * held \in Nat /\ fill.price * rest \in Nat
    <3>. HIDE DEF held, rest
    <3>. QED
      BY <1>1, <1>5, ProductNat
  <2>2. fill.price * rest + fill.price * held = fill.quantity * fill.price
    <3>1. rest + held = fill.quantity
      BY <1>1, <1>5
    <3>. HIDE DEF held, rest
    <3>. QED
      BY <1>1, <1>5, <3>1
  <2>. QED
    BY <2>1, <2>2 DEF Notional
<1>16. acct.qty + fill.side * fill.quantity = fill.side * rest
  BY <1>1, <1>2, <1>4 DEF Abs, SignOf
<1>. HIDE DEF held, rest, after
<1>17. Balance(after) = Balance(acct)
  <2>1. Balance(acct)
          = acct.cash + (-fill.side) * acct.basis - acct.gross + acct.commission
    BY <1>4 DEF Balance
  <2>2. Balance(after)
          = (acct.cash + CashDelta(fill)) + fill.side * (fill.price * rest)
              - (acct.gross + (-fill.side) * (fill.price * held - acct.basis))
              + (acct.commission + fill.commission)
    BY <1>9, <1>11, <1>14, BookPosition DEF Balance, booked
  <2>3. CASE fill.side = 1
    BY <1>1, <1>2, <1>15, <2>1, <2>2, <2>3 DEF CashDelta
  <2>4. CASE fill.side = -1
    BY <1>1, <1>2, <1>15, <2>1, <2>2, <2>4 DEF CashDelta
  <2>. QED
    BY <1>1, <2>3, <2>4
<1>18. Unattributed(after) = Unattributed(acct)
  <2>1. /\ after.commission = acct.commission + fill.commission
        /\ after.slippage = acct.slippage + SlippageCost(fill)
        /\ after.tradeCosts = acct.tradeCosts + acct.openCosts + part
    <3>1. closed.tradeCosts \in Nat
      BY <1>9 DEF Accounts
    <3>. QED
      BY <1>9, <1>10, <1>11, <3>1, BookPosition DEF booked
  <2>2. SlippageCost(fill) \in Nat
    BY FillAmounts
  <2>. QED
    BY <1>1, <1>2, <1>7, <1>11, <2>1, <2>2 DEF Unattributed, TotalCost
<1>19. FlatIsEmpty(after)
  BY <1>11, <1>12 DEF FlatIsEmpty
<1>20. Moved(acct, fill, after)
  BY <1>9, <1>11, <1>16, BookPosition DEF Moved, booked
<1>. QED
  BY <1>13, <1>17, <1>18, <1>19, <1>20 DEF Preserved, after, rest, held, closed, part,
     booked, Reverse

\* Any fill, whatever it does to the position, keeps the account well formed,
\* balanced and its costs attributed, and moves cash and position as reported
\* (Portfolio.apply_fill).
THEOREM ApplyFillPreserves ==
  ASSUME NEW acct \in Accounts, NEW fill \in Fills, FlatIsEmpty(acct)
  PROVE  /\ Preserved(acct, ApplyFill(acct, fill))
         /\ Moved(acct, fill, ApplyFill(acct, fill))
<1>1. /\ acct.qty \in Int /\ fill.quantity \in Nat \ {0} /\ Abs(acct.qty) \in Nat
  BY DEF Accounts, Fills, Abs
<1>2. CASE acct.qty = 0
  <2>1. ApplyFill(acct, fill) = OpenPosition(Book(acct, fill), fill,
                                     fill.side * fill.quantity, TotalCost(fill))
    BY <1>2 DEF ApplyFill
  <2>. QED
    BY <1>2, <2>1, OpenPreserves
<1>3. CASE acct.qty # 0 /\ SignOf(acct.qty) = fill.side
  <2>1. ApplyFill(acct, fill) = AddToPosition(Book(acct, fill), fill,
                                     fill.side * fill.quantity, TotalCost(fill))
    BY <1>3 DEF ApplyFill
  <2>. QED
    BY <1>3, <2>1, AddPreserves
<1>4. CASE acct.qty # 0 /\ SignOf(acct.qty) # fill.side
           /\ fill.quantity <= Abs(acct.qty)
  <2>1. Least(fill.quantity, Abs(acct.qty)) = fill.quantity
    BY <1>1, <1>4 DEF Least
  <2>2. ApplyFill(acct, fill) = ClosePosition(Book(acct, fill), fill,
                                     fill.quantity, TotalCost(fill))
    BY <1>4, <2>1 DEF ApplyFill
  <2>. QED
    BY <1>4, <2>2, ClosePreserves
<1>5. CASE acct.qty # 0 /\ SignOf(acct.qty) # fill.side
           /\ fill.quantity > Abs(acct.qty)
  <2>1. /\ Least(fill.quantity, Abs(acct.qty)) = Abs(acct.qty)
        /\ Abs(acct.qty) # fill.quantity
    BY <1>1, <1>5 DEF Least
  <2>2. ApplyFill(acct, fill)
          = Reverse(Book(acct, fill), fill, Abs(acct.qty), TotalCost(fill))
    BY <1>5, <2>1 DEF ApplyFill
  <2>. QED
    BY <1>5, <2>2, ReversePreserves
<1>. QED
  BY <1>1, <1>2, <1>3, <1>4, <1>5

-----------------------------------------------------------------------------
(* The inductive invariant. *)

\* Where the loop stands and what the pending slot may hold there.
QueueInv ==
  /\ phase \in {"next", "decide"} => bar < NumBars
  /\ phase # "next" => bar > 0
  /\ phase = "next" /\ pending # NoOrder => pending.decided = bar /\ pending.at = bar + 1
  /\ phase = "execute" => /\ pending # NoOrder
                          /\ pending.decided = bar - 1
                          /\ pending.at = bar
  /\ phase \in {"mark", "decide", "liquidate", "done"} => pending = NoOrder

TallyInv ==
  tally.orders = tally.fills + tally.skipped + (IF pending = NoOrder THEN 0 ELSE 1)

AccountInv ==
  /\ FlatIsEmpty(account)
  /\ Balance(account) = InitialCash
  /\ Unattributed(account) = 0

IInv == TypeOK /\ QueueInv /\ TallyInv /\ AccountInv

-----------------------------------------------------------------------------
(* Lemmas about single steps. *)

\* int() of an exact quotient is an integer, and does not change the sign.
LEMMA TruncateType ==
  ASSUME NEW num \in Int, NEW den \in Nat, den > 0
  PROVE  /\ Truncate(num, den) \in Int
         /\ num >= 0 => Truncate(num, den) >= 0
<1>1. CASE num >= 0
  BY <1>1, QuotientBounds DEF Truncate
<1>2. CASE num < 0
  <2>1. -num \in Nat
    BY <1>2
  <2>2. (-num) \div den \in Nat
    BY <2>1, QuotientBounds
  <2>. QED
    BY <1>2, <2>2 DEF Truncate
<1>. QED
  BY <1>1, <1>2

\* The empty slot is the only order without a positive quantity.
LEMMA PendingType ==
  ASSUME pending \in Orders, pending # NoOrder
  PROVE  /\ pending.side \in Sides
         /\ pending.quantity \in Nat \ {0}
         /\ pending.decided \in 1..NumBars
         /\ pending.at \in 1..NumBars
BY DEF Orders

\* The fill of an order is well formed, whatever is left of its quantity.
LEMMA OrderFillType ==
  ASSUME TypeOK, QueueInv, phase = "execute"
  PROVE  /\ Reference \in Nat
         /\ OrderedFill \in Fills
         /\ Affordable \in Int
         /\ Affordable > 0 => MakeFill(pending.side, Affordable, Reference) \in Fills
<1>. USE CostAssumption, EngineAssumption
<1>1. Reference \in Nat
  <2>1. market \in Bars
    BY DEF TypeOK, QueueInv
  <2>2. market.open \in Nat /\ market.close \in Nat
    BY <2>1 DEF Bars
  <2>. QED
    BY <2>2 DEF Reference
<1>2. pending.side \in Sides /\ pending.quantity \in Nat \ {0}
  BY PendingType DEF TypeOK, QueueInv
<1>3. OrderedFill \in Fills
  BY <1>1, <1>2, MakeFillType DEF OrderedFill
<1>4. Affordable \in Int
  <2>1. OrderedFill.price \in Nat /\ account.cash \in Int
    BY <1>3 DEF Fills, TypeOK, Accounts
  <2>2. CASE OrderedFill.price <= 0
    BY <2>2 DEF Affordable, MaxAffordableQuantity
  <2>3. CASE OrderedFill.price > 0
    <3>1. OrderedFill.price * (BPS + CommissionBps) \in Nat /\ BPS + CommissionBps > 0
      BY <2>1, ProductNat
    <3>2. OrderedFill.price * (BPS + CommissionBps) > 0
      BY <2>1, <2>3, <3>1
    <3>3. account.cash * BPS \in Int
      BY <2>1
    <3>4. Affordable
            = Truncate(account.cash * BPS, OrderedFill.price * (BPS + CommissionBps))
      BY <2>1, <2>3 DEF Affordable, MaxAffordableQuantity
    <3>. QED
      BY <3>1, <3>2, <3>3, <3>4, TruncateType
  <2>. QED
    BY <2>1, <2>2, <2>3
<1>5. Affordable > 0 => MakeFill(pending.side, Affordable, Reference) \in Fills
  <2>. SUFFICES ASSUME Affordable > 0
                PROVE  MakeFill(pending.side, Affordable, Reference) \in Fills
    OBVIOUS
  <2>1. Affordable \in Nat \ {0}
    BY <1>4
  <2>. QED
    BY <1>1, <1>2, <2>1, MakeFillType
<1>. QED
  BY <1>1, <1>3, <1>4, <1>5

\* Any fill keeps the accounting part of the invariant.
LEMMA FillKeepsAccount ==
  ASSUME account \in Accounts, AccountInv, NEW fill \in Fills,
         account' = ApplyFill(account, fill)
  PROVE  account' \in Accounts /\ AccountInv'
BY ApplyFillPreserves DEF AccountInv, Preserved

\* The value of a position at a bar's close is an amount of money.
LEMMA EquityType ==
  ASSUME NEW a \in Accounts, market \in Bars
  PROVE  Equity(a, market.close) \in Int
<1>1. a.cash \in Int /\ a.qty \in Int /\ market.close \in Nat
  BY EngineAssumption DEF Accounts, Bars
<1>2. Money(market.close) \in Nat
  BY <1>1, CostAssumption, ProductNat DEF Money
<1>. QED
  BY <1>1, <1>2 DEF Equity

\* Once the loop is inside a bar, that bar has a close.
LEMMA CloseType ==
  ASSUME TypeOK, QueueInv, phase # "next"
  PROVE  market.close \in Nat
<1>1. market \in Bars
  BY DEF TypeOK, QueueInv
<1>. QED
  BY <1>1, EngineAssumption DEF Bars

\* What a well-formed order fill does to cash, on each side.
LEMMA FillCash ==
  ASSUME NEW side \in Sides, NEW quantity \in Nat \ {0}, NEW reference \in Nat
  PROVE  LET fill == MakeFill(side, quantity, reference)
         IN /\ Notional(fill) \in Nat /\ fill.commission = Commission(Notional(fill))
            /\ fill.commission \in Nat
            /\ side = BUY => CashDelta(fill) = -(Notional(fill) + fill.commission)
            /\ side = SELL => CashDelta(fill) = Notional(fill) - fill.commission
<1>. DEFINE fill == MakeFill(side, quantity, reference)
<1>1. fill \in Fills
  BY MakeFillType
<1>2. Notional(fill) \in Nat /\ fill.commission \in Nat
  BY <1>1, FillAmounts DEF Fills
<1>3. fill.side = side /\ fill.commission = Commission(Notional(fill))
  BY DEF MakeFill, Notional
<1>. HIDE DEF fill
<1>4. side = BUY => CashDelta(fill) = -(Notional(fill) + fill.commission)
  BY <1>2, <1>3 DEF CashDelta, BUY
<1>5. side = SELL => CashDelta(fill) = Notional(fill) - fill.commission
  BY <1>2, <1>3 DEF CashDelta, SELL
<1>. QED
  BY <1>2, <1>3, <1>4, <1>5 DEF fill

\* The cash and position after a fill.
LEMMA FillMoves ==
  ASSUME NEW a \in Accounts, FlatIsEmpty(a),
         NEW side \in Sides, NEW quantity \in Nat \ {0}, NEW reference \in Nat
  PROVE  LET fill  == MakeFill(side, quantity, reference)
             after == ApplyFill(a, fill)
         IN after.qty = a.qty + side * quantity /\ after.cash = a.cash + CashDelta(fill)
<1>. DEFINE fill == MakeFill(side, quantity, reference)
<1>1. fill \in Fills /\ fill.side = side /\ fill.quantity = quantity
  BY MakeFillType DEF MakeFill
<1>. HIDE DEF fill
<1>2. Moved(a, fill, ApplyFill(a, fill))
  BY <1>1, ApplyFillPreserves
<1>. QED
  BY <1>1, <1>2 DEF Moved, fill

\* A fill adds its own costs to the totals, whatever it does to the position.
LEMMA FillCharges ==
  ASSUME NEW a \in Accounts, NEW fill \in Fills
  PROVE  /\ ApplyFill(a, fill).commission = a.commission + fill.commission
         /\ ApplyFill(a, fill).slippage = a.slippage + SlippageCost(fill)
<1>. DEFINE booked == Book(a, fill)
            closing == Least(fill.quantity, Abs(a.qty))
<1>1. /\ booked.commission = a.commission + fill.commission
      /\ booked.slippage = a.slippage + SlippageCost(fill)
      /\ booked \in Accounts
  BY BookType DEF Book, Accounts
<1>. HIDE DEF booked, closing
<1>2. ASSUME NEW b \in Accounts, NEW signed, NEW cost
      PROVE  /\ OpenPosition(b, fill, signed, cost).commission = b.commission
             /\ OpenPosition(b, fill, signed, cost).slippage = b.slippage
             /\ AddToPosition(b, fill, signed, cost).commission = b.commission
             /\ AddToPosition(b, fill, signed, cost).slippage = b.slippage
  BY DEF OpenPosition, AddToPosition, Accounts
<1>3. ASSUME NEW quantity, NEW cost
      PROVE  /\ ClosePosition(booked, fill, quantity, cost).commission = booked.commission
             /\ ClosePosition(booked, fill, quantity, cost).slippage = booked.slippage
             /\ Reverse(booked, fill, quantity, cost).commission = booked.commission
             /\ Reverse(booked, fill, quantity, cost).slippage = booked.slippage
  <2>1. /\ ClosePosition(booked, fill, quantity, cost).commission = booked.commission
        /\ ClosePosition(booked, fill, quantity, cost).slippage = booked.slippage
    BY <1>1 DEF ClosePosition, Accounts
  <2>. QED
    BY <1>1, <2>1 DEF Reverse, OpenPosition, ClosePosition, Accounts
<1>4. \/ ApplyFill(a, fill) = OpenPosition(booked, fill, fill.side * fill.quantity, TotalCost(fill))
      \/ ApplyFill(a, fill) = AddToPosition(booked, fill, fill.side * fill.quantity, TotalCost(fill))
      \/ ApplyFill(a, fill) = ClosePosition(booked, fill, closing, TotalCost(fill))
      \/ ApplyFill(a, fill) = Reverse(booked, fill, closing, TotalCost(fill))
  BY DEF ApplyFill, booked, closing
<1>. QED
  BY <1>1, <1>2, <1>3, <1>4

\* Valued at its reference price, a fill loses what it costs and no more.
LEMMA FillLoses ==
  ASSUME NEW a \in Accounts, FlatIsEmpty(a),
         NEW side \in Sides, NEW quantity \in Nat \ {0}, NEW reference \in Nat
  PROVE  LET after == ApplyFill(a, MakeFill(side, quantity, reference))
         IN Equity(after, reference) - Equity(a, reference)
              = (a.commission - after.commission) + (a.slippage - after.slippage)
<1>. USE CostAssumption
<1>. DEFINE fill  == MakeFill(side, quantity, reference)
            after == ApplyFill(a, fill)
            worth == Money(reference)
<1>1. fill \in Fills
  BY MakeFillType
<1>2. /\ fill.side = side /\ fill.quantity = quantity /\ fill.reference = worth
      /\ fill.price \in Nat /\ fill.commission \in Nat /\ worth \in Nat
  BY <1>1 DEF MakeFill, Fills
<1>3. fill.price - worth = side * (reference * Penalty * BPS)
  BY DEF MakeFill, FillPrice, Money, Penalty, Sides, BUY, SELL
<1>4. reference * Penalty * BPS \in Nat
  BY ProductNat DEF Penalty
<1>5. /\ after.qty = a.qty + side * quantity
      /\ after.cash = a.cash + CashDelta(fill)
      /\ after.commission = a.commission + fill.commission
      /\ after.slippage = a.slippage + SlippageCost(fill)
  BY <1>1, FillMoves, FillCharges
<1>6. /\ a.cash \in Int /\ a.qty \in Int /\ a.commission \in Int /\ a.slippage \in Int
      /\ Notional(fill) \in Int /\ SlippageCost(fill) \in Int
  BY <1>1, FillAmounts DEF Accounts
<1>. HIDE DEF fill, after, worth
<1>7. side * (fill.price - worth) * quantity = SlippageCost(fill)
  <2>1. fill.price - worth \in Int
    BY <1>2
  <2>2. CASE side = 1
    BY <1>2, <1>3, <1>4, <2>1, <2>2 DEF SlippageCost, Abs
  <2>3. CASE side = -1
    <3>1. worth - fill.price = reference * Penalty * BPS
      BY <1>2, <1>3, <1>4, <2>3
    <3>2. Abs(fill.price - worth) = worth - fill.price
      BY <1>2, <1>4, <3>1 DEF Abs
    <3>3. side * (fill.price - worth) = worth - fill.price
      BY <1>2, <2>3
    <3>. QED
      BY <1>2, <3>2, <3>3 DEF SlippageCost
  <2>. QED
    BY <2>2, <2>3 DEF Sides, BUY, SELL
<1>8. CashDelta(fill) = -(side * (quantity * fill.price)) - fill.commission
  BY <1>2 DEF CashDelta, Notional
<1>9. Equity(after, reference) - Equity(a, reference)
        = -(side * (quantity * fill.price)) - fill.commission + side * quantity * worth
  <2>1. side \in Int /\ side * quantity \in Int /\ side * (quantity * fill.price) \in Int
    BY <1>2 DEF Sides, BUY, SELL
  <2>2. after.qty * worth = a.qty * worth + side * quantity * worth
    BY <1>2, <1>5, <1>6, <2>1
  <2>3. Equity(after, reference) = after.cash + after.qty * worth
    BY DEF Equity, worth
  <2>4. Equity(a, reference) = a.cash + a.qty * worth
    BY DEF Equity, worth
  <2>5. a.qty * worth \in Int /\ side * quantity * worth \in Int
    BY <1>2, <1>6, <2>1
  <2>. QED
    BY <1>2, <1>5, <1>6, <1>8, <2>1, <2>2, <2>3, <2>4, <2>5
<1>10. Equity(after, reference) - Equity(a, reference)
         = -fill.commission - SlippageCost(fill)
  <2>1. CASE side = 1
    BY <1>2, <1>6, <1>7, <1>9, <2>1
  <2>2. CASE side = -1
    BY <1>2, <1>6, <1>7, <1>9, <2>2
  <2>. QED
    BY <2>1, <2>2 DEF Sides, BUY, SELL
<1>. QED
  BY <1>2, <1>5, <1>6, <1>10 DEF after, fill

\* The target of a sizing decision is a whole quantity.
LEMMA PositionSizeType ==
  ASSUME equity \in Int, market \in Bars,
         NEW direction \in Directions, NEW strength \in Strengths
  PROVE  /\ PositionSize(direction, strength) \in Int
         /\ equity >= 0 /\ direction # SHORT => PositionSize(direction, strength) >= 0
<1>. USE CostAssumption, EngineAssumption
<1>. DEFINE clamped == Least(Greatest(strength, 0), FullStrength)
            num == equity * AllocNum * clamped
            den == AllocDen * FullStrength * Money(market.close)
<1>1. market.close \in Nat \ {0}
  BY DEF Bars
<1>2. clamped \in Nat
  BY DEF Least, Greatest
<1>3. num \in Int /\ (equity >= 0 => num >= 0)
  <2>. HIDE DEF clamped
  <2>1. equity * AllocNum \in Int /\ num \in Int
    BY <1>2
  <2>2. ASSUME equity >= 0
        PROVE  num >= 0
    <3>1. equity * AllocNum \in Nat
      BY <2>2, ProductNat
    <3>. QED
      BY <1>2, <3>1, ProductNat
  <2>. QED
    BY <2>1, <2>2
<1>4. den \in Nat /\ den > 0
  <2>1. market.close * BPS \in Nat \ {0}
    BY <1>1
  <2>2. Money(market.close) \in Nat \ {0}
    BY <2>1 DEF Money
  <2>3. AllocDen * FullStrength \in Nat \ {0}
    OBVIOUS
  <2>. QED
    BY <2>2, <2>3
<1>. HIDE DEF num, den
<1>5. Truncate(num, den) \in Int /\ (equity >= 0 => Truncate(num, den) >= 0)
  BY <1>3, <1>4, TruncateType
<1>6. PositionSize(direction, strength)
        = IF direction = FLAT THEN 0 ELSE direction * Truncate(num, den)
  BY <1>1 DEF PositionSize, num, den
<1>. QED
  BY <1>5, <1>6 DEF Directions, LONG, FLAT, SHORT

\* Placing an order towards a whole target fills the empty slot with an order
\* for the next bar, or leaves it empty, and counts it.
LEMMA PlaceOrderEffect ==
  ASSUME TypeOK, phase = "decide", bar < NumBars, bar > 0, TallyInv, pending = NoOrder,
         NEW target \in Int, PlaceOrder(target)
  PROVE  /\ pending' \in Orders
         /\ tally' \in [orders: Nat, fills: Nat, skipped: Nat, reduced: Nat]
         /\ pending' # NoOrder => /\ pending'.decided = bar /\ pending'.at = bar + 1
                                  /\ pending'.side * pending'.quantity = target - account.qty
         /\ TallyInv'
<1>. USE EngineAssumption
<1>. DEFINE delta == target - account.qty
<1>1. delta \in Int /\ bar \in 1..NumBars /\ bar + 1 \in 1..NumBars
  BY DEF TypeOK, Accounts
<1>2. CASE delta = 0
  <2>1. pending' = NoOrder /\ tally' = tally
    BY <1>2 DEF PlaceOrder, TypeOK
  <2>. QED
    BY <2>1 DEF TallyInv, TypeOK, Orders
<1>3. CASE delta # 0
  <2>. DEFINE order == [decided |-> bar, at |-> bar + 1,
                        side |-> SignOf(delta), quantity |-> Abs(delta)]
  <2>1. pending' = order /\ tally' = [tally EXCEPT !.orders = @ + 1]
    BY <1>3 DEF PlaceOrder, TypeOK
  <2>2. /\ SignOf(delta) \in Sides /\ Abs(delta) \in Nat \ {0}
        /\ SignOf(delta) * Abs(delta) = delta
    BY <1>1, <1>3 DEF SignOf, Abs, Sides, BUY, SELL
  <2>. HIDE DEF delta
  <2>3. order \in Orders /\ order.quantity # 0
    BY <1>1, <2>2 DEF Orders
  <2>4. order # NoOrder
    BY <2>3 DEF NoOrder
  <2>5. tally' \in [orders: Nat, fills: Nat, skipped: Nat, reduced: Nat]
    BY <2>1 DEF TypeOK
  <2>6. TallyInv'
    BY <2>1, <2>4 DEF TallyInv, TypeOK
  <2>. QED
    BY <2>1, <2>2, <2>3, <2>5, <2>6 DEF delta
<1>. QED
  BY <1>2, <1>3

-----------------------------------------------------------------------------
(* The invariant is inductive. *)

\* The inductive invariant holds before the first bar.
LEMMA InitIInv == Init => IInv
<1>. SUFFICES ASSUME Init PROVE IInv
  OBVIOUS
<1>. USE CashAssumption, EngineAssumption
<1>1. InitialAccount \in Accounts
  BY DEF InitialAccount, Accounts
<1>2. TypeOK
  BY <1>1 DEF Init, TypeOK, Phases, Orders
<1>3. QueueInv /\ TallyInv
  BY DEF Init, QueueInv, TallyInv
<1>4. AccountInv
  BY DEF Init, AccountInv, InitialAccount, FlatIsEmpty, Balance, Unattributed, SignOf
<1>. QED
  BY <1>2, <1>3, <1>4 DEF IInv

\* A decision keeps the invariant, whatever target it is for.
LEMMA DecisionKeepsIInv ==
  ASSUME IInv, Deciding, NEW target \in Int, PlaceOrder(target),
         suppressed' \in SUBSET {LONG, SHORT}
  PROVE  IInv'
<1>. USE EngineAssumption DEF Deciding
<1>1. TypeOK /\ bar > 0 /\ bar < NumBars /\ TallyInv /\ pending = NoOrder
  BY DEF IInv, QueueInv
<1>2. /\ pending' \in Orders
      /\ tally' \in [orders: Nat, fills: Nat, skipped: Nat, reduced: Nat]
      /\ pending' # NoOrder => pending'.decided = bar /\ pending'.at = bar + 1
      /\ TallyInv'
  BY <1>1, PlaceOrderEffect
<1>3. TypeOK'
  BY <1>1, <1>2 DEF TypeOK, Phases
<1>4. QueueInv'
  BY <1>1, <1>2 DEF QueueInv
<1>5. AccountInv'
  BY DEF IInv, AccountInv, FlatIsEmpty, Balance, Unattributed
<1>. QED
  BY <1>2, <1>3, <1>4, <1>5 DEF IInv

\* Every step of the loop keeps the inductive invariant.
LEMMA StepIInv == IInv /\ [Next]_vars => IInv'
<1>. SUFFICES ASSUME IInv, [Next]_vars PROVE IInv'
  OBVIOUS
<1>. USE CostAssumption, CashAssumption, EngineAssumption
<1>1. CASE NextBar
  <2>. USE <1>1 DEF NextBar
  <2>1. TypeOK'
    BY DEF IInv, QueueInv, TypeOK, Phases
  <2>2. QueueInv'
    BY DEF IInv, QueueInv, TypeOK
  <2>3. TallyInv' /\ AccountInv'
    BY DEF IInv, TallyInv, AccountInv, FlatIsEmpty, Balance, Unattributed
  <2>. QED
    BY <2>1, <2>2, <2>3 DEF IInv
<1>2. ASSUME Executing, account' \in Accounts, AccountInv',
             tally' \in [orders: Nat, fills: Nat, skipped: Nat, reduced: Nat],
             tally'.orders = tally.orders,
             tally'.fills + tally'.skipped = tally.fills + tally.skipped + 1
      PROVE  IInv'
  <2>. USE <1>2 DEF Executing
  <2>1. TypeOK'
    BY DEF IInv, TypeOK, Phases, Orders
  <2>2. QueueInv'
    BY DEF IInv, QueueInv, TypeOK
  <2>3. TallyInv'
    <3>1. pending # NoOrder /\ pending' = NoOrder
      BY DEF IInv, QueueInv
    <3>2. tally.orders = tally.fills + tally.skipped + 1
      BY <3>1 DEF IInv, TallyInv
    <3>. QED
      BY <3>1, <3>2 DEF TallyInv, IInv, TypeOK
  <2>. QED
    BY <2>1, <2>2, <2>3 DEF IInv
<1>3. CASE FillInFull
  <2>1. OrderedFill \in Fills
    BY <1>3, OrderFillType DEF IInv, FillInFull, Executing
  <2>2. account' \in Accounts /\ AccountInv'
    BY <1>3, <2>1, FillKeepsAccount DEF IInv, TypeOK, FillInFull
  <2>. QED
    BY <1>2, <1>3, <2>2 DEF IInv, TypeOK, FillInFull
<1>4. CASE FillReduced
  <2>1. MakeFill(pending.side, Affordable, Reference) \in Fills
    BY <1>4, OrderFillType DEF IInv, FillReduced, Executing
  <2>2. account' \in Accounts /\ AccountInv'
    BY <1>4, <2>1, FillKeepsAccount DEF IInv, TypeOK, FillReduced
  <2>3. /\ Executing
        /\ tally' = [tally EXCEPT !.fills = @ + 1, !.reduced = @ + 1]
        /\ tally \in [orders: Nat, fills: Nat, skipped: Nat, reduced: Nat]
    BY <1>4 DEF FillReduced, IInv, TypeOK
  <2>4. /\ tally' \in [orders: Nat, fills: Nat, skipped: Nat, reduced: Nat]
        /\ tally'.orders = tally.orders
        /\ tally'.fills + tally'.skipped = tally.fills + tally.skipped + 1
    <3>1. /\ tally.fills \in Nat /\ tally.skipped \in Nat /\ tally.reduced \in Nat
          /\ tally.orders \in Nat
      BY <2>3
    <3>2. tally' = [tally EXCEPT !.fills = tally.fills + 1, !.reduced = tally.reduced + 1]
      BY <2>3
    <3>3. tally.fills + 1 \in Nat /\ tally.reduced + 1 \in Nat
      BY <3>1
    <3>4. tally' \in [orders: Nat, fills: Nat, skipped: Nat, reduced: Nat]
      BY <2>3, <3>2, <3>3
    <3>5. /\ tally'.orders = tally.orders /\ tally'.fills = tally.fills + 1
          /\ tally'.skipped = tally.skipped
      BY <2>3, <3>2
    <3>. QED
      BY <3>1, <3>4, <3>5
  <2>. QED
    BY <1>2, <2>2, <2>3, <2>4
<1>5. CASE SkipBuy
  <2>1. account' \in Accounts /\ AccountInv'
    BY <1>5 DEF IInv, TypeOK, SkipBuy, AccountInv, FlatIsEmpty, Balance, Unattributed
  <2>. QED
    BY <1>2, <1>5, <2>1 DEF IInv, TypeOK, SkipBuy
<1>6. CASE MarkToMarket
  <2>. USE <1>6 DEF MarkToMarket
  <2>1. market \in Bars
    BY DEF IInv, TypeOK, QueueInv
  <2>2. equity' \in Int
    BY <2>1, EquityType DEF IInv, TypeOK
  <2>3. TypeOK'
    BY <2>2 DEF IInv, TypeOK, Phases
  <2>4. QueueInv'
    BY DEF IInv, QueueInv, TypeOK
  <2>5. TallyInv' /\ AccountInv'
    BY DEF IInv, TallyInv, AccountInv, FlatIsEmpty, Balance, Unattributed
  <2>. QED
    BY <2>3, <2>4, <2>5 DEF IInv
<1>8. CASE ExitPosition
  <2>1. SignOf(account.qty) \in {LONG, SHORT}
    BY <1>8 DEF ExitPosition, IInv, TypeOK, Accounts, SignOf, LONG, SHORT
  <2>. QED
    BY <1>8, <2>1, DecisionKeepsIInv DEF ExitPosition
<1>9. ASSUME NEW signal \in Directions, NEW strength \in Strengths,
             FollowSignal(signal, strength)
      PROVE  IInv'
  <2>1. Permitted(signal) \in Directions /\ Effective(signal) \in Directions
    BY DEF Permitted, Effective, Directions
  <2>2. Target(Effective(signal), strength) \in Int
    <3>1. market \in Bars /\ equity \in Int /\ account.qty \in Int
      BY <1>9 DEF IInv, TypeOK, QueueInv, FollowSignal, Deciding, Accounts
    <3>2. PositionSize(Effective(signal), strength) \in Int
      BY <2>1, <3>1, PositionSizeType
    <3>. QED
      BY <3>1, <3>2 DEF Target
  <2>3. suppressed' \in SUBSET {LONG, SHORT}
    BY <1>9 DEF FollowSignal, IInv, TypeOK
  <2>. QED
    BY <1>9, <2>2, <2>3, DecisionKeepsIInv DEF FollowSignal
<1>10. CASE Liquidate
  <2>. USE <1>10 DEF Liquidate, Closing
  <2>1. market \in Bars
    BY DEF IInv, TypeOK, QueueInv
  <2>2. account' \in Accounts /\ AccountInv'
    <3>1. CASE account.qty = 0
      BY <3>1 DEF IInv, TypeOK, AccountInv, FlatIsEmpty, Balance, Unattributed
    <3>2. CASE account.qty # 0
      <4>1. account.qty \in Int /\ market.close \in Nat
        BY <2>1 DEF IInv, TypeOK, Accounts, Bars
      <4>2. Abs(account.qty) \in Nat \ {0}
        BY <3>2, <4>1 DEF Abs
      <4>3. ClosingFill \in Fills
        BY <4>1, <4>2, MakeFillType DEF ClosingFill, Sides
      <4>. QED
        BY <3>2, <4>3, FillKeepsAccount DEF IInv, TypeOK
    <3>. QED
      BY <3>1, <3>2
  <2>3. equity' \in Int
    BY <2>1, <2>2, EquityType
  <2>4. TypeOK'
    BY <2>2, <2>3 DEF IInv, TypeOK, Phases
  <2>5. QueueInv'
    BY DEF IInv, QueueInv, TypeOK
  <2>6. TallyInv'
    BY DEF IInv, TallyInv
  <2>. QED
    BY <2>2, <2>4, <2>5, <2>6 DEF IInv
<1>11. CASE LeaveOpen
  BY <1>11 DEF LeaveOpen, Closing, IInv, TypeOK, QueueInv, TallyInv, AccountInv, FlatIsEmpty,
     Balance, Unattributed, Phases
<1>12. CASE UNCHANGED vars
  BY <1>12 DEF vars, IInv, TypeOK, QueueInv, TallyInv, AccountInv, FlatIsEmpty,
     Balance, Unattributed
<1>13. CASE Done
  BY <1>12, <1>13 DEF Done
<1>. QED
  BY <1>1, <1>3, <1>4, <1>5, <1>6, <1>8, <1>9, <1>10, <1>11, <1>12, <1>13
     DEF Next, Step, CloseOut

-----------------------------------------------------------------------------
(* The theorems. *)

\* Hence it holds in every state of every run.
LEMMA Invariance == Spec => []IInv
BY InitIInv, StepIInv, PTL DEF Spec

\* The simulator's state is well formed throughout.
THEOREM TypeCorrect == Spec => []TypeOK
<1>1. IInv => TypeOK
  BY DEF IInv
<1>. QED
  BY <1>1, Invariance, PTL

\* An order is executed on the bar after its decision and on no other.
THEOREM Causality == Spec => []FillsOnNextBar
<1>1. IInv => FillsOnNextBar
  BY DEF IInv, QueueInv, FillsOnNextBar
<1>. QED
  BY <1>1, Invariance, PTL

\* Every order placed is filled, skipped or waiting, and none is left over.
THEOREM Settlement == Spec => []OrdersSettled
<1>1. IInv => OrdersSettled
  BY DEF IInv, QueueInv, TallyInv, OrdersSettled
<1>. QED
  BY <1>1, Invariance, PTL

\* Fills neither create nor lose money, whatever the strategy does.
THEOREM Reconciliation == Spec => []CashReconciles
<1>1. IInv => CashReconciles
  <2>. SUFFICES ASSUME IInv PROVE CashReconciles
    OBVIOUS
  <2>1. /\ account.cash \in Int /\ account.gross \in Int /\ account.commission \in Nat
        /\ account.basis \in Nat /\ account.qty \in Int /\ InitialCash \in Nat
    BY CashAssumption DEF IInv, TypeOK, Accounts
  <2>2. SignOf(account.qty) * account.basis \in Int
    BY <2>1 DEF SignOf
  <2>. QED
    BY <2>1, <2>2 DEF IInv, AccountInv, Balance, CashReconciles
<1>. QED
  BY <1>1, Invariance, PTL

\* Every cost paid is charged to one trade or attached to the open position.
THEOREM Attribution == Spec => []CostsAttributed
<1>1. IInv => CostsAttributed
  BY DEF IInv, TypeOK, Accounts, AccountInv, Unattributed, CostsAttributed
<1>. QED
  BY <1>1, Invariance, PTL

\* A run that closes out ends with nothing but cash, and its last equity point
\* is that cash: a full close releases all of the basis and of the entry costs.
THEOREM CleanClose == Spec => []ClosedOut
<1>1. Init => ClosedOut
  BY DEF Init, ClosedOut
<1>2. IInv /\ IInv' /\ ClosedOut /\ [Next]_vars => ClosedOut'
  <2>. SUFFICES ASSUME IInv, IInv', ClosedOut, [Next]_vars, phase' = "done", LiquidateAtEnd
                PROVE  ClosedOut'
    BY DEF ClosedOut
  <2>1. CASE CloseOut
    <3>1. Liquidate /\ phase = "liquidate"
      BY <2>1 DEF CloseOut, Liquidate, Closing
    <3>2. account \in Accounts /\ FlatIsEmpty(account) /\ account.qty \in Int
      BY DEF IInv, TypeOK, AccountInv, Accounts
    <3>3. account'.qty = 0
      <4>1. CASE account.qty = 0
        BY <3>1, <4>1 DEF Liquidate
      <4>2. CASE account.qty # 0
        <5>1. market.close \in Nat
          BY <3>1, CloseType DEF IInv
        <5>2. /\ Abs(account.qty) \in Nat \ {0}
              /\ account.qty > 0 => account.qty + SELL * Abs(account.qty) = 0
              /\ account.qty < 0 => account.qty + BUY * Abs(account.qty) = 0
          BY <3>2, <4>2 DEF Abs, BUY, SELL
        <5>. QED
          BY <3>1, <3>2, <4>2, <5>1, <5>2, FillMoves DEF Liquidate, ClosingFill, Sides
      <4>. QED
        BY <4>1, <4>2
    <3>4. account' \in Accounts /\ FlatIsEmpty(account')
      BY DEF IInv, TypeOK, AccountInv
    <3>5. equity' = account'.cash
      <4>1. Money(market.close) \in Int
        BY <3>1, CloseType, CostAssumption DEF IInv, Money
      <4>2. account'.cash \in Int
        BY <3>4 DEF Accounts
      <4>. QED
        BY <3>1, <3>3, <4>1, <4>2 DEF Liquidate, Equity
    <3>. QED
      BY <3>3, <3>4, <3>5 DEF ClosedOut, FlatIsEmpty
  <2>2. CASE UNCHANGED vars \/ Done
    BY <2>2 DEF vars, Done, ClosedOut
  <2>3. CASE NextBar \/ FillInFull \/ FillReduced \/ SkipBuy \/ MarkToMarket
    BY <2>3 DEF NextBar, FillInFull, FillReduced, SkipBuy, Executing, MarkToMarket
  <2>4. CASE \/ ExitPosition
             \/ \E signal \in Directions, strength \in Strengths : FollowSignal(signal, strength)
    BY <2>4 DEF ExitPosition, FollowSignal, Deciding
  <2>. QED
    BY <2>1, <2>2, <2>3, <2>4 DEF Next, Step
<1>. QED
  BY <1>1, <1>2, Invariance, PTL DEF Spec

\* A fill loses exactly the costs it reports, in every state a run can reach and
\* for every kind of fill the loop makes of an order.
THEOREM HonestFills == Spec => FillsLoseTheirCosts
<1>. DEFINE Honest ==
       tally'.fills # tally.fills =>
         Equity(account', Reference) - Equity(account, Reference)
           = (account.commission - account'.commission)
               + (account.slippage - account'.slippage)
<1>1. IInv /\ [Next]_vars => [Honest]_vars
  <2>. SUFFICES ASSUME IInv, Next, tally'.fills # tally.fills PROVE Honest
    OBVIOUS
  <2>1. CASE FillInFull \/ FillReduced
    <3>1. PICK quantity \in Nat \ {0} :
            account' = ApplyFill(account, MakeFill(pending.side, quantity, Reference))
      <4>1. phase = "execute" /\ pending.quantity \in Nat \ {0}
        BY <2>1, PendingType DEF FillInFull, FillReduced, Executing, IInv, TypeOK, QueueInv
      <4>2. Affordable \in Int
        BY <4>1, OrderFillType DEF IInv
      <4>. QED
        BY <2>1, <4>1, <4>2 DEF FillInFull, FillReduced, OrderedFill
    <3>2. phase = "execute"
      BY <2>1 DEF FillInFull, FillReduced, Executing
    <3>3. pending.side \in Sides /\ Reference \in Nat
      BY <3>2, PendingType, OrderFillType DEF IInv, TypeOK, QueueInv
    <3>4. account \in Accounts /\ FlatIsEmpty(account)
      BY DEF IInv, TypeOK, AccountInv
    <3>. QED
      BY <3>1, <3>3, <3>4, FillLoses
  <2>2. CASE NextBar \/ SkipBuy \/ MarkToMarket \/ CloseOut \/ Done
    BY <2>2 DEF NextBar, SkipBuy, MarkToMarket, CloseOut, Liquidate, LeaveOpen, Closing,
       Done, vars, IInv, TypeOK
  <2>3. ASSUME NEW target, PlaceOrder(target) PROVE tally'.fills = tally.fills
    BY <2>3 DEF PlaceOrder, IInv, TypeOK
  <2>4. CASE \/ ExitPosition
             \/ \E signal \in Directions, strength \in Strengths : FollowSignal(signal, strength)
    BY <2>3, <2>4 DEF ExitPosition, FollowSignal
  <2>. QED
    BY <2>1, <2>2, <2>4 DEF Next, Step
<1>. QED
  BY <1>1, Invariance, PTL DEF Spec, FillsLoseTheirCosts

-----------------------------------------------------------------------------
(* Long-only runs without a minimum commission.                            *)

\* The strengthening: cash covers every step so far; in a long-only run a sale
\* never exceeds the position, and equity is never negative when it is sized.
SolvencyInv ==
  /\ CashNeverNegative
  /\ ~AllowShort =>
       /\ account.qty >= 0
       /\ pending.side = SELL => pending.quantity <= account.qty
       /\ phase = "decide" => equity >= 0

\* A proportional commission never exceeds the notional, so a sale never costs
\* more than it brings.
LEMMA CommissionBelowNotional ==
  ASSUME CommissionMin = 0, NEW notional \in Nat
  PROVE  Commission(notional) <= notional
<1>. USE CostAssumption
<1>1. notional * CommissionBps \in Nat /\ notional * BPS \in Nat
  BY ProductNat
<1>2. notional * CommissionBps <= notional * BPS
  OBVIOUS
<1>3. (notional * CommissionBps) \div BPS <= (notional * BPS) \div BPS
  BY <1>1, <1>2
<1>4. (notional * BPS) \div BPS = notional
  OBVIOUS
<1>5. (notional * CommissionBps) \div BPS \in Nat
  BY <1>1, QuotientBounds
<1>. QED
  BY <1>3, <1>4, <1>5 DEF Commission, Greatest

\* A larger notional never has a smaller proportional commission.
LEMMA CommissionGrows ==
  ASSUME CommissionMin = 0, NEW small \in Nat, NEW large \in Nat, small <= large
  PROVE  /\ Commission(small) \in Nat /\ Commission(large) \in Nat
         /\ Commission(small) <= Commission(large)
<1>. USE CostAssumption
<1>1. /\ small * CommissionBps \in Nat /\ large * CommissionBps \in Nat
      /\ small * CommissionBps <= large * CommissionBps
  BY ProductNat
<1>2. (small * CommissionBps) \div BPS <= (large * CommissionBps) \div BPS
  BY <1>1
<1>3. /\ (small * CommissionBps) \div BPS \in Nat
      /\ (large * CommissionBps) \div BPS \in Nat
  BY <1>1, QuotientBounds
<1>. QED
  BY <1>2, <1>3 DEF Commission, Greatest

\* The largest affordable quantity is affordable: its notional and its
\* proportional commission are covered by the cash.
LEMMA AffordableIsCovered ==
  ASSUME CommissionMin = 0, NEW a \in Accounts, a.cash >= 0, NEW price \in Nat,
         MaxAffordableQuantity(a, price) > 0
  PROVE  LET quantity == MaxAffordableQuantity(a, price)
         IN quantity * price + Commission(quantity * price) <= a.cash
<1>. USE CostAssumption
<1>. DEFINE quantity == MaxAffordableQuantity(a, price)
            unit     == price * (BPS + CommissionBps)
<1>1. price > 0
  BY DEF MaxAffordableQuantity
<1>2. a.cash \in Nat /\ a.cash * BPS \in Nat
  BY ProductNat DEF Accounts
<1>3. unit \in Nat /\ unit > 0
  BY <1>1, ProductNat
<1>4. quantity = (a.cash * BPS) \div unit
  BY <1>1, <1>2 DEF MaxAffordableQuantity, Truncate
<1>. HIDE DEF quantity
<1>5. quantity \in Nat /\ quantity * unit <= a.cash * BPS
  <2>. HIDE DEF unit
  <2>. QED
    BY <1>2, <1>3, <1>4, QuotientBounds
<1>. DEFINE notional == quantity * price
<1>6. notional \in Nat
  BY <1>5, ProductNat
<1>7. quantity * unit = notional * BPS + notional * CommissionBps
  BY <1>5
<1>. HIDE DEF notional, unit
<1>8. Commission(notional) \in Nat /\ Commission(notional) * BPS <= notional * CommissionBps
  <2>1. notional * CommissionBps \in Nat
    BY <1>6, ProductNat
  <2>2. (notional * CommissionBps) \div BPS \in Nat
    BY <2>1, QuotientBounds
  <2>3. ((notional * CommissionBps) \div BPS) * BPS <= notional * CommissionBps
    BY <2>1, QuotientBounds
  <2>4. Commission(notional) = (notional * CommissionBps) \div BPS
    BY <2>2 DEF Commission, Greatest
  <2>. QED
    BY <2>2, <2>3, <2>4
<1>9. (notional + Commission(notional)) * BPS <= a.cash * BPS
  BY <1>2, <1>5, <1>6, <1>7, <1>8
<1>10. notional + Commission(notional) <= a.cash
  <2>. DEFINE spent == notional + Commission(notional)
  <2>1. spent \in Nat
    BY <1>6, <1>8
  <2>2. spent * BPS <= a.cash * BPS
    BY <1>9
  <2>. HIDE DEF spent
  <2>3. spent <= a.cash
    BY <1>2, <2>1, <2>2
  <2>. QED
    BY <2>3 DEF spent
<1>. QED
  BY <1>10 DEF quantity, notional

\* A sale raises cash.
LEMMA SaleCovers ==
  ASSUME CommissionMin = 0, NEW quantity \in Nat \ {0}, NEW reference \in Nat
  PROVE  CashDelta(MakeFill(SELL, quantity, reference)) >= 0
<1>. DEFINE fill == MakeFill(SELL, quantity, reference)
<1>1. /\ Notional(fill) \in Nat /\ fill.commission = Commission(Notional(fill))
      /\ fill.commission \in Nat /\ CashDelta(fill) = Notional(fill) - fill.commission
  BY FillCash DEF Sides
<1>. HIDE DEF fill
<1>2. Commission(Notional(fill)) <= Notional(fill)
  BY <1>1, CommissionBelowNotional
<1>. QED
  BY <1>1, <1>2 DEF fill

\* The solvency invariant holds before the first bar.
LEMMA InitSolvency == Init => SolvencyInv
BY CashAssumption DEF Init, SolvencyInv, CashNeverNegative, InitialAccount, NoOrder, BUY, SELL

\* Without a minimum commission, every step of a long-only run keeps it.
LEMMA StepSolvency ==
  ASSUME CommissionMin = 0
  PROVE  IInv /\ SolvencyInv /\ [Next]_vars => SolvencyInv'
<1>. SUFFICES ASSUME IInv, SolvencyInv, [Next]_vars PROVE SolvencyInv'
  OBVIOUS
<1>. USE CostAssumption, EngineAssumption
<1>1. CASE NextBar
  BY <1>1 DEF NextBar, SolvencyInv, CashNeverNegative
<1>2. ASSUME Executing, account'.cash >= 0, ~AllowShort => account'.qty >= 0
      PROVE  SolvencyInv'
  BY <1>2 DEF Executing, SolvencyInv, CashNeverNegative, NoOrder, BUY, SELL
<1>3. ASSUME Executing
      PROVE  /\ account \in Accounts /\ FlatIsEmpty(account) /\ account.cash >= 0
             /\ account.cash \in Int /\ account.qty \in Int
             /\ ~AllowShort => account.qty >= 0
             /\ pending.side \in Sides /\ pending.quantity \in Nat \ {0}
             /\ Reference \in Nat
  <2>1. phase = "execute"
    BY <1>3 DEF Executing
  <2>2. pending.side \in Sides /\ pending.quantity \in Nat \ {0}
    BY <2>1, PendingType DEF IInv, TypeOK, QueueInv
  <2>3. Reference \in Nat
    BY <2>1, OrderFillType DEF IInv
  <2>4. account \in Accounts /\ account.cash \in Int /\ account.qty \in Int
    BY DEF IInv, TypeOK, Accounts
  <2>. QED
    BY <2>1, <2>2, <2>3, <2>4 DEF IInv, AccountInv, SolvencyInv, CashNeverNegative
<1>4. CASE FillInFull
  <2>1. Executing
    BY <1>4 DEF FillInFull
  <2>2. /\ account'.qty = account.qty + pending.side * pending.quantity
        /\ account'.cash = account.cash + CashDelta(OrderedFill)
    BY <1>3, <1>4, <2>1, FillMoves DEF FillInFull, OrderedFill
  <2>3. CASE pending.side = SELL
    <3>1. CashDelta(OrderedFill) >= 0 /\ CashDelta(OrderedFill) \in Int
      BY <1>3, <2>1, <2>3, SaleCovers, OrderFillType, FillAmounts
         DEF OrderedFill, IInv, Executing
    <3>2. account'.cash >= 0
      BY <1>3, <2>1, <2>2, <3>1
    <3>3. ~AllowShort => account'.qty >= 0
      BY <1>3, <2>1, <2>2, <2>3 DEF SolvencyInv, SELL
    <3>. QED
      BY <1>2, <2>1, <3>2, <3>3
  <2>4. CASE pending.side = BUY
    <3>1. /\ Notional(OrderedFill) \in Nat /\ OrderedFill.commission \in Nat
          /\ CashDelta(OrderedFill) = -(Notional(OrderedFill) + OrderedFill.commission)
      BY <1>3, <2>1, <2>4, FillCash DEF OrderedFill
    <3>2. account.cash >= Notional(OrderedFill) + OrderedFill.commission
      <4>1. OrderedFill.side = BUY
        BY <2>4 DEF OrderedFill, MakeFill
      <4>. QED
        BY <1>4, <4>1 DEF FillInFull, CanAfford, BUY, SELL
    <3>3. account'.cash >= 0
      BY <1>3, <2>1, <2>2, <3>1, <3>2
    <3>4. ~AllowShort => account'.qty >= 0
      BY <1>3, <2>1, <2>2, <2>4 DEF BUY
    <3>. QED
      BY <1>2, <2>1, <3>3, <3>4
  <2>. QED
    BY <1>3, <2>1, <2>3, <2>4 DEF Sides
<1>5. CASE FillReduced
  <2>. DEFINE fill == MakeFill(pending.side, Affordable, Reference)
  <2>1. Executing /\ Affordable \in Nat \ {0} /\ OrderedFill \in Fills
    BY <1>5, OrderFillType DEF FillReduced, Executing, IInv
  <2>2. pending.side = BUY
    <3>1. OrderedFill.side = pending.side
      BY DEF OrderedFill, MakeFill
    <3>. QED
      BY <1>3, <1>5, <2>1, <3>1 DEF FillReduced, CanAfford, Sides
  <2>3. /\ account'.qty = account.qty + pending.side * Affordable
        /\ account'.cash = account.cash + CashDelta(fill)
    BY <1>3, <1>5, <2>1, FillMoves DEF FillReduced
  <2>4. /\ Notional(fill) \in Nat /\ fill.commission \in Nat
        /\ fill.commission = Commission(Notional(fill))
        /\ CashDelta(fill) = -(Notional(fill) + fill.commission)
    BY <1>3, <2>1, <2>2, FillCash
  <2>5. Notional(fill) + fill.commission <= account.cash
    <3>1. Notional(fill) = Affordable * OrderedFill.price
      BY DEF Notional, OrderedFill, MakeFill
    <3>2. OrderedFill.price \in Nat
      BY <2>1 DEF Fills
    <3>3. MaxAffordableQuantity(account, OrderedFill.price) = Affordable
      BY DEF Affordable
    <3>. HIDE DEF fill
    <3>. QED
      BY <1>3, <2>1, <2>4, <3>1, <3>2, <3>3, AffordableIsCovered
  <2>. HIDE DEF fill
  <2>6. account'.cash >= 0
    BY <1>3, <2>1, <2>3, <2>4, <2>5
  <2>7. ~AllowShort => account'.qty >= 0
    BY <1>3, <2>1, <2>2, <2>3 DEF BUY
  <2>. QED
    BY <1>2, <2>1, <2>6, <2>7
<1>6. CASE SkipBuy
  BY <1>2, <1>3, <1>6 DEF SkipBuy
<1>7. CASE MarkToMarket
  <2>1. /\ account.cash \in Int /\ account.qty \in Int /\ market.close \in Nat
        /\ account.cash >= 0
    <3>1. phase = "mark"
      BY <1>7 DEF MarkToMarket
    <3>2. market.close \in Nat
      BY <3>1, CloseType DEF IInv
    <3>3. account.cash \in Int /\ account.qty \in Int
      BY DEF IInv, TypeOK, Accounts
    <3>. QED
      BY <3>1, <3>2, <3>3 DEF SolvencyInv, CashNeverNegative
  <2>2. Money(market.close) \in Nat
    BY <2>1, ProductNat DEF Money
  <2>3. account.qty >= 0 => equity' >= 0
    <3>. SUFFICES ASSUME account.qty >= 0 PROVE equity' >= 0
      OBVIOUS
    <3>1. account.qty * Money(market.close) \in Nat
      BY <2>1, <2>2, ProductNat
    <3>. QED
      BY <1>7, <2>1, <3>1 DEF MarkToMarket, Equity
  <2>. QED
    BY <1>7, <2>3 DEF MarkToMarket, SolvencyInv, CashNeverNegative
<1>8. ASSUME Deciding, NEW target \in Int, PlaceOrder(target), ~AllowShort => target >= 0
      PROVE  SolvencyInv'
  <2>1. TypeOK /\ phase = "decide" /\ bar > 0 /\ bar < NumBars /\ TallyInv /\ pending = NoOrder
    BY <1>8 DEF IInv, QueueInv, Deciding
  <2>2. /\ pending' \in Orders
        /\ pending' # NoOrder => pending'.side * pending'.quantity = target - account.qty
    BY <1>8, <2>1, PlaceOrderEffect
  <2>3. ~AllowShort /\ pending'.side = SELL => pending'.quantity <= account.qty
    <3>. SUFFICES ASSUME ~AllowShort, pending'.side = SELL
                  PROVE  pending'.quantity <= account.qty
      OBVIOUS
    <3>1. pending' # NoOrder
      BY DEF NoOrder, BUY, SELL
    <3>2. pending'.quantity \in Nat
      BY <2>2, <3>1 DEF Orders
    <3>3. account.qty \in Int
      BY <2>1 DEF TypeOK, Accounts
    <3>. QED
      BY <1>8, <2>2, <3>1, <3>2, <3>3 DEF SELL
  <2>. QED
    BY <1>8, <2>3 DEF Deciding, SolvencyInv, CashNeverNegative
<1>9. CASE ExitPosition
  BY <1>8, <1>9 DEF ExitPosition
<1>10. ASSUME NEW signal \in Directions, NEW strength \in Strengths,
              FollowSignal(signal, strength)
       PROVE  SolvencyInv'
  <2>1. /\ market \in Bars /\ equity \in Int /\ account.qty \in Int
        /\ ~AllowShort => equity >= 0 /\ account.qty >= 0
    BY <1>10 DEF IInv, TypeOK, QueueInv, FollowSignal, Deciding, Accounts, SolvencyInv
  <2>2. /\ Effective(signal) \in Directions
        /\ ~AllowShort => Effective(signal) # SHORT
    BY DEF Effective, Permitted, Directions, FLAT, SHORT
  <2>3. /\ PositionSize(Effective(signal), strength) \in Int
        /\ equity >= 0 /\ Effective(signal) # SHORT
             => PositionSize(Effective(signal), strength) >= 0
    BY <2>1, <2>2, PositionSizeType
  <2>4. /\ Target(Effective(signal), strength) \in Int
        /\ ~AllowShort => Target(Effective(signal), strength) >= 0
    BY <2>1, <2>2, <2>3 DEF Target
  <2>. QED
    BY <1>8, <1>10, <2>4 DEF FollowSignal
<1>11. CASE Liquidate
  <2>1. CASE AllowShort
    BY <1>11, <2>1 DEF Liquidate, Closing, SolvencyInv, CashNeverNegative
  <2>2. CASE ~AllowShort /\ account.qty = 0
    BY <1>11, <2>2 DEF Liquidate, Closing, SolvencyInv, CashNeverNegative
  <2>3. CASE ~AllowShort /\ account.qty # 0
    <3>1. /\ account \in Accounts /\ FlatIsEmpty(account) /\ market.close \in Nat
          /\ account.cash \in Int /\ account.qty \in Nat \ {0} /\ account.cash >= 0
      <4>1. phase = "liquidate"
        BY <1>11 DEF Liquidate, Closing
      <4>2. market.close \in Nat
        BY <4>1, CloseType DEF IInv
      <4>3. account \in Accounts /\ account.cash \in Int /\ account.qty \in Int
        BY DEF IInv, TypeOK, Accounts
      <4>. QED
        BY <2>3, <4>1, <4>2, <4>3 DEF IInv, AccountInv, SolvencyInv, CashNeverNegative
    <3>2. Abs(account.qty) = account.qty
      BY <3>1 DEF Abs
    <3>3. ClosingFill = MakeFill(SELL, account.qty, market.close)
      BY <3>1, <3>2 DEF ClosingFill
    <3>4. /\ account'.qty = account.qty + SELL * account.qty
          /\ account'.cash = account.cash + CashDelta(ClosingFill)
      BY <1>11, <2>3, <3>1, <3>3, FillMoves DEF Liquidate, Sides
    <3>5. CashDelta(ClosingFill) >= 0 /\ CashDelta(ClosingFill) \in Int
      <4>1. ClosingFill \in Fills
        BY <3>1, <3>3, MakeFillType DEF Sides
      <4>. QED
        BY <3>1, <3>3, <4>1, SaleCovers, FillAmounts
    <3>6. account'.qty = 0 /\ account'.cash >= 0
      BY <3>1, <3>4, <3>5 DEF SELL
    <3>7. pending' = NoOrder /\ phase' = "done"
      BY <1>11 DEF Liquidate, Closing, IInv, QueueInv
    <3>. QED
      BY <3>6, <3>7 DEF SolvencyInv, CashNeverNegative, NoOrder, BUY, SELL
  <2>. QED
    BY <2>1, <2>2, <2>3
<1>12. CASE LeaveOpen
  BY <1>12 DEF LeaveOpen, Closing, SolvencyInv, CashNeverNegative
<1>13. CASE UNCHANGED vars
  BY <1>13 DEF vars, SolvencyInv, CashNeverNegative
<1>14. CASE Done
  BY <1>13, <1>14 DEF Done
<1>. QED
  BY <1>1, <1>4, <1>5, <1>6, <1>7, <1>9, <1>10, <1>11, <1>12, <1>13, <1>14
     DEF Next, Step, CloseOut

\* Without a minimum commission, cash is never overdrawn while bars are
\* processed, and in a long-only run not by the close-out either.
THEOREM Solvency ==
  ASSUME CommissionMin = 0
  PROVE  Spec => []CashNeverNegative
<1>1. Init => SolvencyInv
  BY InitSolvency
<1>2. IInv /\ SolvencyInv /\ [Next]_vars => SolvencyInv'
  BY StepSolvency
<1>3. SolvencyInv => CashNeverNegative
  BY DEF SolvencyInv
<1>. QED
  BY <1>1, <1>2, <1>3, Invariance, PTL DEF Spec

\* Without a minimum commission, a long-only run is never short.
THEOREM NeverShort ==
  ASSUME CommissionMin = 0
  PROVE  Spec => []LongOnly
<1>1. Init => SolvencyInv
  BY InitSolvency
<1>2. IInv /\ SolvencyInv /\ [Next]_vars => SolvencyInv'
  BY StepSolvency
<1>3. SolvencyInv => LongOnly
  BY DEF SolvencyInv, LongOnly
<1>. QED
  BY <1>1, <1>2, <1>3, Invariance, PTL DEF Spec

\* Without a minimum commission, what the cash is thought to cover is covered, and
\* a quantity that is covered covers every smaller one: a reduced buy is smaller.
LEMMA ReducedFill ==
  ASSUME CommissionMin = 0, IInv, SolvencyInv, FillReduced
  PROVE  /\ pending.side = BUY /\ Affordable \in Nat \ {0} /\ Affordable < pending.quantity
         /\ account'.qty = account.qty + Affordable
<1>. USE CostAssumption
<1>. DEFINE ordered == pending.quantity
            price   == OrderedFill.price
<1>1. /\ phase = "execute" /\ Affordable > 0 /\ ~CanAfford(account, OrderedFill)
      /\ account' = ApplyFill(account, MakeFill(pending.side, Affordable, Reference))
  BY DEF FillReduced, Executing
<1>2. /\ pending.side \in Sides /\ ordered \in Nat \ {0} /\ Affordable \in Nat \ {0}
      /\ Reference \in Nat /\ OrderedFill \in Fills
  BY <1>1, PendingType, OrderFillType DEF IInv, TypeOK, QueueInv
<1>3. /\ account \in Accounts /\ FlatIsEmpty(account) /\ account.cash \in Int
      /\ account.qty \in Int /\ account.cash >= 0
  BY <1>1 DEF IInv, TypeOK, AccountInv, Accounts, SolvencyInv, CashNeverNegative
<1>4. /\ OrderedFill.side = pending.side /\ Notional(OrderedFill) = ordered * price
      /\ OrderedFill.commission = Commission(ordered * price)
      /\ price \in Nat
  BY <1>2 DEF OrderedFill, MakeFill, Notional, Fills
<1>. HIDE DEF ordered, price
<1>5. pending.side = BUY /\ account.cash < ordered * price + Commission(ordered * price)
  <2>1. pending.side = BUY
    BY <1>1, <1>2, <1>4 DEF CanAfford, Sides
  <2>2. ~(account.cash >= ordered * price + Commission(ordered * price))
    BY <1>1, <1>4 DEF CanAfford
  <2>3. Commission(ordered * price) \in Nat /\ ordered * price \in Nat
    BY <1>2, <1>4, ProductNat DEF Fills
  <2>. QED
    BY <1>3, <2>1, <2>2, <2>3
<1>6. Affordable * price + Commission(Affordable * price) <= account.cash
  <2>1. Affordable = MaxAffordableQuantity(account, price)
    BY DEF Affordable, price
  <2>. QED
    BY <1>2, <1>3, <1>4, <2>1, AffordableIsCovered
<1>7. Affordable < ordered
  <2>. SUFFICES ASSUME ordered <= Affordable PROVE FALSE
    BY <1>2
  <2>1. /\ ordered * price \in Nat /\ Affordable * price \in Nat
        /\ ordered * price <= Affordable * price
    BY <1>2, <1>4, ProductNat
  <2>2. /\ Commission(ordered * price) \in Nat
        /\ Commission(ordered * price) <= Commission(Affordable * price)
        /\ Commission(Affordable * price) \in Nat
    BY <2>1, CommissionGrows
  <2>. QED
    BY <1>3, <1>5, <1>6, <2>1, <2>2
<1>8. account'.qty = account.qty + Affordable
  BY <1>1, <1>2, <1>3, <1>5, FillMoves DEF BUY
<1>. QED
  BY <1>2, <1>5, <1>7, <1>8 DEF ordered

\* Without a minimum commission, a buy reported as reduced is smaller than the
\* buy it replaces, in every state a run can reach.
THEOREM ReducedBuys ==
  ASSUME CommissionMin = 0
  PROVE  Spec => ReductionsReduce
<1>. USE CostAssumption
<1>. DEFINE Reduces ==
       tally'.reduced # tally.reduced => account'.qty - account.qty < pending.quantity
<1>1. IInv /\ SolvencyInv /\ [Next]_vars => [Reduces]_vars
  <2>. SUFFICES ASSUME IInv, SolvencyInv, Next, tally'.reduced # tally.reduced
                PROVE  Reduces
    OBVIOUS
  <2>1. CASE FillReduced
    <3>1. account.qty \in Int /\ pending.quantity \in Nat
      BY <2>1, PendingType DEF IInv, TypeOK, Accounts, QueueInv, FillReduced, Executing
    <3>. QED
      BY <2>1, <3>1, ReducedFill
  <2>2. CASE NextBar \/ FillInFull \/ SkipBuy \/ MarkToMarket \/ CloseOut \/ Done
    BY <2>2 DEF NextBar, FillInFull, SkipBuy, MarkToMarket, CloseOut, Liquidate, LeaveOpen,
       Closing, Done, vars, IInv, TypeOK
  <2>3. ASSUME NEW target, PlaceOrder(target) PROVE tally'.reduced = tally.reduced
    BY <2>3 DEF PlaceOrder, IInv, TypeOK
  <2>4. CASE \/ ExitPosition
             \/ \E signal \in Directions, strength \in Strengths : FollowSignal(signal, strength)
    BY <2>3, <2>4 DEF ExitPosition, FollowSignal
  <2>. QED
    BY <2>1, <2>2, <2>4 DEF Next, Step
<1>2. Init => SolvencyInv
  BY InitSolvency
<1>3. IInv /\ SolvencyInv /\ [Next]_vars => SolvencyInv'
  BY StepSolvency
<1>. QED
  BY <1>1, <1>2, <1>3, Invariance, PTL DEF Spec, ReductionsReduce

-----------------------------------------------------------------------------
(* Stops and churn. *)

\* A barred direction is only ever left: the position is on its side or flat, and
\* what waits to be executed closes it exactly.
StopInv ==
  \A direction \in suppressed :
    /\ direction * account.qty >= 0
    /\ pending # NoOrder => pending.side * pending.quantity = -account.qty

\* An order that is filled in full moves the position by its signed quantity.
LEMMA FullFillMoves ==
  ASSUME IInv, FillInFull
  PROVE  /\ account'.qty = account.qty + pending.side * pending.quantity
         /\ pending.side \in Sides /\ pending.quantity \in Nat \ {0} /\ account.qty \in Int
<1>1. phase = "execute" /\ account' = ApplyFill(account, OrderedFill)
  BY DEF FillInFull, Executing
<1>2. /\ pending.side \in Sides /\ pending.quantity \in Nat \ {0} /\ Reference \in Nat
      /\ account \in Accounts /\ account.qty \in Int /\ FlatIsEmpty(account)
  BY <1>1, PendingType, OrderFillType DEF IInv, TypeOK, QueueInv, AccountInv, Accounts
<1>. QED
  BY <1>1, <1>2, FillMoves DEF OrderedFill

\* Executing the order of a stop takes the position towards zero, not past it.
LEMMA BarredFill ==
  ASSUME CommissionMin = 0, IInv, SolvencyInv, StopInv,
         FillInFull \/ FillReduced \/ SkipBuy, NEW direction \in suppressed
  PROVE  /\ direction * account'.qty >= 0
         /\ direction * account'.qty <= direction * account.qty
<1>1. /\ direction \in {LONG, SHORT} /\ account.qty \in Int
      /\ direction * account.qty >= 0
      /\ pending # NoOrder => pending.side * pending.quantity = -account.qty
  BY DEF StopInv, IInv, TypeOK, Accounts
<1>2. pending # NoOrder
  BY DEF FillInFull, FillReduced, SkipBuy, Executing, IInv, QueueInv
<1>3. CASE FillInFull
  BY <1>1, <1>2, <1>3, FullFillMoves DEF LONG, SHORT
<1>4. CASE FillReduced
  <2>1. /\ pending.side = BUY /\ Affordable \in Nat \ {0} /\ Affordable < pending.quantity
        /\ account'.qty = account.qty + Affordable
    BY <1>4, ReducedFill
  <2>2. pending.quantity \in Nat
    BY <1>2, PendingType DEF IInv, TypeOK
  <2>3. pending.quantity = -account.qty
    BY <1>1, <1>2, <2>1, <2>2 DEF BUY
  <2>. QED
    BY <1>1, <2>1, <2>2, <2>3 DEF LONG, SHORT
<1>5. CASE SkipBuy
  BY <1>1, <1>5 DEF SkipBuy, LONG, SHORT
<1>. QED
  BY <1>3, <1>4, <1>5

\* A direction that is barred after a decision has just been stopped, or is still
\* signalled and counts as flat: the decision is for no position.
LEMMA BarredDecision ==
  ASSUME IInv, StopInv,
         \/ ExitPosition
         \/ \E signal \in Directions, strength \in Strengths : FollowSignal(signal, strength)
  PROVE  StopInv' /\ account' = account
<1>. USE EngineAssumption
<1>1. /\ TypeOK /\ phase = "decide" /\ bar > 0 /\ bar < NumBars /\ TallyInv
      /\ pending = NoOrder /\ account' = account /\ account.qty \in Int
  BY DEF IInv, QueueInv, TypeOK, Accounts, ExitPosition, FollowSignal, Deciding
<1>2. ASSUME PlaceOrder(0)
      PROVE  pending' # NoOrder => pending'.side * pending'.quantity = -account.qty
  BY <1>1, <1>2, PlaceOrderEffect
<1>3. CASE ExitPosition
  <2>1. suppressed' = {SignOf(account.qty)} /\ PlaceOrder(0)
    BY <1>3 DEF ExitPosition
  <2>2. SignOf(account.qty) * account.qty >= 0
    BY <1>1 DEF SignOf
  <2>. QED
    BY <1>1, <1>2, <2>1, <2>2 DEF StopInv
<1>4. ASSUME NEW signal \in Directions, NEW strength \in Strengths,
             FollowSignal(signal, strength)
      PROVE  StopInv'
  <2>. SUFFICES ASSUME NEW direction \in suppressed' PROVE PlaceOrder(0) /\ direction \in suppressed
    BY <1>1, <1>2 DEF StopInv
  <2>1. direction \in suppressed /\ Permitted(signal) = direction
    BY <1>4 DEF FollowSignal
  <2>2. Target(Effective(signal), strength) = 0
    <3>1. Effective(signal) = FLAT
      BY <2>1 DEF Effective
    <3>2. FLAT = SignOf(account.qty) => account.qty = 0
      BY <1>1 DEF FLAT, SignOf
    <3>3. PositionSize(FLAT, strength) = 0
      BY DEF PositionSize
    <3>. QED
      BY <3>1, <3>2, <3>3 DEF Target
  <2>. QED
    BY <1>4, <2>1, <2>2 DEF FollowSignal
<1>. QED
  BY <1>1, <1>3, <1>4

\* The close-out leaves no position.
LEMMA CloseOutMoves ==
  ASSUME IInv, CloseOut
  PROVE  account'.qty = 0 \/ account' = account
<1>1. CASE Liquidate /\ account.qty # 0
  <2>1. /\ account \in Accounts /\ account.qty \in Int /\ FlatIsEmpty(account)
        /\ market.close \in Nat
    BY <1>1, CloseType DEF Liquidate, Closing, IInv, TypeOK, AccountInv, Accounts
  <2>. DEFINE side == IF account.qty > 0 THEN SELL ELSE BUY
              quantity == Abs(account.qty)
  <2>2. /\ side \in Sides /\ quantity \in Nat \ {0} /\ account.qty + side * quantity = 0
    BY <1>1, <2>1 DEF Abs, Sides, SELL, BUY
  <2>3. account' = ApplyFill(account, MakeFill(side, quantity, market.close))
    BY <1>1 DEF Liquidate, ClosingFill
  <2>. HIDE DEF side, quantity
  <2>. QED
    BY <2>1, <2>2, <2>3, FillMoves
<1>. QED
  BY <1>1 DEF CloseOut, Liquidate, LeaveOpen

\* Without a minimum commission, no step grows a position in a direction a stop
\* has barred: whatever is signalled meanwhile, and however often a buy that covers
\* is reduced or skipped for lack of cash.
THEOREM StopsHold ==
  ASSUME CommissionMin = 0
  PROVE  Spec => StopHolds
<1>. DEFINE Holds ==
       \A direction \in suppressed \cap suppressed' :
         direction * account'.qty <= direction * account.qty
<1>1. IInv /\ SolvencyInv /\ StopInv /\ [Next]_vars => StopInv' /\ [Holds]_vars
  <2>. SUFFICES ASSUME IInv, SolvencyInv, StopInv, [Next]_vars PROVE StopInv' /\ Holds
    OBVIOUS
  <2>1. suppressed \subseteq {LONG, SHORT} /\ account.qty \in Int
    BY DEF IInv, TypeOK, Accounts
  <2>2. ASSUME UNCHANGED account PROVE Holds
    BY <2>1, <2>2 DEF LONG, SHORT
  <2>3. CASE FillInFull \/ FillReduced \/ SkipBuy
    <3>1. pending' = NoOrder /\ suppressed' = suppressed
      BY <2>3 DEF FillInFull, FillReduced, SkipBuy, Executing
    <3>. QED
      BY <2>3, <3>1, BarredFill DEF StopInv
  <2>4. CASE \/ ExitPosition
             \/ \E signal \in Directions, strength \in Strengths : FollowSignal(signal, strength)
    BY <2>2, <2>4, BarredDecision
  <2>5. CASE NextBar \/ MarkToMarket \/ Done \/ UNCHANGED vars
    BY <2>2, <2>5 DEF NextBar, MarkToMarket, Done, vars, StopInv
  <2>6. CASE CloseOut
    <3>1. UNCHANGED <<pending, suppressed>> /\ pending = NoOrder
      BY <2>6 DEF CloseOut, Liquidate, LeaveOpen, Closing, IInv, QueueInv
    <3>2. CASE account'.qty = 0
      BY <2>1, <3>1, <3>2 DEF StopInv, LONG, SHORT
    <3>3. CASE account' = account
      BY <2>2, <3>1, <3>3 DEF StopInv
    <3>. QED
      BY <2>6, <3>2, <3>3, CloseOutMoves
  <2>. QED
    BY <2>3, <2>4, <2>5, <2>6 DEF Next, Step
<1>2. Init => SolvencyInv /\ StopInv
  BY InitSolvency DEF Init, StopInv
<1>3. IInv /\ SolvencyInv /\ [Next]_vars => SolvencyInv'
  BY StepSolvency
<1>. QED
  BY <1>1, <1>2, <1>3, Invariance, PTL DEF Spec, StopHolds

\* In a long-only run whose strategy does not rebalance, an order waits only to
\* open a position or to leave one.
ChurnInv == pending # NoOrder => account.qty = 0 \/ pending.side = SELL

\* A decision is for the position that is held, for none, or, from none, for one.
LEMMA ChurnDecision ==
  ASSUME ~AllowShort, ~Rebalances, IInv, SolvencyInv,
         \/ ExitPosition
         \/ \E signal \in Directions, strength \in Strengths : FollowSignal(signal, strength)
  PROVE  ChurnInv' /\ account' = account
<1>. USE EngineAssumption
<1>1. /\ TypeOK /\ phase = "decide" /\ bar > 0 /\ bar < NumBars /\ TallyInv
      /\ pending = NoOrder /\ account' = account
      /\ account.qty \in Int /\ account.qty >= 0
  BY DEF IInv, QueueInv, TypeOK, Accounts, ExitPosition, FollowSignal, Deciding, SolvencyInv
<1>2. ASSUME NEW target, target = 0 \/ target = account.qty, PlaceOrder(target),
             account.qty # 0, pending' # NoOrder
      PROVE  pending'.side = SELL
  <2>1. target \in Int
    BY <1>1, <1>2
  <2>2. /\ pending' \in Orders
        /\ pending'.side * pending'.quantity = target - account.qty
    BY <1>1, <1>2, <2>1, PlaceOrderEffect
  <2>3. pending'.side \in Sides /\ pending'.quantity \in Nat \ {0}
    BY <1>2, <2>2 DEF Orders
  <2>. QED
    BY <1>1, <1>2, <2>2, <2>3 DEF Sides, BUY
<1>3. CASE ExitPosition
  BY <1>1, <1>2, <1>3 DEF ExitPosition, ChurnInv
<1>4. ASSUME NEW signal \in Directions, NEW strength \in Strengths,
             FollowSignal(signal, strength), account.qty # 0
      PROVE  PlaceOrder(0) \/ PlaceOrder(account.qty)
  <2>1. Effective(signal) \in {LONG, FLAT}
    BY DEF Effective, Permitted, Directions
  <2>2. SignOf(account.qty) = LONG
    BY <1>1, <1>4 DEF SignOf, LONG
  <2>3. PositionSize(FLAT, strength) = 0
    BY DEF PositionSize
  <2>4. Target(Effective(signal), strength) \in {0, account.qty}
    BY <2>1, <2>2, <2>3 DEF Target
  <2>. QED
    BY <1>4, <2>4 DEF FollowSignal
<1>5. ASSUME NEW signal \in Directions, NEW strength \in Strengths,
             FollowSignal(signal, strength)
      PROVE  ChurnInv'
  BY <1>1, <1>2, <1>4, <1>5 DEF ChurnInv
<1>. QED
  BY <1>1, <1>3, <1>5

\* Without a minimum commission, a long-only run whose strategy does not rebalance
\* never adds to a position: it opens one, holds it and leaves it.
THEOREM PositionsAreLeftAlone ==
  ASSUME CommissionMin = 0, ~AllowShort
  PROVE  Spec => NoChurn
<1>. DEFINE Alone ==
       ~Rebalances /\ SignOf(account'.qty) = SignOf(account.qty)
         => Abs(account'.qty) <= Abs(account.qty)
            Inv == ~Rebalances => ChurnInv
<1>1. IInv /\ SolvencyInv /\ SolvencyInv' /\ Inv /\ [Next]_vars => Inv' /\ [Alone]_vars
  <2>. SUFFICES ASSUME IInv, SolvencyInv, SolvencyInv', ChurnInv, [Next]_vars, ~Rebalances
                PROVE  ChurnInv' /\ Alone
    BY EngineAssumption
  <2>1. account.qty \in Int /\ account.qty >= 0
    BY DEF IInv, TypeOK, Accounts, SolvencyInv
  <2>2. ASSUME account' = account \/ account'.qty = 0 PROVE Alone
    BY <2>1, <2>2 DEF Abs
  <2>3. CASE FillInFull \/ FillReduced
    <3>1. pending' = NoOrder /\ (account.qty = 0 \/ pending.side = SELL)
      BY <2>3 DEF FillInFull, FillReduced, Executing, IInv, QueueInv, ChurnInv
    <3>2. CASE FillInFull
      <4>1. /\ account'.qty = account.qty + pending.side * pending.quantity
            /\ pending.side \in Sides /\ pending.quantity \in Nat \ {0}
            /\ account'.qty >= 0
        BY <3>2, FullFillMoves DEF SolvencyInv
      <4>2. CASE account.qty = 0
        <5>1. account'.qty \in Int /\ account'.qty # 0
          BY <4>1, <4>2 DEF Sides, BUY, SELL
        <5>2. SignOf(account'.qty) # SignOf(account.qty)
          BY <4>2, <5>1 DEF SignOf
        <5>. QED
          BY <3>1, <5>2 DEF ChurnInv
      <4>3. CASE pending.side = SELL
        <5>1. account'.qty = account.qty - pending.quantity
          BY <2>1, <4>1, <4>3 DEF SELL
        <5>2. Abs(account'.qty) <= Abs(account.qty)
          BY <2>1, <4>1, <5>1 DEF Abs
        <5>. QED
          BY <3>1, <5>2 DEF ChurnInv
      <4>. QED
        BY <3>1, <4>2, <4>3 DEF ChurnInv
    <3>3. CASE FillReduced
      <4>1. /\ pending.side = BUY /\ Affordable \in Nat \ {0}
            /\ account'.qty = account.qty + Affordable
        BY <3>3, ReducedFill
      <4>. QED
        BY <3>1, <4>1 DEF BUY, SELL, SignOf, ChurnInv
    <3>. QED
      BY <2>3, <3>2, <3>3
  <2>4. CASE SkipBuy
    BY <2>2, <2>4 DEF SkipBuy, Executing, ChurnInv
  <2>5. CASE \/ ExitPosition
             \/ \E signal \in Directions, strength \in Strengths : FollowSignal(signal, strength)
    BY <2>2, <2>5, ChurnDecision
  <2>6. CASE NextBar \/ MarkToMarket \/ Done \/ UNCHANGED vars
    BY <2>2, <2>6 DEF NextBar, MarkToMarket, Done, vars, ChurnInv
  <2>7. CASE CloseOut
    <3>1. UNCHANGED pending /\ pending = NoOrder
      BY <2>7 DEF CloseOut, Liquidate, LeaveOpen, Closing, IInv, QueueInv
    <3>. QED
      BY <2>2, <2>7, <3>1, CloseOutMoves DEF ChurnInv
  <2>. QED
    BY <2>3, <2>4, <2>5, <2>6, <2>7 DEF Next, Step
<1>2. Init => SolvencyInv /\ Inv
  BY InitSolvency DEF Init, ChurnInv
<1>3. IInv /\ SolvencyInv /\ [Next]_vars => SolvencyInv'
  BY StepSolvency
<1>. QED
  BY <1>1, <1>2, <1>3, Invariance, PTL DEF Spec, NoChurn
=============================================================================
