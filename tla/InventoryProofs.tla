--------------------------- MODULE InventoryProofs ----------------------------
(***************************************************************************)
(* Theorems about Inventory for every set of orders, rows and connections. *)
(*                                                                         *)
(* Conservation alone is not inductive: a rollback replaces the counters   *)
(* of the locked rows by the images kept in undo.  IInv therefore adds     *)
(* that those images balance as well, and that a running transaction       *)
(* points at an order and at a line of its basket.                         *)
(*                                                                         *)
(* Four more layers rest on it.  Books: the counters of a row equal the    *)
(* sums over its reservations, in the current and in the rolled-back view. *)
(* Progress: how far a basket has got, for the refinement of OrderStock.   *)
(* NothingLapses and ClaimsStand: what a claim holds and who may take it.  *)
(***************************************************************************)
EXTENDS Inventory, SumProofs, FiniteSetTheorems, TLAPS

Balanced(s, n) == s.avail + s.reserved + s.sold = n

\* Only existing rows are locked, and the image behind every row lock balances:
\* nobody else may supply or correct a row while it is locked.
ImagesBalance ==
    \A u \in Units : lock[u] # None =>
        /\ u \in present
        /\ Balanced(undo[lock[u]][u].stock, supplied[u])

\* A transaction past its BEGIN names an order, and one working on a line
\* names a line of that order's basket.
PointsAtLine(t) ==
    /\ txn[t].at # "none" => txn[t].order \in Orders
    /\ txn[t].at \in {"gate", "cascade", "lock"} => txn[t].line \in DOMAIN Basket[txn[t].order]

IInv ==
    /\ TypeOK
    /\ Conservation
    /\ ImagesBalance
    /\ \A t \in Txns : PointsAtLine(t)

-----------------------------------------------------------------------------
(* The initial state.                                                      *)

\* The migration provisions balanced counters and nothing is locked.
LEMMA InitEstablishes == Init => IInv
  <1> SUFFICES ASSUME Init PROVE IInv
    OBVIOUS
  <1> USE ConstantsAssumption
  <1>1. TypeOK
    BY DEF Init, TypeOK, Stock, Row, NoRow, NoStock, NoImage, Image, Idle, Txn, Ops, Steps
  <1>2. Conservation
    BY DEF Init, Conservation
  <1>3. ImagesBalance /\ \A t \in Txns : PointsAtLine(t)
    BY DEF Init, ImagesBalance, PointsAtLine, Idle
  <1> QED
    BY <1>1, <1>2, <1>3 DEF IInv

-----------------------------------------------------------------------------
(* Operators the actions are built from.                                   *)

\* The smaller of two naturals is a natural not above either.
LEMMA MinOfNat == ASSUME NEW a \in Nat, NEW b \in Nat
                  PROVE /\ MinOf(a, b) \in Nat
                        /\ MinOf(a, b) <= a
                        /\ MinOf(a, b) <= b
  BY DEF MinOf

\* Taking a row lock and its before-image keeps the images well typed and
\* balanced, whatever row is taken.
LEMMA LockKeepsImages ==
    ASSUME IInv, NEW t \in Txns, NEW u, txn[t].order \in Orders,
           LockAndKeepImage(t, u), supplied' = supplied, present' = present
    PROVE  /\ lock' \in [Units -> Txns \cup {None}]
           /\ undo' \in [Txns -> [Units -> Image]]
           /\ ImagesBalance'
  <1> USE DEF IInv, TypeOK, Image
  <1>1. lock' \in [Units -> Txns \cup {None}]
    BY DEF LockAndKeepImage
  <1>2. undo' \in [Txns -> [Units -> Image]]
    <2>1. CASE u \in Units
      BY <2>1 DEF LockAndKeepImage
    <2>2. CASE u \notin Units
      BY <2>2 DEF LockAndKeepImage
    <2> QED
      BY <2>1, <2>2
  <1>3. ImagesBalance'
    <2> SUFFICES ASSUME NEW v \in Units, lock'[v] # None
                 PROVE v \in present /\ Balanced(undo'[lock'[v]][v].stock, supplied[v])
      BY DEF ImagesBalance, LockAndKeepImage
    <2>1. CASE u = v /\ lock[u] # t
      BY <2>1 DEF LockAndKeepImage, Obtainable, Conservation, Balanced
    <2>2. CASE u # v \/ lock[u] = t
      <3>1. lock'[v] = lock[v] /\ undo'[lock[v]][v] = undo[lock[v]][v]
        BY <2>2, ConstantsAssumption DEF LockAndKeepImage
      <3> QED
        BY <3>1 DEF ImagesBalance
    <2> QED
      BY <2>1, <2>2
  <1> QED
    BY <1>1, <1>2, <1>3

\* Ending a transaction releases its locks and touches no other image.
LEMMA EndKeepsShape ==
    ASSUME IInv, NEW t \in Txns, EndTxn(t), supplied' = supplied, present' = present
    PROVE  /\ txn' \in [Txns -> Txn]
           /\ lock' \in [Units -> Txns \cup {None}]
           /\ rowLock' \in [Orders -> Txns \cup {None}]
           /\ stockLock' \in Txns \cup {None}
           /\ undo' \in [Txns -> [Units -> Image]]
           /\ ImagesBalance'
           /\ \A x \in Txns : PointsAtLine(x)'
  <1> USE DEF IInv, TypeOK, EndTxn
  <1>1. txn' \in [Txns -> Txn]
    BY DEF Txn, Idle, Ops, Steps
  <1>2. /\ lock' \in [Units -> Txns \cup {None}]
        /\ rowLock' \in [Orders -> Txns \cup {None}]
        /\ stockLock' \in Txns \cup {None}
    OBVIOUS
  <1>3. undo' \in [Txns -> [Units -> Image]]
    BY DEF NoImage, NoStock, NoRow, Image, Stock, Row
  <1>4. ImagesBalance'
    <2> SUFFICES ASSUME NEW u \in Units, lock'[u] # None
                 PROVE u \in present /\ Balanced(undo'[lock'[u]][u].stock, supplied[u])
      BY DEF ImagesBalance
    <2>1. lock'[u] = lock[u] /\ lock[u] # t /\ lock[u] \in Txns
      BY ConstantsAssumption
    <2> QED
      BY <2>1 DEF ImagesBalance
  <1>5. \A x \in Txns : PointsAtLine(x)'
    BY DEF PointsAtLine, Idle
  <1> QED
    BY <1>1, <1>2, <1>3, <1>4, <1>5

-----------------------------------------------------------------------------
(* One lemma per group of actions.                                         *)

\* Calls only write a claim and the transaction's own counter.
LEMMA CallPreserves ==
    ASSUME IInv, NEW t \in Txns, Call(t) PROVE IInv'
  <1> USE DEF IInv, TypeOK
  <1>1. /\ UNCHANGED << present, stock, rsv, supplied, lock, rowLock, undo >>
        /\ stockLock' \in {stockLock, t}
        /\ claimed' \subseteq Orders /\ restored' \subseteq Orders /\ delivered' \subseteq Orders
    BY DEF Call, StartReserve, StartRestore, StartCommit, StartSweep
  <1>2. /\ txn' \in [Txns -> Txn]
        /\ \A x \in Txns : PointsAtLine(x)'
    <2>1. PICK o \in Orders : \/ \E lapse \in Lapses : StartReserve(t, o, lapse)
                              \/ StartRestore(t, o) \/ StartCommit(t, o) \/ StartSweep(t, o)
      BY DEF Call
    <2>2. ASSUME NEW lapse \in Lapses, StartReserve(t, o, lapse)
          PROVE  txn' \in [Txns -> Txn] /\ \A x \in Txns : PointsAtLine(x)'
      <3>1. 1 \in DOMAIN Basket[o]
        BY <2>2, ConstantsAssumption DEF StartReserve
      <3>2. lapse \in BOOLEAN
        BY ConstantsAssumption
      <3> QED
        BY <2>2, <3>1, <3>2 DEF StartReserve, PointsAtLine, Txn, Ops, Steps
    <2>3. ASSUME NEW op \in {"release", "restock", "commit"}, Begin(t, o, op)
          PROVE  txn' \in [Txns -> Txn] /\ \A x \in Txns : PointsAtLine(x)'
      BY <2>3 DEF Begin, PointsAtLine, Txn, Ops, Steps
    <2> QED
      BY <2>1, <2>2, <2>3 DEF StartRestore, StartCommit, StartSweep
  <1>3. Conservation' /\ ImagesBalance'
    BY <1>1 DEF Conservation, ImagesBalance
  <1> QED
    BY <1>1, <1>2, <1>3

\* One transaction advances to a well-shaped record, the others stand still.
LEMMA AdvanceShape ==
    ASSUME IInv, NEW t \in Txns, NEW r \in Txn,
           txn' = [txn EXCEPT ![t] = r],
           r.at # "none" => r.order \in Orders,
           r.at \in {"gate", "cascade", "lock"} => r.line \in DOMAIN Basket[r.order]
    PROVE  txn' \in [Txns -> Txn] /\ \A x \in Txns : PointsAtLine(x)'
  <1> USE DEF IInv, TypeOK
  <1>1. txn' \in [Txns -> Txn]
    OBVIOUS
  <1>2. ASSUME NEW x \in Txns PROVE PointsAtLine(x)'
    BY DEF PointsAtLine
  <1> QED
    BY <1>1, <1>2

\* A transaction moves on within the same line and order.
LEMMA StepShape ==
    ASSUME IInv, NEW t \in Txns, NEW step \in Steps \ {"none"}, NEW S \in SUBSET Units,
           txn[t].at \notin {"none", "gate", "cascade", "lock"} =>
               step \notin {"gate", "cascade", "lock"},
           txn[t].at # "none",
           txn' = [txn EXCEPT ![t] = [txn[t] EXCEPT !.at = step, !.todo = S]]
    PROVE  txn' \in [Txns -> Txn] /\ \A x \in Txns : PointsAtLine(x)'
  <1> DEFINE r == [txn[t] EXCEPT !.at = step, !.todo = S]
  <1>1. txn[t] \in Txn /\ PointsAtLine(t)
    BY DEF IInv, TypeOK
  <1>2. /\ r \in Txn /\ r.order = txn[t].order
        /\ r.line = txn[t].line /\ r.at = step
    BY <1>1 DEF Txn
  <1>3. txn' = [txn EXCEPT ![t] = r]
    OBVIOUS
  <1> HIDE DEF r
  <1> QED
    BY <1>1, <1>2, <1>3, AdvanceShape DEF PointsAtLine

\* Where a transaction goes after a line.
LEMMA NextLineShape ==
    ASSUME IInv, NEW t \in Txns, txn[t].order \in Orders,
           txn[t].line \in DOMAIN Basket[txn[t].order],
           txn' = [txn EXCEPT ![t] = NextLine(t)]
    PROVE  txn' \in [Txns -> Txn] /\ \A x \in Txns : PointsAtLine(x)'
  <1>0. Basket[txn[t].order] \in Seq(Line) /\ txn[t] \in Txn
    BY ConstantsAssumption DEF IInv, TypeOK
  <1>1. CASE txn[t].line < Len(Basket[txn[t].order])
    <2> DEFINE x == [txn[t] EXCEPT !.line = @ + 1]
               r == [x EXCEPT !.at = "gate", !.todo = {}]
    <2>0. x \in Txn /\ x.order = txn[t].order /\ x.line = txn[t].line + 1
      BY <1>0 DEF Txn
    <2>3. txn' = [txn EXCEPT ![t] = r]
      BY <1>1 DEF NextLine
    <2> HIDE DEF x
    <2>1. /\ r \in Txn /\ r.order = txn[t].order
          /\ r.line = txn[t].line + 1 /\ r.at = "gate"
      BY <2>0 DEF Txn, Steps
    <2>2. r.line \in DOMAIN Basket[r.order]
      BY <1>0, <1>1, <2>1 DEF Txn
    <2> HIDE DEF r
    <2> QED
      BY <2>1, <2>2, <2>3, AdvanceShape
  <1>2. CASE ~(txn[t].line < Len(Basket[txn[t].order]))
    <2>1. txn' = [txn EXCEPT ![t] = [txn[t] EXCEPT !.at = "commit", !.todo = {}]]
      BY <1>2 DEF NextLine
    <2> DEFINE r == [txn[t] EXCEPT !.at = "commit", !.todo = {}]
    <2>3. r \in Txn /\ r.order = txn[t].order /\ r.at = "commit"
      BY <1>0 DEF Txn, Steps
    <2> HIDE DEF r
    <2> QED
      BY <2>1, <2>3, AdvanceShape DEF r
  <1> QED
    BY <1>1, <1>2

\* The steps of a transaction that move no stock.
LEMMA LockingPreserves ==
    ASSUME IInv, NEW t \in Txns,
           UnstockedLine(t) \/ LockGating(t) \/ ResolveCascade(t) \/ LockCascade(t) \/ LockRows(t)
    PROVE  IInv'
  <1>0. /\ txn[t] \in Txn /\ txn[t].todo \subseteq Units
        /\ PointsAtLine(t) /\ txn \in [Txns -> Txn]
    BY DEF IInv, TypeOK, Txn
  <1>1. CASE UnstockedLine(t)
    <2>1. txn' \in [Txns -> Txn] /\ \A x \in Txns : PointsAtLine(x)'
      <3>1. CASE Authoritative
        <4>1. txn' = [txn EXCEPT ![t] = [txn[t] EXCEPT !.at = "abort", !.todo = txn[t].todo]]
          BY <1>0, <1>1, <3>1 DEF UnstockedLine, Txn
        <4>2. txn[t].at = "gate" /\ "abort" \in Steps \ {"none"}
          BY <1>1 DEF UnstockedLine, Steps
        <4> QED
          BY <1>0, <4>1, <4>2, StepShape
      <3>2. CASE ~Authoritative
        BY <1>0, <1>1, <3>2, NextLineShape DEF UnstockedLine, PointsAtLine
      <3> QED
        BY <3>1, <3>2
    <2> QED
      BY <1>1, <2>1 DEF UnstockedLine, IInv, TypeOK, Conservation, ImagesBalance
  <1>2. CASE LockGating(t)
    <2>1. txn[t].order \in Orders
      BY <1>0, <1>2 DEF LockGating, PointsAtLine
    <2>2. /\ lock' \in [Units -> Txns \cup {None}]
          /\ undo' \in [Txns -> [Units -> Image]]
          /\ ImagesBalance'
      BY <1>2, <2>1, LockKeepsImages DEF LockGating
    <2>3. txn' \in [Txns -> Txn] /\ \A x \in Txns : PointsAtLine(x)'
      <3>1. PICK step \in {"abort", "cascade"} :
               txn' = [txn EXCEPT ![t] = [txn[t] EXCEPT !.at = step, !.todo = txn[t].todo]]
        BY <1>0, <1>2 DEF LockGating, GoTo, Txn
      <3>2. txn[t].at = "gate" /\ step \in Steps \ {"none"}
        BY <1>2 DEF LockGating, Steps
      <3> QED
        BY <1>0, <3>1, <3>2, StepShape
    <2> QED
      BY <1>2, <2>2, <2>3 DEF LockGating, Conservation, IInv, TypeOK
  <1>3. CASE ResolveCascade(t)
    <2>1. CascadeUnits(LineOf(t)) \subseteq Units
      BY DEF CascadeUnits, IInv, TypeOK
    <2>2. txn' \in [Txns -> Txn] /\ \A x \in Txns : PointsAtLine(x)'
      <3>1. txn' = [txn EXCEPT ![t] = [txn[t] EXCEPT !.at = "lock", !.todo = CascadeUnits(LineOf(t))]]
        BY <1>0, <1>3 DEF ResolveCascade
      <3>2. txn[t].at = "cascade" /\ "lock" \in Steps \ {"none"}
        BY <1>3 DEF ResolveCascade, Steps
      <3> QED
        BY <2>1, <3>1, <3>2, StepShape
    <2> QED
      BY <1>3, <2>2 DEF ResolveCascade, Conservation, ImagesBalance, IInv, TypeOK
  <1>4. CASE LockCascade(t)
    <2>1. txn[t].order \in Orders
      BY <1>0, <1>4 DEF LockCascade, PointsAtLine
    <2>2. /\ lock' \in [Units -> Txns \cup {None}]
          /\ undo' \in [Txns -> [Units -> Image]]
          /\ ImagesBalance'
      BY <1>4, <2>1, LockKeepsImages DEF LockCascade
    <2> QED
      BY <1>4, <2>2 DEF LockCascade, Conservation, PointsAtLine, IInv, TypeOK
  <1>5. CASE LockRows(t)
    <2>1. txn' \in [Txns -> Txn] /\ \A x \in Txns : PointsAtLine(x)'
      <3> DEFINE S == {u \in Units : Selected(txn[t].op, rsv[txn[t].order][u])}
      <3>1. txn' = [txn EXCEPT ![t] = [txn[t] EXCEPT !.at = "units", !.todo = S]]
        BY <1>0, <1>5 DEF LockRows
      <3>2. S \subseteq Units
        OBVIOUS
      <3>3. txn[t].at = "rows" /\ "units" \in Steps \ {"none"}
        BY <1>5 DEF LockRows, Steps
      <3> HIDE DEF S
      <3> QED
        BY <3>1, <3>2, <3>3, StepShape
    <2>2. rowLock' \in [Orders -> Txns \cup {None}]
      BY <1>5 DEF LockRows, IInv, TypeOK
    <2> QED
      BY <1>5, <2>1, <2>2 DEF LockRows, Conservation, ImagesBalance, IInv, TypeOK
  <1> QED
    BY <1>1, <1>2, <1>3, <1>4, <1>5

\* reserveStockForOrder: what leaves the sellable count enters the reserved one.
LEMMA TakePreserves ==
    ASSUME IInv, NEW t \in Txns, TakeCascade(t) PROVE IInv'
  <1> DEFINE o == txn[t].order
             qty == LineOf(t).qty
  <1>0. /\ o \in Orders /\ txn[t].line \in DOMAIN Basket[o]
        /\ txn[t].lapse \in BOOLEAN
    BY DEF TakeCascade, IInv, TypeOK, PointsAtLine, Txn
  <1>1. qty \in Nat
    <2>1. Basket[o] \in Seq(Line)
      BY <1>0, ConstantsAssumption
    <2>2. LineOf(t) \in Line
      BY <1>0, <2>1 DEF LineOf
    <2> QED
      BY <2>2 DEF Line
  <1> HIDE DEF o, qty
  <1>2. ASSUME NEW u \in Units
        PROVE  /\ Taken(o, u, qty) \in Nat /\ Taken(o, u, qty) <= stock[u].avail
               /\ stock[u] \in Stock /\ rsv[o][u] \in Row
    <2>1. stock[u] \in Stock /\ rsv[o][u] \in Row
      BY <1>0 DEF IInv, TypeOK
    <2>2. stock[u].avail \in Nat
      BY <2>1 DEF Stock
    <2>3. MinOf(stock[u].avail, qty) \in Nat /\ MinOf(stock[u].avail, qty) <= stock[u].avail
      BY <1>1, <2>2, MinOfNat
    <2>4. Taken(o, u, qty) \in {0, MinOf(stock[u].avail, qty)}
      BY DEF Taken
    <2> HIDE DEF Taken
    <2> QED
      BY <2>1, <2>2, <2>3, <2>4
  <1>3. stock' \in [Units -> Stock] /\ Conservation'
    <2>1. ASSUME NEW u \in Units
          PROVE  /\ stock'[u] \in Stock
                 /\ stock'[u].avail + stock'[u].reserved + stock'[u].sold
                        = stock[u].avail + stock[u].reserved + stock[u].sold
      BY <1>2 DEF TakeCascade, Stock, o, qty
    <2>2. stock' = [u \in Units |-> stock'[u]]
      BY DEF TakeCascade
    <2> QED
      BY <2>1, <2>2 DEF TakeCascade, IInv, Conservation
  <1>4. rsv' \in [Orders -> [Units -> Row]]
    <2> DEFINE rows == [u \in Units |->
                    IF u \in txn[t].todo /\ Taken(o, u, qty) > 0
                    THEN [active |-> Taken(o, u, qty), committed |-> rsv[o][u].committed,
                          lapse |-> txn[t].lapse]
                    ELSE rsv[o][u]]
    <2>1. rsv' = [rsv EXCEPT ![o] = rows]
      BY DEF TakeCascade, o, qty
    <2>2. rows \in [Units -> Row]
      BY <1>0, <1>2 DEF Row
    <2> HIDE DEF rows
    <2> QED
      BY <2>1, <2>2 DEF IInv, TypeOK
  <1>5. txn' \in [Txns -> Txn] /\ \A x \in Txns : PointsAtLine(x)'
    BY <1>0, NextLineShape DEF TakeCascade, o
  <1> QED
    BY <1>3, <1>4, <1>5 DEF TakeCascade, IInv, TypeOK, ImagesBalance

\* releaseOrderReservations, commitOrderReservations and restockReturnedOrder
\* move a row's quantity between two counters, clamped to what is there.
LEMMA MovesBalance ==
    ASSUME NEW s \in Stock, NEW r \in Row, NEW n \in Int, Balanced(s, n)
    PROVE  /\ Released(s, r) \in Stock /\ Balanced(Released(s, r), n)
           /\ SoldOff(s, r) \in Stock /\ Balanced(SoldOff(s, r), n)
           /\ Restocked(s, r) \in Stock /\ Balanced(Restocked(s, r), n)
           /\ ReleasedRow(r) \in Row /\ CommittedOf(r) \in Row /\ RestockedRow(r) \in Row
  <1>1. /\ s.avail \in Nat /\ s.reserved \in Nat /\ s.sold \in Nat
        /\ r.active \in Nat /\ r.committed \in Nat
    BY DEF Stock, Row
  <1>2. /\ MinOf(r.active, s.reserved) \in Nat /\ MinOf(r.active, s.reserved) <= s.reserved
        /\ MinOf(r.committed, s.sold) \in Nat /\ MinOf(r.committed, s.sold) <= s.sold
    BY <1>1, MinOfNat
  <1>3. Released(s, r) \in Stock /\ Balanced(Released(s, r), n)
    BY <1>1, <1>2 DEF Released, Balanced, Stock
  <1>4. SoldOff(s, r) \in Stock /\ Balanced(SoldOff(s, r), n)
    BY <1>1, <1>2 DEF SoldOff, Balanced, Stock
  <1>5. Restocked(s, r) \in Stock /\ Balanced(Restocked(s, r), n)
    BY <1>1, <1>2 DEF Restocked, Balanced, Stock
  <1>6. ReleasedRow(r) \in Row /\ CommittedOf(r) \in Row /\ RestockedRow(r) \in Row
    BY <1>1 DEF ReleasedRow, CommittedOf, RestockedRow, NoRow, Row
  <1> QED
    BY <1>3, <1>4, <1>5, <1>6

LEMMA MovePreserves ==
    ASSUME IInv, NEW t \in Txns,
           ReleaseUnit(t) \/ CommitUnit(t) \/ RestockUnit(t)
    PROVE  IInv'
  <1> DEFINE o == txn[t].order
             u == Lowest(txn[t].todo)
  <1>0. /\ txn[t] \in Txn /\ PointsAtLine(t)
        /\ txn[t].at = "units" /\ o \in Orders
        /\ LockAndKeepImage(t, u)
        /\ txn' = [txn EXCEPT ![t].todo = @ \ {u}]
        /\ UNCHANGED << present, supplied, claimed, restored, delivered, rowLock, stockLock >>
    BY DEF ReleaseUnit, CommitUnit, RestockUnit, MoveUnit, IInv, TypeOK, PointsAtLine
  <1>1. PICK s, r :
          /\ stock' = [stock EXCEPT ![u] = s]
          /\ rsv' = [rsv EXCEPT ![o][u] = r]
          /\ u \in Units => s \in Stock /\ r \in Row /\ Balanced(s, supplied[u])
    <2>1. u \in Units => /\ stock[u] \in Stock /\ rsv[o][u] \in Row
                         /\ supplied[u] \in Int /\ Balanced(stock[u], supplied[u])
      BY <1>0 DEF IInv, TypeOK, Conservation, Balanced
    <2>2. CASE ReleaseUnit(t)
      <3> WITNESS Released(stock[u], rsv[o][u]), ReleasedRow(rsv[o][u])
      <3> QED
        BY <2>1, <2>2, MovesBalance DEF ReleaseUnit, MoveUnit
    <2>3. CASE CommitUnit(t)
      <3> WITNESS SoldOff(stock[u], rsv[o][u]), CommittedOf(rsv[o][u])
      <3> QED
        BY <2>1, <2>3, MovesBalance DEF CommitUnit, MoveUnit
    <2>4. CASE RestockUnit(t)
      <3> WITNESS Restocked(stock[u], rsv[o][u]), RestockedRow(rsv[o][u])
      <3> QED
        BY <2>1, <2>4, MovesBalance DEF RestockUnit, MoveUnit
    <2> QED
      BY <2>2, <2>3, <2>4
  <1> HIDE DEF o, u
  <1>2. /\ stock' \in [Units -> Stock] /\ rsv' \in [Orders -> [Units -> Row]]
        /\ Conservation'
    <2>1. CASE u \in Units
      BY <1>0, <1>1, <2>1 DEF IInv, TypeOK, Conservation, Balanced
    <2>2. CASE u \notin Units
      BY <1>0, <1>1, <2>2 DEF IInv, TypeOK, Conservation
    <2> QED
      BY <2>1, <2>2
  <1>3. /\ lock' \in [Units -> Txns \cup {None}]
        /\ undo' \in [Txns -> [Units -> Image]]
        /\ ImagesBalance'
    BY <1>0, LockKeepsImages DEF o
  <1>4. txn' \in [Txns -> Txn] /\ \A x \in Txns : PointsAtLine(x)'
    <2>1. txn' = [txn EXCEPT ![t] = [txn[t] EXCEPT !.at = "units", !.todo = txn[t].todo \ {u}]]
      BY <1>0 DEF Txn, IInv, TypeOK
    <2>2. txn[t].todo \ {u} \in SUBSET Units /\ "units" \in Steps \ {"none"}
      BY <1>0 DEF Txn, Steps
    <2> QED
      BY <1>0, <2>1, <2>2, StepShape
  <1> QED
    BY <1>0, <1>2, <1>3, <1>4 DEF IInv, TypeOK

\* COMMIT keeps every counter; ROLLBACK returns the images, which balance.
LEMMA EndPreserves ==
    ASSUME IInv, NEW t \in Txns, CommitTxn(t) \/ Rollback(t) PROVE IInv'
  <1>1. EndTxn(t) /\ UNCHANGED << present, supplied, restored, delivered >>
        /\ claimed' \subseteq Orders
    BY DEF CommitTxn, Rollback, IInv, TypeOK
  <1>2. /\ stock' \in [Units -> Stock] /\ rsv' \in [Orders -> [Units -> Row]]
        /\ Conservation'
    <2>1. CASE CommitTxn(t)
      BY <2>1 DEF CommitTxn, IInv, TypeOK, Conservation
    <2>2. CASE Rollback(t)
      <3>1. ASSUME NEW u \in Units
            PROVE  /\ undo[t][u].stock \in Stock /\ undo[t][u].row \in Row
                   /\ lock[u] = t => Balanced(undo[t][u].stock, supplied[u])
        <4>1. undo[t][u] \in Image
          BY DEF IInv, TypeOK
        <4>2. t # None
          BY ConstantsAssumption
        <4> QED
          BY <4>1, <4>2 DEF IInv, ImagesBalance, Image
      <3>2. stock' \in [Units -> Stock] /\ Conservation'
        BY <2>2, <3>1 DEF Rollback, IInv, TypeOK, Conservation, Balanced
      <3>3. rsv' \in [Orders -> [Units -> Row]]
        BY <2>2, <3>1 DEF Rollback, IInv, TypeOK
      <3> QED
        BY <3>2, <3>3
    <2> QED
      BY <2>1, <2>2
  <1> QED
    BY <1>1, <1>2, EndKeepsShape DEF IInv, TypeOK

\* A crash is a rollback of every open transaction at once.
LEMMA CrashPreserves ==
    ASSUME IInv, Crash PROVE IInv'
  <1> USE DEF IInv, TypeOK
  <1>1. ASSUME NEW u \in Units
        PROVE  CommittedStock(u) \in Stock /\ Balanced(CommittedStock(u), supplied[u])
    BY DEF CommittedStock, Conservation, ImagesBalance, Image, Balanced
  <1>2. ASSUME NEW u \in Units, NEW o \in Orders PROVE CommittedRow(o, u) \in Row
    BY DEF CommittedRow, Image
  <1>3. stock' \in [Units -> Stock] /\ Conservation'
    BY <1>1 DEF Crash, Conservation, Balanced
  <1>4. rsv' \in [Orders -> [Units -> Row]]
    BY <1>2 DEF Crash
  <1>5. txn' \in [Txns -> Txn] /\ \A t \in Txns : PointsAtLine(t)'
    BY DEF Crash, Idle, Txn, Ops, Steps, PointsAtLine
  <1>6. /\ undo' \in [Txns -> [Units -> Image]]
        /\ lock' \in [Units -> Txns \cup {None}]
        /\ rowLock' \in [Orders -> Txns \cup {None}]
        /\ stockLock' \in Txns \cup {None}
        /\ ImagesBalance'
    BY DEF Crash, NoImage, NoStock, NoRow, Image, Stock, Row, ImagesBalance
  <1> QED
    BY <1>3, <1>4, <1>5, <1>6 DEF Crash

\* Corrections move the sellable count and the ledger together, and never on
\* a row somebody holds an image of.
LEMMA SupplyPreserves ==
    ASSUME IInv, NEW n \in StockLevels,
           \/ \E u \in Units : AdjustInventory(u, n)
           \/ \E S \in SUBSET Units : EnsureProductInventory(S, n)
    PROVE  IInv'
  <1>0. n \in Nat
    BY ConstantsAssumption
  <1>1. ASSUME NEW u \in Units, AdjustInventory(u, n) PROVE IInv'
    <2> USE DEF IInv, TypeOK
    <2>1. stock' \in [Units -> Stock] /\ supplied' \in [Units -> Int] /\ Conservation'
      BY <1>0, <1>1 DEF AdjustInventory, Stock, Conservation
    <2>2. ImagesBalance'
      BY <1>1 DEF AdjustInventory, ImagesBalance
    <2>3. \A t \in Txns : PointsAtLine(t)'
      BY <1>1 DEF AdjustInventory, PointsAtLine
    <2> QED
      BY <1>1, <2>1, <2>2, <2>3 DEF AdjustInventory
  <1>2. ASSUME NEW S \in SUBSET Units, EnsureProductInventory(S, n) PROVE IInv'
    <2> USE DEF IInv, TypeOK
    <2>1. stock' \in [Units -> Stock] /\ supplied' \in [Units -> Int] /\ Conservation'
      BY <1>0, <1>2 DEF EnsureProductInventory, Stock, NoStock, Conservation
    <2>2. ImagesBalance'
      BY <1>2 DEF EnsureProductInventory, ImagesBalance
    <2>3. \A t \in Txns : PointsAtLine(t)'
      BY <1>2, SMTT(30) DEF EnsureProductInventory, PointsAtLine
    <2> QED
      BY <1>2, <2>1, <2>2, <2>3 DEF EnsureProductInventory
  <1> QED
    BY <1>1, <1>2

-----------------------------------------------------------------------------
(* The theorems.                                                           *)

\* Every step of the program preserves the inductive invariant.
LEMMA NextPreserves == IInv /\ [Next]_vars => IInv'
  <1> SUFFICES ASSUME IInv, [Next]_vars PROVE IInv'
    OBVIOUS
  <1>1. ASSUME NEW t \in Txns, Step(t) PROVE IInv'
    BY <1>1, LockingPreserves, TakePreserves, MovePreserves, EndPreserves
       DEF Step, RefuseBasket, DeadlockVictim
  <1>2. ASSUME NEW t \in Txns, Call(t) PROVE IInv'
    BY <1>2, CallPreserves
  <1>3. ASSUME NEW t \in Txns, StatementFails(t) PROVE IInv'
    BY <1>3, EndPreserves DEF StatementFails
  <1>4. CASE Crash
    BY <1>4, CrashPreserves
  <1>5. ASSUME NEW n \in StockLevels,
               \/ \E u \in Units : AdjustInventory(u, n)
               \/ \E S \in SUBSET Units : EnsureProductInventory(S, n)
        PROVE IInv'
    BY <1>5, SupplyPreserves
  <1>6. CASE UNCHANGED vars
    BY <1>6 DEF vars, IInv, TypeOK, Conservation, ImagesBalance, PointsAtLine, LineOf
  <1> QED
    BY <1>1, <1>2, <1>3, <1>4, <1>5, <1>6 DEF Next

\* The counters stay natural numbers and every program counter, lock and image
\* well typed, whatever interleaves, fails or crashes in inventory.service.ts.
THEOREM TypeCorrect == Spec => []TypeOK
  <1>1. IInv => TypeOK
    BY DEF IInv
  <1> QED
    BY <1>1, InitEstablishes, NextPreserves, PTL DEF Spec

\* No interleaving, rollback, deadlock victim or crash of reserve, release,
\* commit, restock and correction invents or loses a unit of stock: sellable,
\* reserved and sold always add up to what the audit ledger says was supplied.
THEOREM StockIsConserved == Spec => []Conservation
  <1>1. IInv => Conservation
    BY DEF IInv
  <1> QED
    BY <1>1, InitEstablishes, NextPreserves, PTL DEF Spec

-----------------------------------------------------------------------------
(* The reservation rows.  The counters agree with them twice: in what the   *)
(* transactions have written so far, and in what other connections see, the *)
(* before-images of the locked rows included, which is what a rollback or a *)
(* crash puts back.                                                         *)

Actives(u) == [o \in Orders |-> rsv[o][u].active]
Solds(u) == [o \in Orders |-> rsv[o][u].committed]
SeenActives(u) == [o \in Orders |-> CommittedRow(o, u).active]
SeenSolds(u) == [o \in Orders |-> CommittedRow(o, u).committed]

AddUp(s, actives, solds) ==
    s.reserved = SumOver(actives, Orders) /\ s.sold = SumOver(solds, Orders)

Matches ==
    \A u \in Units : /\ AddUp(stock[u], Actives(u), Solds(u))
                     /\ AddUp(CommittedStock(u), SeenActives(u), SeenSolds(u))

\* The locks of its function that a transaction holds.
Stage(t) ==
    \/ txn[t] = Idle
    \/ /\ txn[t].op = "reserve" /\ txn[t].at \in {"gate", "cascade", "lock", "commit", "abort"}
       /\ stockLock = t
    \/ /\ txn[t].op \in {"release", "commit", "restock"} /\ txn[t].at \in {"rows", "units"}
       /\ txn[t].at = "units" => rowLock[txn[t].order] = t

\* A transaction works on a claimed order, and a reservation on one that nobody
\* else works on and that holds nothing yet.
OwnOrder(t) ==
    /\ txn[t] # Idle => txn[t].order \in claimed
    /\ txn[t].op = "reserve" =>
         /\ \A x \in Txns \ {t} : txn[x].order # txn[t].order
         /\ \A u \in Units : CommittedRow(txn[t].order, u) = NoRow

LocksAreUsed ==
    /\ \A u \in Units : lock[u] # None => txn[lock[u]].at \notin {"none", "rows"}
    /\ \A u \in Units \ present : stock[u].reserved = 0 /\ stock[u].sold = 0

Books ==
    /\ \A t \in Txns : Stage(t) /\ OwnOrder(t)
    /\ LocksAreUsed
    /\ UnclaimedHoldsNothing
    /\ Matches

LEMMA SeenTypes ==
    ASSUME IInv, NEW u \in Units
    PROVE  /\ stock[u] \in Stock /\ CommittedStock(u) \in Stock
           /\ \A o \in Orders : rsv[o][u] \in Row /\ CommittedRow(o, u) \in Row
  BY DEF IInv, TypeOK, CommittedStock, CommittedRow, Image

\* Sums over the orders: all zero, or one summand changed.
LEMMA NothingAddsUp ==
    ASSUME NEW f, \A o \in Orders : f[o] = 0
    PROVE  SumOver(f, Orders) = 0
  <1>1. IsFiniteSet(Orders) /\ {} \in SUBSET Orders
    BY ConstantsAssumption
  <1>2. \A o \in Orders : f[o] \in Nat
    OBVIOUS
  <1>3. SumOver(f, {}) = SumOver(f, Orders)
    BY <1>1, <1>2, SumSubset
  <1> QED
    BY <1>3, SumEmpty

LEMMA SummandFits ==
    ASSUME NEW f, \A o \in Orders : f[o] \in Nat, NEW o \in Orders
    PROVE  f[o] <= SumOver(f, Orders) /\ SumOver(f, Orders) \in Nat
  <1>1. IsFiniteSet(Orders) /\ IsFiniteSet(Orders \ {o})
    BY ConstantsAssumption, FS_Subset
  <1>2. SumOver(f, Orders) = f[o] + SumOver(f, Orders \ {o})
    BY <1>1, SumRemove
  <1>3. SumOver(f, Orders \ {o}) \in Nat /\ SumOver(f, Orders) \in Nat
    BY <1>1, SumType
  <1> QED
    BY <1>2, <1>3

\* The reserved and sold counters cover every single row, so no clamp ever bites.
LEMMA RowFits ==
    ASSUME IInv, Matches, NEW u \in Units, NEW o \in Orders
    PROVE  /\ rsv[o][u].active <= stock[u].reserved /\ rsv[o][u].committed <= stock[u].sold
           /\ CommittedRow(o, u).active <= CommittedStock(u).reserved
           /\ CommittedRow(o, u).committed <= CommittedStock(u).sold
  <1>1. \A p \in Orders : /\ Actives(u)[p] \in Nat /\ Solds(u)[p] \in Nat
                          /\ SeenActives(u)[p] \in Nat /\ SeenSolds(u)[p] \in Nat
    BY SeenTypes DEF Row, Actives, Solds, SeenActives, SeenSolds
  <1>2. /\ Actives(u)[o] <= SumOver(Actives(u), Orders)
        /\ Solds(u)[o] <= SumOver(Solds(u), Orders)
        /\ SeenActives(u)[o] <= SumOver(SeenActives(u), Orders)
        /\ SeenSolds(u)[o] <= SumOver(SeenSolds(u), Orders)
    BY <1>1, SummandFits
  <1>3. /\ Actives(u)[o] = rsv[o][u].active /\ Solds(u)[o] = rsv[o][u].committed
        /\ SeenActives(u)[o] = CommittedRow(o, u).active
        /\ SeenSolds(u)[o] = CommittedRow(o, u).committed
    BY DEF Actives, Solds, SeenActives, SeenSolds
  <1> QED
    BY <1>2, <1>3 DEF Matches, AddUp

LEMMA SummandMoves ==
    ASSUME NEW f, NEW g, NEW o \in Orders, \A p \in Orders : f[p] \in Int /\ g[p] \in Int,
           \A p \in Orders \ {o} : f[p] = g[p]
    PROVE  SumOver(g, Orders) = SumOver(f, Orders) + (g[o] - f[o])
  <1>1. IsFiniteSet(Orders)
    BY ConstantsAssumption
  <1> QED
    BY <1>1, SumChange

\* One row and the counters move together.
LEMMA RowMoves ==
    ASSUME IInv, Matches, NEW u \in Units, NEW o \in Orders,
           rsv'[o][u] \in Row, \A p \in Orders \ {o} : rsv'[p][u] = rsv[p][u],
           stock'[u].reserved = stock[u].reserved + (rsv'[o][u].active - rsv[o][u].active),
           stock'[u].sold = stock[u].sold + (rsv'[o][u].committed - rsv[o][u].committed)
    PROVE  AddUp(stock'[u], Actives(u)', Solds(u)')
  <1>1. \A p \in Orders : rsv[p][u] \in Row /\ rsv'[p][u] \in Row
    BY SeenTypes
  <1>2. SumOver(Actives(u)', Orders) = SumOver(Actives(u), Orders)
                                        + (rsv'[o][u].active - rsv[o][u].active)
    <2>1. PICK f, g : f = Actives(u) /\ g = Actives(u)'
      OBVIOUS
    <2>2. /\ \A p \in Orders : f[p] \in Int /\ g[p] \in Int
          /\ \A p \in Orders \ {o} : f[p] = g[p]
          /\ f[o] = rsv[o][u].active /\ g[o] = rsv'[o][u].active
      BY <1>1, <2>1 DEF Actives, Row
    <2>3. SumOver(g, Orders) = SumOver(f, Orders) + (g[o] - f[o])
      BY <2>2, SummandMoves
    <2> QED
      BY <2>1, <2>2, <2>3
  <1>3. SumOver(Solds(u)', Orders) = SumOver(Solds(u), Orders)
                                      + (rsv'[o][u].committed - rsv[o][u].committed)
    <2>1. PICK f, g : f = Solds(u) /\ g = Solds(u)'
      OBVIOUS
    <2>2. /\ \A p \in Orders : f[p] \in Int /\ g[p] \in Int
          /\ \A p \in Orders \ {o} : f[p] = g[p]
          /\ f[o] = rsv[o][u].committed /\ g[o] = rsv'[o][u].committed
      BY <1>1, <2>1 DEF Solds, Row
    <2>3. SumOver(g, Orders) = SumOver(f, Orders) + (g[o] - f[o])
      BY <2>2, SummandMoves
    <2> QED
      BY <2>1, <2>2, <2>3
  <1> QED
    BY <1>2, <1>3 DEF Matches, AddUp

LEMMA BooksInit == Init => Books
  <1> SUFFICES ASSUME Init PROVE Books
    OBVIOUS
  <1>1. \A t \in Txns : Stage(t) /\ OwnOrder(t)
    BY DEF Init, Stage, OwnOrder, Idle
  <1>2. LocksAreUsed
    BY DEF Init, LocksAreUsed
  <1>3. UnclaimedHoldsNothing
    BY DEF Init, UnclaimedHoldsNothing
  <1>4. ASSUME NEW u \in Units
        PROVE  /\ AddUp(stock[u], Actives(u), Solds(u))
               /\ AddUp(CommittedStock(u), SeenActives(u), SeenSolds(u))
    <2>1. /\ stock[u].reserved = 0 /\ stock[u].sold = 0 /\ CommittedStock(u) = stock[u]
          /\ \A o \in Orders : rsv[o][u] = NoRow /\ CommittedRow(o, u) = NoRow
      BY DEF Init, CommittedStock, CommittedRow
    <2>2. \A o \in Orders : /\ Actives(u)[o] = 0 /\ Solds(u)[o] = 0
                            /\ SeenActives(u)[o] = 0 /\ SeenSolds(u)[o] = 0
      BY <2>1 DEF Actives, Solds, SeenActives, SeenSolds, NoRow
    <2>3. /\ SumOver(Actives(u), Orders) = 0 /\ SumOver(Solds(u), Orders) = 0
          /\ SumOver(SeenActives(u), Orders) = 0 /\ SumOver(SeenSolds(u), Orders) = 0
      BY <2>2, NothingAddsUp
    <2> QED
      BY <2>1, <2>3 DEF AddUp
  <1> QED
    BY <1>1, <1>2, <1>3, <1>4 DEF Books, Matches

-----------------------------------------------------------------------------
(* What others see.                                                        *)

\* Writing behind row locks is invisible: the rows of t's order change only on
\* the rows t has locked, and their images are taken before.
SeenIsKept(t) ==
    /\ \A v \in Units :
          \/ lock'[v] = lock[v] /\ (lock[v] # None => undo'[lock[v]][v] = undo[lock[v]][v])
          \/ /\ lock[v] = None /\ lock'[v] = t
             /\ undo'[t][v] = [stock |-> stock[v], row |-> rsv[txn[t].order][v]]
    /\ \A v \in Units : lock'[v] # None => txn'[lock'[v]].order = txn[lock'[v]].order
    /\ \A v \in Units : lock'[v] # t =>
          stock'[v] = stock[v] /\ \A o \in Orders : rsv'[o][v] = rsv[o][v]
    /\ \A v \in Units : \A o \in Orders \ {txn[t].order} : rsv'[o][v] = rsv[o][v]

Invisible ==
    \A v \in Units : /\ CommittedStock(v)' = CommittedStock(v)
                     /\ \A o \in Orders : CommittedRow(o, v)' = CommittedRow(o, v)

\* A step leaves x, its locks, what lies behind them and the rows of its order alone.
AtWork(x) == txn[x].op = "reserve" \/ txn[x].at = "units"
Undisturbed(x) ==
    /\ txn'[x] = txn[x]
    /\ \A u \in Units :
          /\ lock'[u] = x <=> lock[u] = x
          /\ lock[u] = x => stock'[u] = stock[u] /\ undo'[x][u] = undo[x][u]
          /\ AtWork(x) => rsv'[txn[x].order][u] = rsv[txn[x].order][u]

\* Two transactions at work are at work on different orders.
LEMMA Separate ==
    ASSUME Books, NEW t \in Txns, NEW x \in Txns \ {t}, AtWork(t), AtWork(x)
    PROVE  txn[t].order # txn[x].order
  <1>1. /\ Stage(t) /\ Stage(x) /\ OwnOrder(t) /\ OwnOrder(x)
    BY DEF Books
  <1>2. CASE txn[t].op = "reserve" \/ txn[x].op = "reserve"
    BY <1>1, <1>2 DEF OwnOrder
  <1>3. CASE txn[t].op # "reserve" /\ txn[x].op # "reserve"
    BY <1>1, <1>3 DEF AtWork, Stage, Idle
  <1> QED
    BY <1>2, <1>3

LEMMA KeptIsInvisible ==
    ASSUME IInv, NEW t \in Txns, SeenIsKept(t) PROVE Invisible
  <1> SUFFICES ASSUME NEW v \in Units
               PROVE  /\ CommittedStock(v)' = CommittedStock(v)
                      /\ \A o \in Orders : CommittedRow(o, v)' = CommittedRow(o, v)
    BY DEF Invisible
  <1>0. t # None /\ lock[v] \in Txns \cup {None}
    BY ConstantsAssumption DEF IInv, TypeOK
  <1>1. CASE lock'[v] = lock[v] /\ lock[v] = None
    BY <1>0, <1>1 DEF SeenIsKept, CommittedStock, CommittedRow
  <1>2. CASE lock'[v] = lock[v] /\ lock[v] # None
    <2>1. undo'[lock[v]][v] = undo[lock[v]][v] /\ txn'[lock[v]].order = txn[lock[v]].order
      BY <1>0, <1>2 DEF SeenIsKept
    <2>2. \A o \in Orders : o # txn[lock[v]].order => rsv'[o][v] = rsv[o][v]
      BY <1>0, <1>2 DEF SeenIsKept
    <2> QED
      BY <1>2, <2>1, <2>2 DEF CommittedStock, CommittedRow
  <1>3. CASE lock'[v] # lock[v]
    <2>1. /\ lock[v] = None /\ lock'[v] = t /\ txn'[t].order = txn[t].order
          /\ undo'[t][v] = [stock |-> stock[v], row |-> rsv[txn[t].order][v]]
      BY <1>0, <1>3 DEF SeenIsKept
    <2>2. \A o \in Orders : o # txn[t].order => rsv'[o][v] = rsv[o][v]
      BY DEF SeenIsKept
    <2> QED
      BY <1>0, <2>1, <2>2 DEF CommittedStock, CommittedRow
  <1> QED
    BY <1>1, <1>2, <1>3

LEMMA LockKeepsSeen ==
    ASSUME IInv, NEW t \in Txns, NEW u, LockAndKeepImage(t, u)
    PROVE  /\ \A v \in Units :
                 \/ lock'[v] = lock[v] /\ (lock[v] # None => undo'[lock[v]][v] = undo[lock[v]][v])
                 \/ /\ lock[v] = None /\ lock'[v] = t
                    /\ undo'[t][v] = [stock |-> stock[v], row |-> rsv[txn[t].order][v]]
           /\ \A v \in Units : lock'[v] \in {lock[v], t}
           /\ u \in Units /\ u \in present /\ lock'[u] = t
  <1>1. u \in Units /\ u \in present /\ lock'[u] = t
    BY DEF LockAndKeepImage, Obtainable, IInv, TypeOK
  <1>2. ASSUME NEW v \in Units
        PROVE  \/ lock'[v] = lock[v] /\ (lock[v] # None => undo'[lock[v]][v] = undo[lock[v]][v])
               \/ /\ lock[v] = None /\ lock'[v] = t
                  /\ undo'[t][v] = [stock |-> stock[v], row |-> rsv[txn[t].order][v]]
    <2>1. CASE v = u /\ lock[u] # t
      <3>1. lock[u] = None /\ undo' = [undo EXCEPT ![t][u] =
                       [stock |-> stock[u], row |-> rsv[txn[t].order][u]]]
        BY <2>1 DEF LockAndKeepImage, Obtainable
      <3> QED
        BY <1>1, <2>1, <3>1 DEF IInv, TypeOK
    <2>2. CASE lock[u] = t
      BY <2>2 DEF LockAndKeepImage, IInv, TypeOK
    <2>3. CASE v # u /\ lock[u] # t
      <3>1. undo' = [undo EXCEPT ![t][u] = [stock |-> stock[u], row |-> rsv[txn[t].order][u]]]
        BY <2>3 DEF LockAndKeepImage
      <3> QED
        BY <1>1, <2>3, <3>1 DEF LockAndKeepImage, IInv, TypeOK
    <2> QED
      BY <2>1, <2>2, <2>3
  <1>3. \A v \in Units : lock'[v] \in {lock[v], t}
    BY DEF LockAndKeepImage, IInv, TypeOK
  <1> QED
    BY <1>1, <1>2, <1>3

\* A transaction goes on working on its order.
LEMMA AdvanceBooks ==
    ASSUME IInv, IInv', Books, NEW t \in Txns, SeenIsKept(t), txn[t] # Idle,
           txn'[t].op = txn[t].op, txn'[t].order = txn[t].order,
           txn'[t].at \notin {"none", "rows"}, Stage(t)',
           \A x \in Txns \ {t} : txn'[x] = txn[x],
           \A v \in Units : lock'[v] \in {lock[v], t},
           UNCHANGED << present, claimed, stockLock >>,
           \A o \in Orders : rowLock[o] # None => rowLock'[o] = rowLock[o],
           txn[t].at = "rows" => UNCHANGED rsv,
           \A u \in Units : AddUp(stock'[u], Actives(u)', Solds(u)')
    PROVE  Books' /\ Invisible /\ \A x \in Txns \ {t} : Undisturbed(x)
  <1>0. t # None /\ claimed \subseteq Orders /\ txn'[t] # Idle /\ txn[t].order \in claimed
    BY ConstantsAssumption DEF IInv, TypeOK, Idle, Books, OwnOrder
  <1>1. \A v \in Units : /\ CommittedStock(v)' = CommittedStock(v)
                         /\ \A o \in Orders : CommittedRow(o, v)' = CommittedRow(o, v)
    BY KeptIsInvisible DEF Invisible
  <1>2. ASSUME NEW x \in Txns PROVE Stage(x)' /\ OwnOrder(x)'
    <2>1. Stage(x)'
      <3>1. CASE x = t
        BY <3>1
      <3>2. CASE x # t
        <4>1. txn[x] # Idle => txn[x].order \in Orders
          BY <1>0 DEF Books, OwnOrder
        <4>2. x # None
          BY ConstantsAssumption
        <4>3. txn[x].at = "units" => txn[x] # Idle
          BY DEF Idle
        <4>4. txn[x].at = "units" /\ rowLock[txn[x].order] = x => rowLock'[txn[x].order] = x
          BY <4>1, <4>2, <4>3
        <4>5. Stage(x) /\ txn'[x] = txn[x] /\ stockLock' = stockLock
          BY <3>2 DEF Books
        <4> QED
          BY <4>4, <4>5 DEF Stage
      <3> QED
        BY <3>1, <3>2
    <2>2. OwnOrder(x) /\ txn'[x].op = txn[x].op /\ txn'[x].order = txn[x].order
          /\ \A y \in Txns : txn'[y].order = txn[y].order
      BY DEF Books
    <2>3. txn'[x] # Idle => txn[x] # Idle
      BY <1>0
    <2>4. txn'[x].op = "reserve" => txn'[x] # Idle
      BY DEF Idle
    <2>5. PICK o : o = txn[x].order
      OBVIOUS
    <2>6. txn[x].op = "reserve" => \A u \in Units : CommittedRow(o, u)' = NoRow
      BY <1>0, <1>1, <2>2, <2>3, <2>4, <2>5 DEF OwnOrder
    <2>7. OwnOrder(x)'
      BY <2>2, <2>3, <2>5, <2>6 DEF OwnOrder
    <2> QED
      BY <2>1, <2>7
  <1>3. LocksAreUsed'
    <2>1. \A u \in Units : lock'[u] # None => txn'[lock'[u]].at \notin {"none", "rows"}
      BY SMTT(30), <1>0 DEF Books, LocksAreUsed, IInv, TypeOK
    <2>2. \A u \in Units \ present : lock'[u] # t
      BY <1>0 DEF IInv, ImagesBalance
    <2> QED
      BY <2>1, <2>2 DEF Books, LocksAreUsed, SeenIsKept
  <1>4. UnclaimedHoldsNothing'
    BY <1>0 DEF Books, UnclaimedHoldsNothing, SeenIsKept
  <1>5. Matches'
    <2>1. \A u \in Units : SeenActives(u)' = SeenActives(u) /\ SeenSolds(u)' = SeenSolds(u)
      BY <1>1 DEF SeenActives, SeenSolds
    <2> QED
      BY <1>1, <2>1 DEF Books, Matches
  <1>6. ASSUME NEW x \in Txns \ {t} PROVE Undisturbed(x)
    <2>1. x # None
      BY ConstantsAssumption
    <2>2. ASSUME NEW u \in Units
          PROVE  /\ lock'[u] = x <=> lock[u] = x
                 /\ lock[u] = x => stock'[u] = stock[u] /\ undo'[x][u] = undo[x][u]
      <3>1. lock'[u] = x => lock[u] = x
        OBVIOUS
      <3>2. \/ lock'[u] = lock[u] /\ (lock[u] # None => undo'[lock[u]][u] = undo[lock[u]][u])
            \/ lock[u] = None
        BY DEF SeenIsKept
      <3>3. lock'[u] # t => stock'[u] = stock[u]
        BY DEF SeenIsKept
      <3> QED
        BY <2>1, <3>1, <3>2, <3>3
    <2>3. ASSUME AtWork(x), NEW u \in Units
          PROVE  rsv'[txn[x].order][u] = rsv[txn[x].order][u]
      <3>1. CASE txn[t].at = "rows"
        BY <3>1
      <3>2. CASE txn[t].at # "rows"
        <4>1. AtWork(t)
          BY <3>2 DEF Books, Stage, AtWork
        <4>2. txn[x].order # txn[t].order
          BY <2>3, <4>1, Separate
        <4>3. txn[x].order \in Orders
          BY <1>0, <2>3 DEF Books, OwnOrder, AtWork, Idle
        <4> QED
          BY <4>2, <4>3 DEF SeenIsKept
      <3> QED
        BY <3>1, <3>2
    <2> QED
      BY <2>2, <2>3 DEF Undisturbed
  <1> QED
    BY <1>1, <1>2, <1>3, <1>4, <1>5, <1>6 DEF Books, Invisible

\* Steps that write no row: locking, resolving, selecting.
LEMMA SameRowsAddUp ==
    ASSUME Books, UNCHANGED << stock, rsv >>, NEW u \in Units
    PROVE  AddUp(stock'[u], Actives(u)', Solds(u)')
  BY DEF Books, Matches, Actives, Solds

LEMMA LockingBooks ==
    ASSUME IInv, IInv', Books, NEW t \in Txns,
           UnstockedLine(t) \/ LockGating(t) \/ ResolveCascade(t) \/ LockCascade(t) \/ LockRows(t)
    PROVE  Books' /\ Invisible /\ \A x \in Txns \ {t} : Undisturbed(x)
  <1>0. /\ txn[t] \in Txn /\ txn \in [Txns -> Txn] /\ t # None
        /\ Stage(t) /\ UNCHANGED << stock, rsv, present, claimed, stockLock >>
    BY ConstantsAssumption
       DEF IInv, TypeOK, Books, UnstockedLine, LockGating, ResolveCascade, LockCascade, LockRows
  <1>1. /\ \A u \in Units : AddUp(stock'[u], Actives(u)', Solds(u)')
        /\ \A v \in Units : /\ stock'[v] = stock[v]
                            /\ \A o \in Orders : rsv'[o][v] = rsv[o][v]
    BY <1>0, SameRowsAddUp
  <1>2. ASSUME UNCHANGED << lock, undo, rowLock >>, txn[t] # Idle,
               NEW r \in Txn, txn' = [txn EXCEPT ![t] = r], r.op = txn[t].op,
               r.order = txn[t].order, r.at \in {"gate", "cascade", "lock", "commit", "abort"},
               txn[t].op = "reserve"
        PROVE  Books' /\ Invisible /\ \A x \in Txns \ {t} : Undisturbed(x)
    <2>1. txn'[t] = r /\ \A x \in Txns \ {t} : txn'[x] = txn[x]
      BY <1>0, <1>2
    <2>2. SeenIsKept(t)
      <3>1. \A v \in Units : lock'[v] # None => txn'[lock'[v]].order = txn[lock'[v]].order
        BY <1>2, <2>1 DEF IInv, TypeOK
      <3> QED
        BY <1>1, <1>2, <3>1 DEF SeenIsKept
    <2>3. Stage(t)'
      BY <1>0, <1>2, <2>1 DEF Stage, Idle
    <2> QED
      BY <1>0, <1>1, <1>2, <2>1, <2>2, <2>3, AdvanceBooks
  <1>3. CASE UnstockedLine(t)
    <2>1. PICK r \in Txn : /\ txn' = [txn EXCEPT ![t] = r] /\ r.op = txn[t].op
                           /\ r.order = txn[t].order /\ r.at \in {"gate", "commit", "abort"}
      <3>1. txn'[t] = (IF Authoritative THEN [txn[t] EXCEPT !.at = "abort"] ELSE NextLine(t))
            /\ txn' = [txn EXCEPT ![t] = txn'[t]]
        BY <1>0, <1>3 DEF UnstockedLine
      <3>2. txn'[t] \in Txn
        BY DEF IInv, TypeOK
      <3>3. /\ txn'[t].op = txn[t].op /\ txn'[t].order = txn[t].order
            /\ txn'[t].at \in {"gate", "commit", "abort"}
        BY <1>0, <3>1 DEF NextLine, Txn
      <3> QED
        BY <3>1, <3>2, <3>3
    <2>2. txn[t].at = "gate" /\ UNCHANGED << lock, undo, rowLock >>
      BY <1>3 DEF UnstockedLine
    <2>3. txn[t] # Idle /\ txn[t].op = "reserve"
      BY <1>0, <2>2 DEF Stage, Idle
    <2> QED
      BY <1>2, <2>1, <2>2, <2>3
  <1>4. CASE ResolveCascade(t)
    <2>1. /\ txn[t].at = "cascade" /\ UNCHANGED << lock, undo, rowLock >>
          /\ txn' = [txn EXCEPT ![t] = txn'[t]] /\ txn'[t].op = txn[t].op
          /\ txn'[t].order = txn[t].order /\ txn'[t].at = "lock" /\ txn'[t] \in Txn
      BY <1>0, <1>4 DEF ResolveCascade, Txn, IInv, TypeOK
    <2>2. txn[t] # Idle /\ txn[t].op = "reserve"
      BY <1>0, <2>1 DEF Stage, Idle
    <2> QED
      BY <1>2, <2>1, <2>2
  <1>5. CASE LockGating(t) \/ LockCascade(t)
    <2>1. \E u : LockAndKeepImage(t, u)
      BY <1>5 DEF LockGating, LockCascade
    <2>2. /\ \A x \in Txns \ {t} : txn'[x] = txn[x]
          /\ txn'[t].op = txn[t].op /\ txn'[t].order = txn[t].order
          /\ txn'[t].at \in {"cascade", "abort", "lock"} /\ txn[t].at \in {"gate", "lock"}
          /\ UNCHANGED rowLock
      BY <1>0, <1>5 DEF LockGating, LockCascade, GoTo, Txn
    <2>3. txn[t] # Idle /\ txn[t].op = "reserve"
      BY <1>0, <2>2 DEF Stage, Idle
    <2>4. SeenIsKept(t) /\ \A v \in Units : lock'[v] \in {lock[v], t}
      <3>1. \A x \in Txns : txn'[x].order = txn[x].order
        BY <2>2
      <3>2. \A v \in Units : lock'[v] # None => lock'[v] \in Txns
        BY DEF IInv, TypeOK
      <3> QED
        BY <1>1, <2>1, <3>1, <3>2, LockKeepsSeen DEF SeenIsKept
    <2>5. Stage(t)'
      BY <1>0, <2>2, <2>3 DEF Stage, Idle
    <2> QED
      BY <1>0, <1>1, <2>2, <2>3, <2>4, <2>5, AdvanceBooks
  <1>6. CASE LockRows(t)
    <2>1. /\ txn[t].at = "rows" /\ rowLock[txn[t].order] = None /\ UNCHANGED << lock, undo >>
          /\ rowLock' = [rowLock EXCEPT ![txn[t].order] = t]
          /\ \A x \in Txns \ {t} : txn'[x] = txn[x]
          /\ txn'[t].op = txn[t].op /\ txn'[t].order = txn[t].order /\ txn'[t].at = "units"
      BY <1>0, <1>6 DEF LockRows, Txn
    <2>2. txn[t] # Idle /\ txn[t].op \in {"release", "commit", "restock"}
          /\ txn[t].order \in Orders
      BY <1>0, <2>1 DEF Stage, Idle, Books, OwnOrder, IInv, TypeOK
    <2>3. rowLock'[txn[t].order] = t
          /\ \A o \in Orders : rowLock[o] # None => rowLock'[o] = rowLock[o]
      BY <2>1, <2>2 DEF IInv, TypeOK
    <2>4. SeenIsKept(t)
      <3>1. \A v \in Units : lock'[v] # None => txn'[lock'[v]].order = txn[lock'[v]].order
        BY <2>1 DEF IInv, TypeOK
      <3> QED
        BY <1>1, <2>1, <3>1 DEF SeenIsKept
    <2>5. Stage(t)'
      BY <2>1, <2>2, <2>3 DEF Stage
    <2> QED
      BY <1>0, <1>1, <2>1, <2>2, <2>3, <2>4, <2>5, AdvanceBooks
  <1> QED
    BY <1>3, <1>4, <1>5, <1>6

LEMMA TakeBooks ==
    ASSUME IInv, IInv', Books, NEW t \in Txns, TakeCascade(t)
    PROVE  Books' /\ Invisible /\ \A x \in Txns \ {t} : Undisturbed(x)
  <1>1. PICK o, qty : o = txn[t].order /\ qty = LineOf(t).qty
    OBVIOUS
  <1>2. /\ txn[t] \in Txn /\ txn \in [Txns -> Txn] /\ t # None /\ Stage(t) /\ txn[t].at = "lock"
        /\ o \in Orders /\ rsv \in [Orders -> [Units -> Row]]
        /\ \A u \in txn[t].todo : u \in Units => lock[u] = t
    BY <1>1, ConstantsAssumption
       DEF IInv, TypeOK, Books, TakeCascade, Unowned, PointsAtLine
  <1>3. txn[t] # Idle /\ txn[t].op = "reserve"
    BY <1>2 DEF Stage, Idle
  <1>4. /\ stock' = [u \in Units |->
                    IF u \in txn[t].todo
                    THEN [avail |-> stock[u].avail - Taken(o, u, qty),
                          reserved |-> stock[u].reserved + Taken(o, u, qty),
                          sold |-> stock[u].sold]
                    ELSE stock[u]]
        /\ rsv' = [rsv EXCEPT ![o] = [u \in Units |->
                    IF u \in txn[t].todo /\ Taken(o, u, qty) > 0
                    THEN [active |-> Taken(o, u, qty), committed |-> rsv[o][u].committed,
                          lapse |-> txn[t].lapse]
                    ELSE rsv[o][u]]]
        /\ txn' = [txn EXCEPT ![t] = NextLine(t)]
        /\ UNCHANGED << present, claimed, lock, rowLock, stockLock, undo >>
    BY <1>1 DEF TakeCascade
  <1>5. /\ \A x \in Txns \ {t} : txn'[x] = txn[x]
        /\ txn'[t].op = txn[t].op /\ txn'[t].order = txn[t].order
        /\ txn'[t].at \in {"gate", "commit"}
    BY <1>2, <1>4 DEF NextLine, Txn
  <1>6. SeenIsKept(t)
    <2>1. \A v \in Units : lock'[v] # None => txn'[lock'[v]].order = txn[lock'[v]].order
      BY <1>5 DEF IInv, TypeOK
    <2>2. \A v \in Units : \A p \in Orders \ {o} : rsv'[p][v] = rsv[p][v]
      BY <1>2, <1>4
    <2>3. ASSUME NEW v \in Units, lock'[v] # t
          PROVE  stock'[v] = stock[v] /\ \A p \in Orders : rsv'[p][v] = rsv[p][v]
      <3>1. v \notin txn[t].todo
        BY <1>2, <1>4, <2>3
      <3> QED
        BY <1>2, <1>4, <3>1
    <2> QED
      BY <1>1, <1>4, <2>1, <2>2, <2>3 DEF SeenIsKept
  <1>7. Stage(t)'
    BY <1>2, <1>3, <1>4, <1>5 DEF Stage, Idle
  <1>8. ASSUME NEW u \in Units PROVE AddUp(stock'[u], Actives(u)', Solds(u)')
    <2>1. CASE u \in txn[t].todo
      <3>1. /\ stock'[u].reserved = stock[u].reserved + Taken(o, u, qty)
            /\ stock'[u].sold = stock[u].sold
        BY <1>4, <2>1
      <3>2. /\ rsv[o][u].active \in Nat /\ rsv[o][u].committed \in Nat
            /\ stock[u].reserved \in Nat /\ stock[u].sold \in Nat
            /\ stock[u].avail \in Nat /\ stock'[u].avail \in Nat
        BY <1>2, SeenTypes DEF Stock, Row, IInv, TypeOK
      <3>3. Taken(o, u, qty) = stock[u].avail - stock'[u].avail \/ Taken(o, u, qty) = 0
            \/ stock'[u].avail = stock[u].avail - Taken(o, u, qty)
        BY <1>4, <2>1
      <3>4. Taken(o, u, qty) \in Nat
        <4>1. stock'[u].reserved \in Nat
          BY DEF IInv, TypeOK, Stock
        <4>2. LineOf(t).qty \in Nat
          <5>1. Basket[o] \in Seq(Line) /\ txn[t].line \in DOMAIN Basket[o]
            BY <1>1, <1>2, ConstantsAssumption DEF IInv, PointsAtLine
          <5>2. LineOf(t) \in Line
            BY <1>1, <5>1 DEF LineOf
          <5> QED
            BY <5>2 DEF Line
        <4> QED
          BY <1>1, <3>2, <4>2, MinOfNat DEF Taken
      <3>5. rsv'[o][u].active = rsv[o][u].active + Taken(o, u, qty)
            /\ rsv'[o][u].committed = rsv[o][u].committed
        <4>1. CASE Taken(o, u, qty) > 0
          <5>1. rsv[o][u].active = 0
            BY <3>2, <4>1 DEF Taken
          <5>2. rsv'[o][u].active = Taken(o, u, qty)
                /\ rsv'[o][u].committed = rsv[o][u].committed
            BY <1>2, <1>4, <2>1, <4>1
          <5> QED
            BY <3>4, <5>1, <5>2
        <4>2. CASE ~(Taken(o, u, qty) > 0)
          <5>1. Taken(o, u, qty) = 0
            BY <3>4, <4>2
          <5>2. rsv'[o][u] = rsv[o][u]
            BY <1>2, <1>4, <4>2
          <5> QED
            BY <3>2, <5>1, <5>2
        <4> QED
          BY <4>1, <4>2
      <3>6. rsv'[o][u] \in Row /\ \A p \in Orders \ {o} : rsv'[p][u] = rsv[p][u]
        BY <1>2, <1>4 DEF IInv, TypeOK
      <3>7. /\ stock'[u].reserved = stock[u].reserved + (rsv'[o][u].active - rsv[o][u].active)
            /\ stock'[u].sold = stock[u].sold + (rsv'[o][u].committed - rsv[o][u].committed)
        BY <3>1, <3>2, <3>4, <3>5
      <3> HIDE DEF Taken
      <3> QED
        BY <1>2, <3>6, <3>7, RowMoves DEF Books
    <2>2. CASE u \notin txn[t].todo
      <3>1. stock'[u] = stock[u] /\ \A p \in Orders : rsv'[p][u] = rsv[p][u]
        BY <1>2, <1>4, <2>2
      <3>2. Actives(u)' = Actives(u) /\ Solds(u)' = Solds(u)
        BY <3>1 DEF Actives, Solds
      <3> QED
        BY <3>1, <3>2 DEF Books, Matches
    <2> QED
      BY <2>1, <2>2
  <1> QED
    BY <1>2, <1>3, <1>4, <1>5, <1>6, <1>7, <1>8, AdvanceBooks

\* What an operation does to a row and its counters, when no clamp bites.
LEMMA ExactMoves ==
    ASSUME NEW s \in Stock, NEW r \in Row, r.active <= s.reserved, r.committed <= s.sold
    PROVE  /\ Released(s, r) = [avail |-> s.avail + r.active, reserved |-> s.reserved - r.active,
                                sold |-> s.sold]
           /\ SoldOff(s, r) = [avail |-> s.avail, reserved |-> s.reserved - r.active,
                               sold |-> s.sold + r.active]
           /\ Restocked(s, r) = [avail |-> s.avail + r.active + r.committed,
                                 reserved |-> s.reserved - r.active,
                                 sold |-> s.sold - r.committed]
  <1>1. MinOf(r.active, s.reserved) = r.active /\ MinOf(r.committed, s.sold) = r.committed
    BY DEF MinOf
  <1> QED
    BY <1>1 DEF Released, SoldOff, Restocked

LEMMA MoveBooks ==
    ASSUME IInv, IInv', Books, NEW t \in Txns,
           ReleaseUnit(t) \/ CommitUnit(t) \/ RestockUnit(t)
    PROVE  Books' /\ Invisible /\ \A x \in Txns \ {t} : Undisturbed(x)
  <1>1. PICK o, u : o = txn[t].order /\ u = Lowest(txn[t].todo)
    OBVIOUS
  <1>2. /\ txn[t].at = "units" /\ LockAndKeepImage(t, u)
        /\ txn' = [txn EXCEPT ![t].todo = @ \ {u}]
        /\ UNCHANGED << present, claimed, rowLock, stockLock >>
    BY <1>1 DEF ReleaseUnit, CommitUnit, RestockUnit, MoveUnit
  <1>3. /\ txn[t] \in Txn /\ txn \in [Txns -> Txn] /\ t # None /\ Stage(t) /\ o \in Orders
        /\ txn[t] # Idle
    BY <1>1, <1>2, ConstantsAssumption DEF IInv, TypeOK, Books, PointsAtLine, Idle
  <1>4. /\ u \in Units /\ lock'[u] = t /\ \A v \in Units : lock'[v] \in {lock[v], t}
        /\ stock[u] \in Stock /\ rsv[o][u] \in Row
        /\ rsv[o][u].active <= stock[u].reserved /\ rsv[o][u].committed <= stock[u].sold
    BY <1>2, <1>3, LockKeepsSeen, SeenTypes, RowFits DEF Books
  <1>5. PICK s, r :
          /\ stock' = [stock EXCEPT ![u] = s] /\ rsv' = [rsv EXCEPT ![o][u] = r]
          /\ s.reserved = stock[u].reserved + (r.active - rsv[o][u].active)
          /\ s.sold = stock[u].sold + (r.committed - rsv[o][u].committed)
    <2>1. /\ stock[u].reserved \in Nat /\ stock[u].sold \in Nat
          /\ rsv[o][u].active \in Nat /\ rsv[o][u].committed \in Nat
      BY <1>4 DEF Stock, Row
    <2>2. CASE ReleaseUnit(t)
      <3>1. /\ stock' = [stock EXCEPT ![u] = Released(stock[u], rsv[o][u])]
            /\ rsv' = [rsv EXCEPT ![o][u] = ReleasedRow(rsv[o][u])]
        BY <1>1, <2>2 DEF ReleaseUnit, MoveUnit
      <3>2. PICK s, r : s = Released(stock[u], rsv[o][u]) /\ r = ReleasedRow(rsv[o][u])
        OBVIOUS
      <3>3. s.reserved = stock[u].reserved - rsv[o][u].active /\ s.sold = stock[u].sold
        BY <1>4, <3>2, ExactMoves
      <3>4. r.active = 0 /\ r.committed = rsv[o][u].committed
        BY <3>2 DEF ReleasedRow
      <3>5. /\ s.reserved = stock[u].reserved + (r.active - rsv[o][u].active)
            /\ s.sold = stock[u].sold + (r.committed - rsv[o][u].committed)
        BY <2>1, <3>3, <3>4
      <3> QED
        BY <3>1, <3>2, <3>5
    <2>3. CASE CommitUnit(t)
      <3>1. /\ stock' = [stock EXCEPT ![u] = SoldOff(stock[u], rsv[o][u])]
            /\ rsv' = [rsv EXCEPT ![o][u] = CommittedOf(rsv[o][u])]
        BY <1>1, <2>3 DEF CommitUnit, MoveUnit
      <3>2. PICK s, r : s = SoldOff(stock[u], rsv[o][u]) /\ r = CommittedOf(rsv[o][u])
        OBVIOUS
      <3>3. s.reserved = stock[u].reserved - rsv[o][u].active /\ s.sold = stock[u].sold + rsv[o][u].active
        BY <1>4, <3>2, ExactMoves
      <3>4. r.active = 0 /\ r.committed = rsv[o][u].committed + rsv[o][u].active
        BY <3>2 DEF CommittedOf
      <3>5. /\ s.reserved = stock[u].reserved + (r.active - rsv[o][u].active)
            /\ s.sold = stock[u].sold + (r.committed - rsv[o][u].committed)
        BY <2>1, <3>3, <3>4
      <3> QED
        BY <3>1, <3>2, <3>5
    <2>4. CASE RestockUnit(t)
      <3>1. /\ stock' = [stock EXCEPT ![u] = Restocked(stock[u], rsv[o][u])]
            /\ rsv' = [rsv EXCEPT ![o][u] = RestockedRow(rsv[o][u])]
        BY <1>1, <2>4 DEF RestockUnit, MoveUnit
      <3>2. PICK s, r : s = Restocked(stock[u], rsv[o][u]) /\ r = RestockedRow(rsv[o][u])
        OBVIOUS
      <3>3. s.reserved = stock[u].reserved - rsv[o][u].active /\ s.sold = stock[u].sold - rsv[o][u].committed
        BY <1>4, <3>2, ExactMoves
      <3>4. r.active = 0 /\ r.committed = 0
        BY <3>2 DEF RestockedRow, NoRow
      <3>5. /\ s.reserved = stock[u].reserved + (r.active - rsv[o][u].active)
            /\ s.sold = stock[u].sold + (r.committed - rsv[o][u].committed)
        BY <2>1, <3>3, <3>4
      <3> QED
        BY <3>1, <3>2, <3>5
    <2> QED
      BY <2>2, <2>3, <2>4
  <1>6. /\ stock'[u] = s /\ rsv'[o][u] = r
        /\ \A v \in Units \ {u} : stock'[v] = stock[v]
        /\ \A v \in Units : \A p \in Orders : p # o \/ v # u => rsv'[p][v] = rsv[p][v]
    BY <1>3, <1>4, <1>5 DEF IInv, TypeOK
  <1>7. /\ \A x \in Txns \ {t} : txn'[x] = txn[x]
        /\ txn'[t].op = txn[t].op /\ txn'[t].order = txn[t].order /\ txn'[t].at = "units"
    BY <1>2, <1>3 DEF Txn
  <1>8. SeenIsKept(t)
    <2>1. \A x \in Txns : txn'[x].order = txn[x].order
      BY <1>7
    <2>2. \A v \in Units : lock'[v] # None => lock'[v] \in Txns
      BY DEF IInv, TypeOK
    <2>3. \A v \in Units : lock'[v] # t => v # u
      BY <1>4
    <2> QED
      BY <1>1, <1>2, <1>6, <2>1, <2>2, <2>3, LockKeepsSeen DEF SeenIsKept
  <1>9. Stage(t)'
    BY <1>2, <1>3, <1>7 DEF Stage, Idle
  <1>10. ASSUME NEW v \in Units PROVE AddUp(stock'[v], Actives(v)', Solds(v)')
    <2>1. CASE v = u
      <3>1. rsv'[o][u] \in Row
        BY <1>3, <1>4 DEF IInv, TypeOK
      <3> QED
        BY <1>3, <1>4, <1>5, <1>6, <2>1, <3>1, RowMoves DEF Books
    <2>2. CASE v # u
      <3>1. Actives(v)' = Actives(v) /\ Solds(v)' = Solds(v)
        BY <1>6, <2>2 DEF Actives, Solds
      <3> QED
        BY <1>6, <2>2, <3>1 DEF Books, Matches
    <2> QED
      BY <2>1, <2>2
  <1> QED
    BY <1>2, <1>3, <1>4, <1>7, <1>8, <1>9, <1>10, AdvanceBooks

\* Ending a transaction: the other ones keep their locks and orders.
LEMMA EndBooks ==
    ASSUME IInv, IInv', Books, NEW t \in Txns, EndTxn(t), UNCHANGED present,
           claimed' \in {claimed, claimed \ {txn[t].order}},
           claimed' # claimed => txn[t].op = "reserve",
           \A u \in Units : lock[u] # t =>
              stock'[u] = stock[u] /\ \A o \in Orders : rsv'[o][u] = rsv[o][u],
           \A u \in Units : lock[u] = t =>
              \A o \in Orders : o # txn[t].order => rsv'[o][u] = rsv[o][u]
    PROVE  /\ \A x \in Txns : Stage(x)' /\ OwnOrder(x)'
           /\ LocksAreUsed'
           /\ \A u \in Units : lock[u] # t =>
                /\ CommittedStock(u)' = CommittedStock(u)
                /\ \A o \in Orders : CommittedRow(o, u)' = CommittedRow(o, u)
           /\ \A u \in Units : lock[u] = t =>
                /\ CommittedStock(u)' = stock'[u]
                /\ \A o \in Orders : CommittedRow(o, u)' = rsv'[o][u]
           /\ \A x \in Txns \ {t} : Undisturbed(x)
  <1>0. /\ t # None /\ txn \in [Txns -> Txn] /\ txn'[t] = Idle
        /\ \A x \in Txns \ {t} : txn'[x] = txn[x] /\ undo'[x] = undo[x]
        /\ \A u \in Units : lock'[u] = (IF lock[u] = t THEN None ELSE lock[u])
        /\ \A u \in Units : lock[u] \in Txns \cup {None}
        /\ claimed \subseteq Orders
    BY ConstantsAssumption DEF EndTxn, IInv, TypeOK
  <1>1. ASSUME NEW u \in Units, lock[u] # t
        PROVE  /\ CommittedStock(u)' = CommittedStock(u)
               /\ \A o \in Orders : CommittedRow(o, u)' = CommittedRow(o, u)
    <2>1. CASE lock[u] = None
      BY <1>0, <1>1, <2>1 DEF CommittedStock, CommittedRow
    <2>2. CASE lock[u] # None
      <3>1. lock'[u] = lock[u] /\ undo'[lock[u]] = undo[lock[u]] /\ txn'[lock[u]] = txn[lock[u]]
        BY <1>0, <1>1, <2>2
      <3> QED
        BY <1>1, <2>2, <3>1 DEF CommittedStock, CommittedRow
    <2> QED
      BY <2>1, <2>2
  <1>2. ASSUME NEW u \in Units, lock[u] = t
        PROVE  /\ CommittedStock(u)' = stock'[u]
               /\ \A o \in Orders : CommittedRow(o, u)' = rsv'[o][u]
    BY <1>0, <1>2 DEF CommittedStock, CommittedRow
  <1>3. LocksAreUsed'
    <2>1. \A u \in Units \ present : lock[u] # t
      BY <1>0 DEF IInv, ImagesBalance
    <2> QED
      BY <1>0, <2>1 DEF Books, LocksAreUsed
  <1>4. ASSUME NEW x \in Txns PROVE Stage(x)' /\ OwnOrder(x)'
    <2>1. CASE x = t
      BY <1>0, <2>1 DEF Stage, OwnOrder, Idle
    <2>2. CASE x # t
      <3>1. Stage(x) /\ OwnOrder(x) /\ txn'[x] = txn[x] /\ x # None
        BY <1>0, <2>2, ConstantsAssumption DEF Books
      <3>2. /\ stockLock = x => stockLock' = x
            /\ \A o \in Orders : rowLock[o] = x => rowLock'[o] = x
        BY <2>2 DEF EndTxn
      <3>3. txn[x] # Idle => txn[x].order \in Orders
        BY <1>0, <3>1 DEF OwnOrder
      <3>4. Stage(x)'
        BY <3>1, <3>2, <3>3 DEF Stage, Idle
      <3>5. txn[x] # Idle => txn[x].order \in claimed'
        <4>1. CASE claimed' = claimed
          BY <3>1, <4>1 DEF OwnOrder
        <4>2. CASE claimed' = claimed \ {txn[t].order} /\ txn[t].op = "reserve"
          <5>1. txn[x].order # txn[t].order
            BY <2>2, <4>2 DEF Books, OwnOrder
          <5> QED
            BY <3>1, <4>2, <5>1 DEF OwnOrder
        <4> QED
          BY <4>1, <4>2
      <3>6. ASSUME txn[x].op = "reserve"
            PROVE  /\ \A y \in Txns \ {x} : txn'[y].order # txn'[x].order
                   /\ \A u \in Units : CommittedRow(txn[x].order, u)' = NoRow
        <4>1. txn[x] # Idle /\ txn[x].order \in Orders /\ txn[x].order # None
          BY <3>3, <3>6, ConstantsAssumption DEF Idle
        <4>2. \A y \in Txns \ {x} : txn[y].order # txn[x].order
          BY <3>1, <3>6 DEF OwnOrder
        <4>3. \A y \in Txns \ {x} : txn'[y].order # txn'[x].order
          BY <1>0, <3>1, <4>1, <4>2 DEF Idle
        <4>4. PICK o : o = txn[x].order
          OBVIOUS
        <4>5. \A u \in Units : CommittedRow(o, u) = NoRow
          BY <3>1, <3>6, <4>4 DEF OwnOrder
        <4>6. ASSUME NEW u \in Units PROVE CommittedRow(o, u)' = NoRow
          <5>1. CASE lock[u] # t
            BY <1>1, <4>1, <4>4, <4>5, <5>1
          <5>2. CASE lock[u] = t
            <6>1. o # txn[t].order
              BY <2>2, <4>2, <4>4
            <6>2. CommittedRow(o, u) = rsv[o][u]
              BY <1>0, <5>2, <6>1 DEF CommittedRow
            <6> QED
              BY <1>2, <4>1, <4>4, <4>5, <5>2, <6>1, <6>2
          <5> QED
            BY <5>1, <5>2
        <4> QED
          BY <3>1, <4>3, <4>4, <4>6
      <3>7. OwnOrder(x)'
        BY <3>1, <3>5, <3>6 DEF OwnOrder
      <3> QED
        BY <3>4, <3>7
    <2> QED
      BY <2>1, <2>2
  <1>5. ASSUME NEW x \in Txns \ {t} PROVE Undisturbed(x)
    <2>1. x # None
      BY ConstantsAssumption
    <2>2. ASSUME AtWork(x), NEW u \in Units
          PROVE  rsv'[txn[x].order][u] = rsv[txn[x].order][u]
      <3>1. txn[x].order \in Orders
        BY <1>0, <2>2 DEF Books, OwnOrder, AtWork, Idle
      <3>2. CASE lock[u] = t
        <4>1. AtWork(t)
          BY <1>0, <3>2 DEF Books, Stage, AtWork, LocksAreUsed, Idle
        <4> QED
          BY <2>2, <3>1, <3>2, <4>1, Separate
      <3> QED
        BY <3>1, <3>2
    <2> QED
      BY <1>0, <2>1, <2>2 DEF Undisturbed
  <1> QED
    BY <1>1, <1>2, <1>3, <1>4, <1>5

LEMMA CommitBooks ==
    ASSUME IInv, IInv', Books, NEW t \in Txns, CommitTxn(t)
    PROVE  /\ Books'
           /\ \A u \in Units : lock[u] # t =>
                /\ CommittedStock(u)' = CommittedStock(u)
                /\ \A o \in Orders : CommittedRow(o, u)' = CommittedRow(o, u)
           /\ \A u \in Units : lock[u] = t =>
                /\ CommittedStock(u)' = stock[u]
                /\ \A o \in Orders : CommittedRow(o, u)' = rsv[o][u]
           /\ \A x \in Txns \ {t} : Undisturbed(x)
  <1>1. EndTxn(t) /\ UNCHANGED << present, stock, rsv, claimed >>
    BY DEF CommitTxn
  <1>2. /\ \A x \in Txns : Stage(x)' /\ OwnOrder(x)'
        /\ LocksAreUsed'
        /\ \A u \in Units : lock[u] # t =>
             /\ CommittedStock(u)' = CommittedStock(u)
             /\ \A o \in Orders : CommittedRow(o, u)' = CommittedRow(o, u)
        /\ \A u \in Units : lock[u] = t =>
             /\ CommittedStock(u)' = stock'[u]
             /\ \A o \in Orders : CommittedRow(o, u)' = rsv'[o][u]
        /\ \A x \in Txns \ {t} : Undisturbed(x)
    BY <1>1, EndBooks
  <1>3. UnclaimedHoldsNothing'
    BY <1>1 DEF Books, UnclaimedHoldsNothing
  <1>4. ASSUME NEW u \in Units
        PROVE  /\ AddUp(stock'[u], Actives(u)', Solds(u)')
               /\ AddUp(CommittedStock(u)', SeenActives(u)', SeenSolds(u)')
    <2>1. AddUp(stock'[u], Actives(u)', Solds(u)')
      BY <1>1, SameRowsAddUp
    <2>2. CASE lock[u] # t
      <3>1. SeenActives(u)' = SeenActives(u) /\ SeenSolds(u)' = SeenSolds(u)
        BY <1>2, <2>2 DEF SeenActives, SeenSolds
      <3> QED
        BY <1>2, <2>1, <2>2, <3>1 DEF Books, Matches
    <2>3. CASE lock[u] = t
      <3>1. SeenActives(u)' = Actives(u)' /\ SeenSolds(u)' = Solds(u)'
        BY <1>2, <2>3 DEF SeenActives, SeenSolds, Actives, Solds
      <3> QED
        BY <1>2, <2>1, <2>3, <3>1
    <2> QED
      BY <2>2, <2>3
  <1> QED
    BY <1>1, <1>2, <1>3, <1>4 DEF Books, Matches

\* ROLLBACK makes what others see what there is.
LEMMA RollbackSeen ==
    ASSUME IInv, NEW t \in Txns, Rollback(t)
    PROVE  \A u \in Units :
              /\ lock[u] = t => /\ stock'[u] = CommittedStock(u)
                                /\ \A o \in Orders : rsv'[o][u] = CommittedRow(o, u)
              /\ lock[u] # t => /\ stock'[u] = stock[u]
                                /\ \A o \in Orders : rsv'[o][u] = rsv[o][u]
              /\ \A o \in Orders : o # txn[t].order => rsv'[o][u] = rsv[o][u]
  <1>1. t # None
    BY ConstantsAssumption
  <1> QED
    BY <1>1 DEF Rollback, CommittedStock, CommittedRow

LEMMA RollbackBooks ==
    ASSUME IInv, IInv', Books, NEW t \in Txns, Rollback(t)
    PROVE  Books' /\ Invisible /\ \A x \in Txns \ {t} : Undisturbed(x)
  <1>1. /\ EndTxn(t) /\ UNCHANGED present
        /\ claimed' = (IF txn[t].op = "reserve" /\ Authoritative THEN claimed \ {txn[t].order}
                       ELSE claimed)
    BY DEF Rollback
  <1>2. /\ \A x \in Txns : Stage(x)' /\ OwnOrder(x)'
        /\ LocksAreUsed'
        /\ \A u \in Units : lock[u] # t =>
             /\ CommittedStock(u)' = CommittedStock(u)
             /\ \A o \in Orders : CommittedRow(o, u)' = CommittedRow(o, u)
        /\ \A u \in Units : lock[u] = t =>
             /\ CommittedStock(u)' = stock'[u]
             /\ \A o \in Orders : CommittedRow(o, u)' = rsv'[o][u]
        /\ \A x \in Txns \ {t} : Undisturbed(x)
    BY <1>1, RollbackSeen, EndBooks
  <1>3. UnclaimedHoldsNothing'
    <2> SUFFICES ASSUME NEW o \in Orders \ claimed', NEW u \in Units PROVE rsv'[o][u] = NoRow
      BY DEF UnclaimedHoldsNothing
    <2>1. CASE o \notin claimed
      <3>1. rsv[o][u] = NoRow /\ (txn[t].op # "idle" => o # txn[t].order)
        BY <2>1 DEF Books, UnclaimedHoldsNothing, OwnOrder, Idle
      <3>2. txn[t].op = "idle" => lock[u] # t
        <4>1. txn[t].op = "idle" => txn[t].at = "none"
          BY DEF Books, Stage, Idle
        <4> QED
          BY <4>1, ConstantsAssumption DEF Books, LocksAreUsed
      <3> QED
        BY <3>1, <3>2, RollbackSeen
    <2>2. CASE o \in claimed
      <3>1. o = txn[t].order /\ txn[t].op = "reserve"
        BY <1>1, <2>2
      <3>2. CommittedRow(o, u) = NoRow /\ \A x \in Txns \ {t} : txn[x].order # o
        BY <3>1 DEF Books, OwnOrder
      <3>3. CASE lock[u] = t
        BY <3>2, <3>3, RollbackSeen
      <3>4. CASE lock[u] # t
        <4>1. rsv[o][u] = CommittedRow(o, u)
          BY <3>2, <3>4 DEF CommittedRow, IInv, TypeOK
        <4> QED
          BY <3>2, <3>4, <4>1, RollbackSeen
      <3> QED
        BY <3>3, <3>4
    <2> QED
      BY <2>1, <2>2
  <1>4. ASSUME NEW u \in Units
        PROVE  /\ AddUp(stock'[u], Actives(u)', Solds(u)')
               /\ AddUp(CommittedStock(u)', SeenActives(u)', SeenSolds(u)')
    <2>1. CASE lock[u] # t
      <3>1. /\ SeenActives(u)' = SeenActives(u) /\ SeenSolds(u)' = SeenSolds(u)
            /\ Actives(u)' = Actives(u) /\ Solds(u)' = Solds(u) /\ stock'[u] = stock[u]
        BY <1>2, <2>1, RollbackSeen DEF SeenActives, SeenSolds, Actives, Solds
      <3> QED
        BY <1>2, <2>1, <3>1 DEF Books, Matches
    <2>2. CASE lock[u] = t
      <3>1. /\ SeenActives(u)' = SeenActives(u) /\ SeenSolds(u)' = SeenSolds(u)
            /\ Actives(u)' = SeenActives(u) /\ Solds(u)' = SeenSolds(u)
            /\ stock'[u] = CommittedStock(u) /\ CommittedStock(u)' = stock'[u]
        BY <1>2, <2>2, RollbackSeen DEF SeenActives, SeenSolds, Actives, Solds
      <3> QED
        BY <3>1 DEF Books, Matches
    <2> QED
      BY <2>1, <2>2
  <1>5. Invisible
    BY <1>2, RollbackSeen DEF Invisible
  <1> QED
    BY <1>2, <1>3, <1>4, <1>5 DEF Books, Matches

LEMMA CrashBooks == ASSUME IInv, IInv', Books, Crash PROVE Books' /\ Invisible
  <1>1. /\ \A t \in Txns : txn'[t] = Idle
        /\ \A u \in Units : /\ lock'[u] = None /\ stock'[u] = CommittedStock(u)
                            /\ \A o \in Orders : rsv'[o][u] = CommittedRow(o, u)
        /\ UNCHANGED << present, claimed >>
    BY DEF Crash
  <1>2. \A u \in Units : /\ CommittedStock(u)' = CommittedStock(u)
                         /\ \A o \in Orders : CommittedRow(o, u)' = CommittedRow(o, u)
    BY <1>1 DEF CommittedStock, CommittedRow
  <1>3. ASSUME NEW t \in Txns PROVE Stage(t)' /\ OwnOrder(t)'
    <2>1. txn'[t] = Idle /\ Idle.op = "idle"
      <3>1. Idle.op = "idle"
        BY DEF Idle
      <3> QED
        BY <1>1, <3>1
    <2> QED
      BY <2>1 DEF Stage, OwnOrder
  <1>4. LocksAreUsed'
    <2>1. \A u \in Units \ present : CommittedStock(u) = stock[u]
      BY DEF CommittedStock, IInv, ImagesBalance
    <2> QED
      BY <1>1, <2>1 DEF LocksAreUsed, Books
  <1>5. UnclaimedHoldsNothing'
    <2> SUFFICES ASSUME NEW o \in Orders \ claimed, NEW u \in Units
                 PROVE  CommittedRow(o, u) = NoRow
      BY <1>1 DEF UnclaimedHoldsNothing
    <2>1. rsv[o][u] = NoRow
      BY DEF Books, UnclaimedHoldsNothing
    <2>2. lock[u] # None => txn[lock[u]].order # o
      BY DEF Books, LocksAreUsed, OwnOrder, Idle, IInv, TypeOK
    <2> QED
      BY <2>1, <2>2 DEF CommittedRow
  <1>6. ASSUME NEW u \in Units
        PROVE  /\ AddUp(stock'[u], Actives(u)', Solds(u)')
               /\ AddUp(CommittedStock(u)', SeenActives(u)', SeenSolds(u)')
    <2>1. /\ SeenActives(u)' = SeenActives(u) /\ SeenSolds(u)' = SeenSolds(u)
          /\ Actives(u)' = SeenActives(u) /\ Solds(u)' = SeenSolds(u)
      BY <1>1, <1>2 DEF SeenActives, SeenSolds, Actives, Solds
    <2> QED
      BY <1>1, <1>2, <2>1 DEF Books, Matches
  <1> QED
    BY <1>2, <1>3, <1>4, <1>5, <1>6 DEF Books, Matches, Invisible

LEMMA CallBooks ==
    ASSUME IInv, IInv', Books, NEW t \in Txns, Call(t)
    PROVE  Books' /\ Invisible /\ \A x \in Txns \ {t} : Undisturbed(x)
  <1>1. /\ UNCHANGED << present, stock, rsv, lock, rowLock, undo >> /\ txn[t] = Idle
        /\ txn \in [Txns -> Txn] /\ t # None /\ None \notin Orders /\ claimed \subseteq Orders
    BY ConstantsAssumption
       DEF Call, StartReserve, StartRestore, StartCommit, StartSweep, IInv, TypeOK
  <1>2. \A u \in Units : lock[u] # t /\ lock[u] \in Txns \cup {None}
    BY <1>1 DEF Books, LocksAreUsed, Idle, IInv, TypeOK
  <1>3. PICK o \in Orders : \/ \E lapse \in Lapses : StartReserve(t, o, lapse)
                            \/ StartRestore(t, o) \/ StartCommit(t, o) \/ StartSweep(t, o)
    BY DEF Call
  <1>4. /\ \A x \in Txns \ {t} : txn'[x] = txn[x]
        /\ txn'[t].order = o /\ txn'[t] # Idle /\ o \in claimed' /\ claimed \subseteq claimed'
        /\ \/ /\ txn'[t].op = "reserve" /\ txn'[t].at = "gate" /\ o \notin claimed
              /\ stockLock' = t /\ stockLock = None /\ claimed' = claimed \cup {o}
           \/ /\ txn'[t].op \in {"release", "commit", "restock"} /\ txn'[t].at = "rows"
              /\ (stockLock' = stockLock \/ stockLock = None) /\ UNCHANGED claimed
              /\ \A x \in Txns : txn[x].op = "reserve" => txn[x].order # o
    <2>1. ASSUME NEW lapse \in Lapses, StartReserve(t, o, lapse)
          PROVE  /\ \A x \in Txns \ {t} : txn'[x] = txn[x]
                 /\ txn'[t].order = o /\ txn'[t].op = "reserve" /\ txn'[t].at = "gate"
                 /\ o \notin claimed /\ claimed' = claimed \cup {o}
                 /\ stockLock' = t /\ stockLock = None
      BY <1>1, <2>1 DEF StartReserve
    <2>2. ASSUME NEW op \in {"release", "restock", "commit"}, Begin(t, o, op)
          PROVE  /\ \A x \in Txns \ {t} : txn'[x] = txn[x]
                 /\ txn'[t].order = o /\ txn'[t].op = op /\ txn'[t].at = "rows"
      BY <1>1, <2>2 DEF Begin
    <2>3. StartRestore(t, o) => /\ stockLock = None /\ o \in claimed /\ UNCHANGED claimed
                                /\ \E op \in {"release", "restock"} : Begin(t, o, op)
      BY DEF StartRestore
    <2>4. StartCommit(t, o) => /\ UNCHANGED << stockLock, claimed >> /\ o \in claimed
                               /\ ~BeingReserved(o) /\ Begin(t, o, "commit")
      BY DEF StartCommit
    <2>5. StartSweep(t, o) =>
             /\ UNCHANGED << stockLock, claimed >> /\ Begin(t, o, "release")
             /\ \E u \in Units : CommittedRow(o, u).active > 0
      BY DEF StartSweep
    <2>6. stockLock = None => \A x \in Txns : txn[x].op # "reserve"
      BY ConstantsAssumption DEF Books, Stage, Idle
    <2>7. ~BeingReserved(o) => \A x \in Txns : txn[x].op = "reserve" => txn[x].order # o
      BY DEF BeingReserved
    <2>8. ASSUME NEW u \in Units, CommittedRow(o, u).active > 0
          PROVE  o \in claimed /\ \A x \in Txns : txn[x].op = "reserve" => txn[x].order # o
      <3>1. CommittedRow(o, u) # NoRow
        BY <2>8 DEF NoRow
      <3>2. \A x \in Txns : txn[x].op = "reserve" => txn[x].order # o
        BY <3>1 DEF Books, OwnOrder
      <3>3. o \notin claimed => CommittedRow(o, u) = NoRow
        <4>1. o \notin claimed => rsv[o][u] = NoRow
          BY DEF Books, UnclaimedHoldsNothing
        <4>2. o \notin claimed /\ lock[u] # None => txn[lock[u]].order # o
          BY <1>2 DEF Books, LocksAreUsed, OwnOrder, Idle
        <4> QED
          BY <4>1, <4>2 DEF CommittedRow
      <3> QED
        BY <3>1, <3>2, <3>3
    <2>9. txn'[t].at \in {"gate", "rows"} => txn'[t] # Idle
      BY DEF Idle
    <2> QED
      BY <1>3, <2>1, <2>2, <2>3, <2>4, <2>5, <2>6, <2>7, <2>8, <2>9
  <1>5. \A v \in Units : /\ CommittedStock(v)' = CommittedStock(v)
                         /\ \A p \in Orders : CommittedRow(p, v)' = CommittedRow(p, v)
    BY <1>1, <1>2, <1>4 DEF CommittedStock, CommittedRow
  <1>6. ASSUME NEW x \in Txns PROVE Stage(x)' /\ OwnOrder(x)'
    <2>1. CASE x # t
      <3>1. Stage(x) /\ OwnOrder(x) /\ txn'[x] = txn[x] /\ x # None
        BY <1>4, <2>1, ConstantsAssumption DEF Books
      <3>2. Stage(x)'
        BY <1>1, <1>4, <3>1 DEF Stage
      <3>3. txn[x].op = "reserve" => /\ txn[x] # Idle /\ txn[x].order \in Orders
                                     /\ txn[x].order # o
        BY <1>1, <1>4, <3>1 DEF OwnOrder, Idle
      <3>4. PICK p : p = txn[x].order
        OBVIOUS
      <3>5. txn[x].op = "reserve" => \A u \in Units : CommittedRow(p, u)' = NoRow
        BY <1>5, <3>1, <3>3, <3>4 DEF OwnOrder
      <3>6. txn[x].op = "reserve" => \A y \in Txns \ {x} : txn'[y].order # txn'[x].order
        BY <1>4, <3>1, <3>3 DEF OwnOrder
      <3>7. txn[x] # Idle => txn[x].order \in claimed'
        BY <1>4, <3>1 DEF OwnOrder
      <3>8. OwnOrder(x)'
        BY <3>1, <3>4, <3>5, <3>6, <3>7 DEF OwnOrder
      <3> QED
        BY <3>2, <3>8
    <2>2. CASE x = t
      <3>1. Stage(t)'
        BY <1>4 DEF Stage
      <3>2. ASSUME txn'[t].op = "reserve"
            PROVE  /\ \A y \in Txns \ {t} : txn'[y].order # o
                   /\ \A u \in Units : CommittedRow(o, u)' = NoRow
        <4>1. o \notin claimed
          BY <1>4, <3>2
        <4>2. \A y \in Txns : txn[y].order # o
          BY <1>1, <4>1 DEF Books, OwnOrder, Idle
        <4>3. \A u \in Units : CommittedRow(o, u) = NoRow
          BY <1>2, <4>1, <4>2 DEF CommittedRow, Books, UnclaimedHoldsNothing
        <4> QED
          BY <1>4, <1>5, <4>2, <4>3
      <3>3. OwnOrder(t)'
        BY <1>4, <3>2 DEF OwnOrder
      <3> QED
        BY <2>2, <3>1, <3>3
    <2> QED
      BY <2>1, <2>2
  <1>7. LocksAreUsed'
    BY <1>1, <1>2, <1>4 DEF Books, LocksAreUsed
  <1>8. UnclaimedHoldsNothing'
    BY <1>1, <1>4 DEF Books, UnclaimedHoldsNothing
  <1>9. Matches'
    <2>1. \A u \in Units : SeenActives(u)' = SeenActives(u) /\ SeenSolds(u)' = SeenSolds(u)
      BY <1>5 DEF SeenActives, SeenSolds
    <2>2. \A u \in Units : Actives(u)' = Actives(u) /\ Solds(u)' = Solds(u)
      BY <1>1 DEF Actives, Solds
    <2> QED
      BY <1>1, <1>5, <2>1, <2>2 DEF Books, Matches
  <1>10. \A x \in Txns \ {t} : Undisturbed(x)
    BY <1>1, <1>4 DEF Undisturbed
  <1> QED
    BY <1>5, <1>6, <1>7, <1>8, <1>9, <1>10 DEF Books, Invisible

\* A correction moves the sellable count of rows nobody has locked.
LEMMA CorrectionSeen ==
    ASSUME IInv, Books, NEW n \in StockLevels,
           \/ \E u \in Units : AdjustInventory(u, n)
           \/ \E S \in SUBSET Units : EnsureProductInventory(S, n)
    PROVE  /\ UNCHANGED << rsv, claimed, txn, lock, rowLock, stockLock, undo >>
           /\ present \subseteq present'
           /\ \A v \in Units :
                /\ stock'[v].reserved = stock[v].reserved /\ stock'[v].sold = stock[v].sold
                /\ lock[v] # None => stock'[v] = stock[v]
  <1>1. ASSUME NEW u \in Units, AdjustInventory(u, n), NEW v \in Units
        PROVE  /\ stock'[v].reserved = stock[v].reserved /\ stock'[v].sold = stock[v].sold
               /\ lock[v] # None => stock'[v] = stock[v]
    <2>1. stock \in [Units -> Stock]
      BY DEF IInv, TypeOK
    <2> QED
      BY <1>1, <2>1 DEF AdjustInventory, Stock
  <1>2. ASSUME NEW S \in SUBSET Units, EnsureProductInventory(S, n), NEW v \in Units
        PROVE  /\ stock'[v].reserved = stock[v].reserved /\ stock'[v].sold = stock[v].sold
               /\ lock[v] # None => stock'[v] = stock[v]
    <2>1. v \notin present => /\ lock[v] = None
                              /\ stock[v].reserved = 0 /\ stock[v].sold = 0
      BY DEF IInv, ImagesBalance, Books, LocksAreUsed
    <2>2. stock'[v] = (IF v \in S \ present THEN [NoStock EXCEPT !.avail = n] ELSE stock[v])
      BY <1>2 DEF EnsureProductInventory
    <2> QED
      BY <2>1, <2>2 DEF NoStock
  <1>3. /\ UNCHANGED << rsv, claimed, txn, lock, rowLock, stockLock, undo >>
        /\ present \subseteq present'
    BY DEF AdjustInventory, EnsureProductInventory
  <1> QED
    BY <1>1, <1>2, <1>3

LEMMA SupplyBooks ==
    ASSUME IInv, IInv', Books, NEW n \in StockLevels,
           \/ \E u \in Units : AdjustInventory(u, n)
           \/ \E S \in SUBSET Units : EnsureProductInventory(S, n)
    PROVE  Books'
  <1>1. /\ UNCHANGED << rsv, claimed, txn, lock, rowLock, stockLock, undo >>
        /\ present \subseteq present'
        /\ \A v \in Units :
             /\ stock'[v].reserved = stock[v].reserved /\ stock'[v].sold = stock[v].sold
             /\ lock[v] # None => stock'[v] = stock[v]
    BY CorrectionSeen
  <1>2. \A v \in Units : /\ CommittedStock(v)'.reserved = CommittedStock(v).reserved
                         /\ CommittedStock(v)'.sold = CommittedStock(v).sold
                         /\ \A o \in Orders : CommittedRow(o, v)' = CommittedRow(o, v)
    BY <1>1 DEF CommittedStock, CommittedRow
  <1>3. \A t \in Txns : Stage(t)'
    BY <1>1 DEF Books, Stage
  <1>4. ASSUME NEW t \in Txns PROVE OwnOrder(t)'
    <2>1. OwnOrder(t)
      BY DEF Books
    <2>2. PICK o : o = txn[t].order
      OBVIOUS
    <2>3. txn[t].op = "reserve" => o \in Orders
      BY <2>1, <2>2 DEF OwnOrder, Idle, IInv, TypeOK
    <2>4. txn[t].op = "reserve" => \A u \in Units : CommittedRow(o, u)' = NoRow
      BY <1>2, <2>1, <2>2, <2>3 DEF OwnOrder
    <2> QED
      BY <1>1, <2>1, <2>2, <2>4 DEF OwnOrder
  <1>5. LocksAreUsed' /\ UnclaimedHoldsNothing'
    BY <1>1 DEF Books, LocksAreUsed, UnclaimedHoldsNothing
  <1>6. Matches'
    <2>1. \A u \in Units : /\ SeenActives(u)' = SeenActives(u) /\ SeenSolds(u)' = SeenSolds(u)
                           /\ Actives(u)' = Actives(u) /\ Solds(u)' = Solds(u)
      BY <1>1, <1>2 DEF SeenActives, SeenSolds, Actives, Solds
    <2> QED
      BY <1>1, <1>2, <2>1 DEF Books, Matches, AddUp
  <1> QED
    BY <1>3, <1>4, <1>5, <1>6 DEF Books

LEMMA BooksPreserved == IInv /\ Books /\ [Next]_vars => Books'
  <1> SUFFICES ASSUME IInv, Books, [Next]_vars PROVE Books'
    OBVIOUS
  <1>0. IInv'
    BY NextPreserves
  <1>1. ASSUME NEW t \in Txns, Step(t) PROVE Books'
    BY <1>0, <1>1, LockingBooks, TakeBooks, MoveBooks, CommitBooks, RollbackBooks
       DEF Step, RefuseBasket, DeadlockVictim
  <1>2. ASSUME NEW t \in Txns, Call(t) PROVE Books'
    BY <1>0, <1>2, CallBooks
  <1>3. ASSUME NEW t \in Txns, StatementFails(t) PROVE Books'
    BY <1>0, <1>3, RollbackBooks DEF StatementFails
  <1>4. CASE Crash
    BY <1>0, <1>4, CrashBooks
  <1>5. ASSUME NEW n \in StockLevels,
               \/ \E u \in Units : AdjustInventory(u, n)
               \/ \E S \in SUBSET Units : EnsureProductInventory(S, n)
        PROVE Books'
    BY <1>0, <1>5, SupplyBooks
  <1>6. CASE UNCHANGED vars
    <2>1. /\ \A u \in Units : /\ Actives(u)' = Actives(u) /\ Solds(u)' = Solds(u)
                              /\ CommittedStock(u)' = CommittedStock(u)
          /\ \A u \in Units : \A o \in Orders : CommittedRow(o, u)' = CommittedRow(o, u)
      BY <1>6 DEF vars, Actives, Solds, CommittedStock, CommittedRow
    <2>2. \A u \in Units : SeenActives(u)' = SeenActives(u) /\ SeenSolds(u)' = SeenSolds(u)
      BY <2>1 DEF SeenActives, SeenSolds
    <2>3. Matches'
      BY <1>6, <2>1, <2>2 DEF vars, Books, Matches
    <2>4. \A t \in Txns : Stage(t)' /\ OwnOrder(t)'
      BY <1>6 DEF vars, Books, Stage, OwnOrder, CommittedRow
    <2> QED
      BY <1>6, <2>3, <2>4 DEF vars, Books, LocksAreUsed, UnclaimedHoldsNothing
  <1> QED
    BY <1>1, <1>2, <1>3, <1>4, <1>5, <1>6 DEF Next

\* The reserved and sold counters, kept step by step under row locks, are at any moment
\* the sums of the reservation rows, so 'reserved_stock drift' of the health check never
\* comes from reserve, release, commit, restock, a rollback or a crash between them.
THEOREM CountersAddUp == Spec => []CountersMatchRows
  <1>1. Books => CountersMatchRows
    BY DEF Books, Matches, AddUp, Actives, Solds, CountersMatchRows, Total, SumOver
  <1> QED
    BY <1>1, InitEstablishes, NextPreserves, BooksInit, BooksPreserved, PTL DEF Spec

\* All-or-nothing: an order whose claim was not made, or was undone after a refusal, an
\* error or a lost lock cycle, holds no unit on any row, not even within a transaction.
THEOREM UnclaimedIsFree == Spec => []UnclaimedHoldsNothing
  <1>1. Books => UnclaimedHoldsNothing
    BY DEF Books
  <1> QED
    BY <1>1, InitEstablishes, NextPreserves, BooksInit, BooksPreserved, PTL DEF Spec

-----------------------------------------------------------------------------
(* How far a transaction has got: its rows and counters against the images  *)
(* it keeps of them.  At COMMIT this is one whole operation of OrderStock.  *)

NewStock(op, s, r) ==
    IF op = "release" THEN Released(s, r) ELSE IF op = "commit" THEN SoldOff(s, r)
                                          ELSE Restocked(s, r)
NewRow(op, r) ==
    IF op = "release" THEN ReleasedRow(r) ELSE IF op = "commit" THEN CommittedOf(r)
                                          ELSE RestockedRow(r)

\* release, commit, restock: the rows locked are moved, the others still to do or not selected.
MovedSoFar(t) ==
    txn[t].at = "units" =>
        \A u \in Units :
            /\ lock[u] = t =>
                 /\ u \notin txn[t].todo
                 /\ stock[u] = NewStock(txn[t].op, undo[t][u].stock, undo[t][u].row)
                 /\ rsv[txn[t].order][u] = NewRow(txn[t].op, undo[t][u].row)
            /\ lock[u] # t => u \in txn[t].todo \/ ~Selected(txn[t].op, rsv[txn[t].order][u])

TakenFrom(s, n) ==
    [avail |-> s.avail - n, reserved |-> s.reserved + n, sold |-> s.sold]

\* reserve: what a locked row has given to the order some line asked of it.
TookSoFar(t) ==
    txn[t].op = "reserve" =>
        /\ txn[t].at = "lock" =>
              \A u \in txn[t].todo : \E k \in DOMAIN LineOf(t).chain : LineOf(t).chain[k] = u
        /\ txn[t].at = "cascade" =>
              \E k \in DOMAIN LineOf(t).chain : lock[LineOf(t).chain[k]] = t
        /\ \A u \in Units :
             /\ lock[u] # t => rsv[txn[t].order][u] = NoRow
             /\ lock[u] = t =>
                  /\ rsv[txn[t].order][u].committed = 0
                  /\ rsv[txn[t].order][u].active <= undo[t][u].stock.avail
                  /\ rsv[txn[t].order][u].active \in Atomic!Wanted(txn[t].order, u)
                  /\ stock[u] = TakenFrom(undo[t][u].stock, rsv[txn[t].order][u].active)

\* No two lines of a basket draw on one row, and a line has no more than two levels.  With
\* three, the row that was checked may be neither the most specific one any more, when the
\* cascade is resolved, nor the pool; with a shared row, the second line takes nothing from it.
OwnRows ==
    \A o \in Orders :
        /\ \A i \in DOMAIN Basket[o] : Len(Basket[o][i].chain) <= 2
        /\ \A i, j \in DOMAIN Basket[o] :
             \A k \in DOMAIN Basket[o][i].chain, m \in DOMAIN Basket[o][j].chain :
                Basket[o][i].chain[k] = Basket[o][j].chain[m] => i = j

\* One level of the line holds all of it.
Met(o, i) ==
    \E k \in DOMAIN Basket[o][i].chain :
        rsv[o][Basket[o][i].chain[k]].active = Basket[o][i].qty

Untouched(o, i) ==
    \A k \in DOMAIN Basket[o][i].chain : rsv[o][Basket[o][i].chain[k]].active = 0

\* An authoritative reservation: earlier lines are met, later ones untouched, and the row
\* that was checked stays locked until it gives what it was checked for.
CoversSoFar(t) ==
    Authoritative /\ OwnRows /\ txn[t].op = "reserve" =>
        /\ \A i \in DOMAIN Basket[txn[t].order] :
             txn[t].at = "commit" \/ (txn[t].at # "abort" /\ i < txn[t].line) =>
                Met(txn[t].order, i)
        /\ txn[t].at \in {"gate", "cascade", "lock"} =>
             \A i \in DOMAIN Basket[txn[t].order] :
                i >= txn[t].line => Untouched(txn[t].order, i)
        /\ txn[t].at \in {"cascade", "lock"} =>
             \E k \in DOMAIN LineOf(t).chain :
                /\ lock[LineOf(t).chain[k]] = t
                /\ stock[LineOf(t).chain[k]].avail >= LineOf(t).qty
                /\ txn[t].at = "lock" => LineOf(t).chain[k] \in txn[t].todo

Progress == \A t \in Txns : MovedSoFar(t) /\ TookSoFar(t) /\ CoversSoFar(t)

LEMMA ProgressInit == Init => Progress
  <1> SUFFICES ASSUME Init, NEW t \in Txns
               PROVE  MovedSoFar(t) /\ TookSoFar(t) /\ CoversSoFar(t)
    BY DEF Progress
  <1>1. txn[t] = Idle /\ Idle.at = "none" /\ Idle.op = "idle"
    <2>1. Idle.at = "none" /\ Idle.op = "idle"
      BY DEF Idle
    <2> QED
      BY <2>1 DEF Init
  <1> QED
    BY <1>1 DEF MovedSoFar, TookSoFar, CoversSoFar

\* An idle transaction has no progress to speak of.
LEMMA IdleProgress ==
    ASSUME NEW t \in Txns, txn'[t] = Idle
    PROVE  (MovedSoFar(t) /\ TookSoFar(t) /\ CoversSoFar(t))'
  <1>1. Idle.at = "none" /\ Idle.op = "idle"
    BY DEF Idle
  <1> QED
    BY <1>1 DEF MovedSoFar, TookSoFar, CoversSoFar

LEMMA BasketLines ==
    ASSUME NEW o \in Orders, NEW i \in DOMAIN Basket[o]
    PROVE  /\ Basket[o][i] \in Line /\ i \in Nat
           /\ Basket[o][i].chain \in Seq(Units) /\ Basket[o][i].qty \in Nat \ {0}
           /\ \A k \in DOMAIN Basket[o][i].chain : Basket[o][i].chain[k] \in Units
  <1>1. Basket[o] \in Seq(Line)
    BY ConstantsAssumption
  <1>2. Basket[o][i] \in Line /\ i \in Nat
    BY <1>1
  <1>3. Basket[o][i].chain \in Seq(Units) /\ Basket[o][i].qty \in Nat \ {0}
    BY <1>2 DEF Line
  <1> QED
    BY <1>2, <1>3

\* Others do not disturb it.
LEMMA ProgressStays ==
    ASSUME IInv, Books, Progress, NEW x \in Txns, Undisturbed(x)
    PROVE  (MovedSoFar(x) /\ TookSoFar(x) /\ CoversSoFar(x))'
  <1>1. MovedSoFar(x) /\ TookSoFar(x) /\ CoversSoFar(x)
    BY DEF Progress
  <1>2. /\ txn'[x] = txn[x]
        /\ \A u \in Units : /\ lock'[u] = x <=> lock[u] = x
                            /\ lock[u] = x => stock'[u] = stock[u] /\ undo'[x][u] = undo[x][u]
    BY DEF Undisturbed
  <1>3. CASE ~AtWork(x)
    BY <1>2, <1>3 DEF AtWork, MovedSoFar, TookSoFar, CoversSoFar
  <1>4. CASE AtWork(x)
    <2>1. \A u \in Units : rsv'[txn[x].order][u] = rsv[txn[x].order][u]
      BY <1>4 DEF Undisturbed
    <2>2. PICK o : o = txn[x].order
      OBVIOUS
    <2>3. o \in Orders
      BY <1>4, <2>2 DEF Books, OwnOrder, AtWork, Idle, IInv, TypeOK
    <2>4. MovedSoFar(x)'
      BY <1>1, <1>2, <2>1 DEF MovedSoFar
    <2>5. LineOf(x)' = LineOf(x)
      BY <1>2 DEF LineOf
    <2>6. TookSoFar(x)'
      <3>1. \A u \in Units : Atomic!Wanted(txn[x].order, u)' = Atomic!Wanted(txn[x].order, u)
        BY <1>2 DEF Atomic!Wanted
      <3>2. txn[x].at = "cascade" => txn[x].line \in DOMAIN Basket[o]
        BY <2>2 DEF IInv, PointsAtLine
      <3>3. txn[x].at = "cascade" =>
                \A k \in DOMAIN LineOf(x).chain : LineOf(x).chain[k] \in Units
        BY <2>2, <2>3, <3>2, BasketLines DEF LineOf
      <3> QED
        BY <1>1, <1>2, <2>1, <2>5, <3>1, <3>3 DEF TookSoFar
    <2>7. \A i \in DOMAIN Basket[o] : /\ Met(o, i) => Met(o, i)'
                                      /\ Untouched(o, i) => Untouched(o, i)'
      <3> SUFFICES ASSUME NEW i \in DOMAIN Basket[o]
                   PROVE  /\ Met(o, i) => Met(o, i)'
                          /\ Untouched(o, i) => Untouched(o, i)'
        OBVIOUS
      <3>1. \A k \in DOMAIN Basket[o][i].chain : Basket[o][i].chain[k] \in Units
        BY <2>3, BasketLines
      <3>2. \A k \in DOMAIN Basket[o][i].chain :
               rsv'[o][Basket[o][i].chain[k]] = rsv[o][Basket[o][i].chain[k]]
        BY <2>1, <2>2, <3>1
      <3> QED
        BY <3>2 DEF Met, Untouched
    <2>8. CoversSoFar(x)'
      <3> SUFFICES ASSUME Authoritative, OwnRows, txn[x].op = "reserve"
                   PROVE  CoversSoFar(x)'
        BY <1>2 DEF CoversSoFar
      <3>1. txn[x].at \in {"cascade", "lock"} =>
                \A k \in DOMAIN LineOf(x).chain : LineOf(x).chain[k] \in Units
        <4>1. txn[x].at \in {"cascade", "lock"} => txn[x].line \in DOMAIN Basket[o]
          BY <2>2 DEF IInv, PointsAtLine
        <4> QED
          BY <2>2, <2>3, <4>1, BasketLines DEF LineOf
      <3>2. txn[x].at \in {"cascade", "lock"} =>
              \E k \in DOMAIN LineOf(x).chain :
                /\ lock'[LineOf(x).chain[k]] = x
                /\ stock'[LineOf(x).chain[k]].avail >= LineOf(x).qty
                /\ txn[x].at = "lock" => LineOf(x).chain[k] \in txn[x].todo
        BY <1>1, <1>2, <3>1 DEF CoversSoFar
      <3> QED
        BY <1>1, <1>2, <2>2, <2>5, <2>7, <3>2 DEF CoversSoFar
    <2> QED
      BY <2>4, <2>6, <2>8
  <1> QED
    BY <1>3, <1>4

\* The row a search by position or by id stops at.
LEMMA GatingIsThere ==
    ASSUME NEW line \in Line, Resolvable(line)
    PROVE  \E i \in DOMAIN line.chain :
              /\ line.chain[i] = GatingUnit(line) /\ line.chain[i] \in present
              /\ \A j \in DOMAIN line.chain : line.chain[j] \in present => i <= j
  <1>1. line.chain \in Seq(Units) /\ DOMAIN line.chain \subseteq Nat
    BY DEF Line
  <1>2. PICK B : B = {i \in DOMAIN line.chain : line.chain[i] \in present}
    OBVIOUS
  <1>3. B \in SUBSET Nat /\ B # {}
    BY <1>1, <1>2 DEF Resolvable
  <1>4. \E i \in B : \A j \in B : i <= j
    BY <1>3, LeastNumber
  <1>5. \E i \in DOMAIN line.chain :
           /\ line.chain[i] \in present
           /\ \A j \in DOMAIN line.chain : line.chain[j] \in present => i <= j
    BY <1>2, <1>4
  <1> QED
    BY <1>5 DEF GatingUnit

LEMMA LowestIsOneOf ==
    ASSUME NEW S \in SUBSET Units, S # {}
    PROVE  Lowest(S) \in S
  <1>1. PICK B : B = {Rank[u] : u \in S}
    OBVIOUS
  <1>2. B \in SUBSET Nat /\ B # {}
    BY <1>1, ConstantsAssumption
  <1>3. PICK n \in B : \A m \in B : n <= m
    BY <1>2, LeastNumber
  <1>4. \E u \in S : \A v \in S : Rank[u] <= Rank[v]
    BY <1>1, <1>3
  <1> QED
    BY <1>4 DEF Lowest

\* What a reservation on a line knows.
LEMMA LineFacts ==
    ASSUME IInv, Books, NEW t \in Txns, txn[t].at \in {"gate", "cascade", "lock"}
    PROVE  /\ txn[t].op = "reserve" /\ txn[t].order \in Orders /\ txn[t] # Idle
           /\ txn[t].line \in DOMAIN Basket[txn[t].order] /\ txn[t].line \in Nat
           /\ LineOf(t) \in Line /\ LineOf(t).qty \in Nat \ {0}
           /\ \A k \in DOMAIN LineOf(t).chain : LineOf(t).chain[k] \in Units
           /\ LineOf(t) = Basket[txn[t].order][txn[t].line]
           /\ stockLock = t
  <1>1. txn[t] # Idle /\ Idle.at = "none" /\ txn[t].op = "reserve" /\ stockLock = t
    BY DEF Books, Stage, Idle
  <1>2. /\ txn[t].order \in Orders /\ txn[t].line \in DOMAIN Basket[txn[t].order]
    BY DEF IInv, PointsAtLine
  <1>3. LineOf(t) = Basket[txn[t].order][txn[t].line]
    BY DEF LineOf
  <1> QED
    BY <1>1, <1>2, <1>3, BasketLines

\* Taking the next row lock: what lies behind it is what there is.
LEMMA LockTook ==
    ASSUME IInv, IInv', Books, Progress, NEW t \in Txns, NEW u, LockAndKeepImage(t, u),
           txn[t].op = "reserve", txn[t].order \in Orders,
           txn'[t].op = txn[t].op, txn'[t].order = txn[t].order,
           UNCHANGED << stock, rsv >>
    PROVE  \A v \in Units :
             /\ lock'[v] # t => rsv'[txn[t].order][v] = NoRow
             /\ lock'[v] = t =>
                  /\ rsv'[txn[t].order][v].committed = 0
                  /\ rsv'[txn[t].order][v].active <= undo'[t][v].stock.avail
                  /\ rsv'[txn[t].order][v].active \in Atomic!Wanted(txn[t].order, v)
                  /\ stock'[v] = TakenFrom(undo'[t][v].stock, rsv'[txn[t].order][v].active)
  <1> SUFFICES ASSUME NEW v \in Units
               PROVE  /\ lock'[v] # t => rsv[txn[t].order][v] = NoRow
                      /\ lock'[v] = t =>
                          /\ rsv[txn[t].order][v].committed = 0
                          /\ rsv[txn[t].order][v].active <= undo'[t][v].stock.avail
                          /\ rsv[txn[t].order][v].active \in Atomic!Wanted(txn[t].order, v)
                          /\ stock[v] = TakenFrom(undo'[t][v].stock, rsv[txn[t].order][v].active)
    OBVIOUS
  <1>0. t # None
    BY ConstantsAssumption
  <1>1. TookSoFar(t)
    BY DEF Progress
  <1>2. \/ lock'[v] = lock[v] /\ (lock[v] # None => undo'[lock[v]][v] = undo[lock[v]][v])
        \/ /\ lock[v] = None /\ lock'[v] = t
           /\ undo'[t][v] = [stock |-> stock[v], row |-> rsv[txn[t].order][v]]
    BY LockKeepsSeen
  <1>3. CASE lock'[v] = lock[v] /\ (lock[v] # None => undo'[lock[v]][v] = undo[lock[v]][v])
    BY <1>0, <1>1, <1>3 DEF TookSoFar
  <1>4. CASE /\ lock[v] = None /\ lock'[v] = t
             /\ undo'[t][v] = [stock |-> stock[v], row |-> rsv[txn[t].order][v]]
    <2>1. rsv[txn[t].order][v] = NoRow
      BY <1>0, <1>1, <1>4 DEF TookSoFar
    <2>2. rsv[txn[t].order][v].committed = 0 /\ rsv[txn[t].order][v].active = 0
      BY <2>1 DEF NoRow
    <2>3. undo'[t][v].stock = stock[v] /\ stock[v] \in Stock
      BY <1>4, SeenTypes
    <2>4. stock[v] = TakenFrom(stock[v], 0) /\ 0 <= stock[v].avail
      BY <2>3 DEF Stock, TakenFrom
    <2>5. 0 \in Atomic!Wanted(txn[t].order, v)
      BY DEF Atomic!Wanted
    <2> QED
      BY <1>4, <2>2, <2>3, <2>4, <2>5
  <1> QED
    BY <1>2, <1>3, <1>4

LEMMA GateProgress ==
    ASSUME IInv, IInv', Books, Progress, NEW t \in Txns, LockGating(t)
    PROVE  (MovedSoFar(t) /\ TookSoFar(t) /\ CoversSoFar(t))'
  <1>1. PICK o, u : o = txn[t].order /\ u = GatingUnit(LineOf(t))
    OBVIOUS
  <1>2. /\ txn[t].at = "gate" /\ LockAndKeepImage(t, u) /\ Resolvable(LineOf(t))
        /\ UNCHANGED << stock, rsv >>
        /\ txn' = [txn EXCEPT ![t].at =
                     IF Authoritative /\ stock[u].avail < LineOf(t).qty THEN "abort" ELSE "cascade"]
    BY <1>1 DEF LockGating, GoTo
  <1>3. /\ txn[t].op = "reserve" /\ o \in Orders /\ txn[t].line \in DOMAIN Basket[o]
        /\ LineOf(t) \in Line /\ LineOf(t).qty \in Nat \ {0} /\ txn[t] \in Txn
        /\ LineOf(t) = Basket[o][txn[t].line]
    BY <1>1, <1>2, LineFacts DEF IInv, TypeOK
  <1>4. /\ txn'[t].op = "reserve" /\ txn'[t].order = o /\ txn'[t].line = txn[t].line
        /\ txn'[t].at = (IF Authoritative /\ stock[u].avail < LineOf(t).qty THEN "abort" ELSE "cascade")
    BY <1>1, <1>2, <1>3 DEF IInv, TypeOK, Txn
  <1>5. LineOf(t)' = LineOf(t)
    BY <1>1, <1>4 DEF LineOf
  <1>6. PICK i \in DOMAIN LineOf(t).chain : LineOf(t).chain[i] = u
    BY <1>1, <1>2, <1>3, GatingIsThere
  <1>7. lock'[u] = t /\ u \in Units /\ stock[u].avail \in Nat
    BY <1>2, LockKeepsSeen, SeenTypes DEF Stock
  <1>8. TookSoFar(t)'
    <2>0. /\ txn'[t].op = txn[t].op /\ txn'[t].order = txn[t].order /\ LockAndKeepImage(t, u)
          /\ txn[t].op = "reserve" /\ o = txn[t].order /\ o \in Orders /\ UNCHANGED << stock, rsv >>
      BY <1>1, <1>2, <1>3, <1>4
    <2>1. \A v \in Units :
             /\ lock'[v] # t => rsv'[o][v] = NoRow
             /\ lock'[v] = t =>
                  /\ rsv'[o][v].committed = 0
                  /\ rsv'[o][v].active <= undo'[t][v].stock.avail
                  /\ rsv'[o][v].active \in Atomic!Wanted(o, v)
                  /\ stock'[v] = TakenFrom(undo'[t][v].stock, rsv'[o][v].active)
      BY <2>0, LockTook
    <2>2. \E k \in DOMAIN LineOf(t).chain : lock'[LineOf(t).chain[k]] = t
      BY <1>6, <1>7
    <2>3. \A v \in Units : Atomic!Wanted(o, v)' = Atomic!Wanted(o, v)
      BY DEF Atomic!Wanted
    <2> QED
      BY <1>4, <1>5, <2>1, <2>2, <2>3 DEF TookSoFar
  <1>9. CoversSoFar(t)'
    <2>1. CoversSoFar(t)
      BY DEF Progress
    <2>2. \A i2 \in DOMAIN Basket[o] : /\ Met(o, i2)' = Met(o, i2)
                                       /\ Untouched(o, i2)' = Untouched(o, i2)
      BY <1>2 DEF Met, Untouched
    <2>3. txn'[t].at = "cascade" /\ Authoritative => stock[u].avail >= LineOf(t).qty
      BY <1>3, <1>4, <1>7
    <2>4. txn'[t].at = "cascade" /\ Authoritative =>
             /\ lock'[LineOf(t).chain[i]] = t
             /\ stock'[LineOf(t).chain[i]].avail >= LineOf(t).qty
      BY <1>2, <1>6, <1>7, <2>3
    <2>5. txn'[t].at \in {"abort", "cascade"}
      BY <1>4
    <2> QED
      BY ZenonT(30), <1>1, <1>2, <1>3, <1>4, <1>5, <2>1, <2>2, <2>4, <2>5 DEF CoversSoFar
  <1> QED
    BY <1>4, <1>8, <1>9 DEF MovedSoFar

LEMMA CascadeProgress ==
    ASSUME IInv, IInv', Books, Progress, NEW t \in Txns, LockCascade(t)
    PROVE  (MovedSoFar(t) /\ TookSoFar(t) /\ CoversSoFar(t))'
  <1>1. PICK o, u : o = txn[t].order /\ u = Lowest(Unowned(t))
    OBVIOUS
  <1>2. /\ txn[t].at = "lock" /\ LockAndKeepImage(t, u) /\ UNCHANGED << stock, rsv, txn >>
    BY <1>1 DEF LockCascade
  <1>3. txn[t].op = "reserve" /\ o \in Orders
        /\ \A k \in DOMAIN LineOf(t).chain : LineOf(t).chain[k] \in Units
    BY <1>1, <1>2, LineFacts
  <1>4. LineOf(t)' = LineOf(t)
    BY <1>2 DEF LineOf
  <1>5. \A v \in Units : lock[v] = t => lock'[v] = t
    BY <1>2, LockKeepsSeen
  <1>6. TookSoFar(t)'
    <2>1. \A v \in Units :
             /\ lock'[v] # t => rsv'[o][v] = NoRow
             /\ lock'[v] = t =>
                  /\ rsv'[o][v].committed = 0
                  /\ rsv'[o][v].active <= undo'[t][v].stock.avail
                  /\ rsv'[o][v].active \in Atomic!Wanted(o, v)
                  /\ stock'[v] = TakenFrom(undo'[t][v].stock, rsv'[o][v].active)
      BY <1>1, <1>2, <1>3, LockTook
    <2>2. TookSoFar(t)
      BY DEF Progress
    <2>3. \A v \in Units : Atomic!Wanted(o, v)' = Atomic!Wanted(o, v)
      BY DEF Atomic!Wanted
    <2> QED
      BY <1>1, <1>2, <1>3, <1>4, <2>1, <2>2, <2>3 DEF TookSoFar
  <1>7. CoversSoFar(t)'
    <2>1. CoversSoFar(t)
      BY DEF Progress
    <2>2. \A i2 \in DOMAIN Basket[o] : /\ Met(o, i2)' = Met(o, i2)
                                       /\ Untouched(o, i2)' = Untouched(o, i2)
      BY <1>2 DEF Met, Untouched
    <2> QED
      BY <1>1, <1>2, <1>3, <1>4, <1>5, <2>1, <2>2 DEF CoversSoFar
  <1> QED
    BY <1>2, <1>6, <1>7 DEF MovedSoFar

LEMMA ResolveProgress ==
    ASSUME IInv, IInv', Books, Progress, NEW t \in Txns, ResolveCascade(t)
    PROVE  (MovedSoFar(t) /\ TookSoFar(t) /\ CoversSoFar(t))'
  <1>1. PICK o, line : o = txn[t].order /\ line = LineOf(t)
    OBVIOUS
  <1>2. /\ txn[t].at = "cascade" /\ UNCHANGED << stock, rsv, lock, undo >>
        /\ txn' = [txn EXCEPT ![t].todo = CascadeUnits(line), ![t].at = "lock"]
    BY <1>1 DEF ResolveCascade
  <1>3. /\ txn[t].op = "reserve" /\ o \in Orders /\ line \in Line /\ line.qty \in Nat \ {0}
        /\ line = Basket[o][txn[t].line] /\ txn[t].line \in DOMAIN Basket[o]
        /\ \A k \in DOMAIN line.chain : line.chain[k] \in Units
        /\ txn[t] \in Txn
    BY <1>1, <1>2, LineFacts DEF IInv, TypeOK
  <1>4. /\ txn'[t].op = "reserve" /\ txn'[t].order = o /\ txn'[t].line = txn[t].line
        /\ txn'[t].at = "lock" /\ txn'[t].todo = CascadeUnits(line)
    BY <1>1, <1>2, <1>3 DEF IInv, TypeOK, Txn
  <1>5. LineOf(t)' = line
    BY <1>1, <1>3, <1>4 DEF LineOf
  <1>6. TookSoFar(t) /\ CoversSoFar(t)
    BY DEF Progress
  <1>7. PICK k0 \in DOMAIN line.chain : lock[line.chain[k0]] = t
    BY <1>1, <1>2, <1>3, <1>6 DEF TookSoFar
  <1>8. \A v \in Units : lock[v] = t => v \in present
    <2>1. t # None
      BY ConstantsAssumption
    <2> QED
      BY <2>1 DEF IInv, ImagesBalance
  <1>9. PICK i \in DOMAIN line.chain :
              /\ line.chain[i] = GatingUnit(line) /\ line.chain[i] \in present
              /\ \A j \in DOMAIN line.chain : line.chain[j] \in present => i <= j
    <2>1. Resolvable(line)
      BY <1>3, <1>7, <1>8 DEF Resolvable
    <2> QED
      BY <1>3, <2>1, GatingIsThere
  <1>10. line.chain \in Seq(Units) /\ Len(line.chain) \in DOMAIN line.chain
    BY <1>3, <1>7 DEF Line
  <1>11. TookSoFar(t)'
    <2>1. \A u \in CascadeUnits(line) : \E k \in DOMAIN line.chain : line.chain[k] = u
      BY <1>9, <1>10 DEF CascadeUnits
    <2>2. \A v \in Units : Atomic!Wanted(o, v)' = Atomic!Wanted(o, v)
      BY DEF Atomic!Wanted
    <2>3. stock' = stock /\ rsv' = rsv /\ lock' = lock /\ undo' = undo
      BY <1>2
    <2>4. \A u \in Units :
             /\ lock[u] # t => rsv[o][u] = NoRow
             /\ lock[u] = t =>
                  /\ rsv[o][u].committed = 0
                  /\ rsv[o][u].active <= undo[t][u].stock.avail
                  /\ rsv[o][u].active \in Atomic!Wanted(o, u)
                  /\ stock[u] = TakenFrom(undo[t][u].stock, rsv[o][u].active)
      BY <1>1, <1>3, <1>6 DEF TookSoFar
    <2> QED
      BY <1>4, <1>5, <2>1, <2>2, <2>3, <2>4 DEF TookSoFar
  <1>12. CoversSoFar(t)'
    <2> SUFFICES ASSUME Authoritative, OwnRows PROVE CoversSoFar(t)'
      BY DEF CoversSoFar
    <2>1. \A i2 \in DOMAIN Basket[o] : /\ Met(o, i2)' = Met(o, i2)
                                       /\ Untouched(o, i2)' = Untouched(o, i2)
      BY <1>2 DEF Met, Untouched
    <2>2. PICK k \in DOMAIN line.chain : lock[line.chain[k]] = t /\ stock[line.chain[k]].avail >= line.qty
      BY <1>1, <1>2, <1>3, <1>6 DEF CoversSoFar
    <2>3. line.chain[k] \in CascadeUnits(line)
      <3>1. line.chain[k] \in present /\ i <= k
        BY <1>3, <1>8, <1>9, <2>2
      <3>2. Len(line.chain) <= 2 /\ Len(line.chain) \in Nat /\ DOMAIN line.chain = 1 .. Len(line.chain)
        BY <1>3, <1>10 DEF OwnRows
      <3>3. k = i \/ k = Len(line.chain)
        BY <3>1, <3>2, <1>9, <2>2
      <3> QED
        BY <1>9, <3>1, <3>3 DEF CascadeUnits
    <2>4. stock' = stock /\ lock' = lock
      BY <1>2
    <2>5. \A i2 \in DOMAIN Basket[o] : /\ i2 < txn[t].line => Met(o, i2)
                                       /\ i2 >= txn[t].line => Untouched(o, i2)
      BY <1>1, <1>2, <1>3, <1>6 DEF CoversSoFar
    <2>6. /\ lock'[line.chain[k]] = t /\ stock'[line.chain[k]].avail >= line.qty
          /\ line.chain[k] \in txn'[t].todo
      BY <1>4, <2>2, <2>3, <2>4
    <2>7. \A i2 \in DOMAIN Basket[o] : /\ i2 < txn'[t].line => Met(o, i2)'
                                       /\ i2 >= txn'[t].line => Untouched(o, i2)'
      BY <1>4, <2>1, <2>5
    <2> QED
      BY <1>4, <1>5, <2>6, <2>7 DEF CoversSoFar
  <1> QED
    BY <1>4, <1>11, <1>12 DEF MovedSoFar

LEMMA UnstockedProgress ==
    ASSUME IInv, IInv', Books, Progress, NEW t \in Txns, UnstockedLine(t)
    PROVE  (MovedSoFar(t) /\ TookSoFar(t) /\ CoversSoFar(t))'
  <1>1. PICK o : o = txn[t].order
    OBVIOUS
  <1>2. /\ txn[t].at = "gate" /\ UNCHANGED << stock, rsv, lock, undo >>
        /\ txn' = [txn EXCEPT ![t] = IF Authoritative THEN [txn[t] EXCEPT !.at = "abort"]
                                                      ELSE NextLine(t)]
    BY DEF UnstockedLine
  <1>3. txn[t].op = "reserve" /\ o \in Orders /\ txn[t] \in Txn
    BY <1>1, <1>2, LineFacts DEF IInv, TypeOK
  <1>4. /\ txn'[t].op = "reserve" /\ txn'[t].order = o
        /\ txn'[t].at \in {"gate", "commit", "abort"} /\ (Authoritative => txn'[t].at = "abort")
    <2>1. txn'[t] = IF Authoritative THEN [txn[t] EXCEPT !.at = "abort"] ELSE NextLine(t)
      BY <1>2 DEF IInv, TypeOK
    <2> QED
      BY <1>1, <1>3, <2>1 DEF NextLine, Txn
  <1>5. TookSoFar(t) /\ \A v \in Units : Atomic!Wanted(o, v)' = Atomic!Wanted(o, v)
    BY DEF Progress, Atomic!Wanted
  <1> QED
    BY <1>1, <1>2, <1>3, <1>4, <1>5 DEF MovedSoFar, TookSoFar, CoversSoFar

\* What an operation on the reservation rows knows.
LEMMA RowsFacts ==
    ASSUME IInv, Books, NEW t \in Txns, txn[t].at \in {"rows", "units"}
    PROVE  /\ txn[t].op \in {"release", "commit", "restock"} /\ txn[t].op # "reserve"
           /\ txn[t] # Idle /\ txn[t].order \in Orders /\ txn[t] \in Txn
           /\ txn[t].at = "rows" => \A u \in Units : lock[u] # t
  <1>1. Idle.at = "none"
    BY DEF Idle
  <1>2. txn[t].op \in {"release", "commit", "restock"} /\ txn[t] # Idle
    BY <1>1 DEF Books, Stage
  <1>3. txn[t].order \in Orders /\ txn[t] \in Txn
    BY DEF IInv, PointsAtLine, TypeOK
  <1>4. txn[t].at = "rows" => \A u \in Units : lock[u] # t
    <2>1. t # None
      BY ConstantsAssumption
    <2> QED
      BY <2>1 DEF Books, LocksAreUsed
  <1> QED
    BY <1>2, <1>3, <1>4

LEMMA RowsProgress ==
    ASSUME IInv, IInv', Books, Progress, NEW t \in Txns, LockRows(t)
    PROVE  (MovedSoFar(t) /\ TookSoFar(t) /\ CoversSoFar(t))'
  <1>1. PICK o : o = txn[t].order
    OBVIOUS
  <1>2. /\ txn[t].at = "rows" /\ UNCHANGED << stock, rsv, lock, undo >>
        /\ txn' = [txn EXCEPT ![t].at = "units",
                              ![t].todo = {u \in Units : Selected(txn[t].op, rsv[o][u])}]
    BY <1>1 DEF LockRows
  <1>3. txn[t].op # "reserve" /\ txn[t] \in Txn
    BY <1>2, RowsFacts
  <1>4. \A u \in Units : lock[u] # t
    BY <1>2, RowsFacts
  <1>5. /\ txn'[t].op = txn[t].op /\ txn'[t].order = o /\ txn'[t].at = "units"
        /\ txn'[t].todo = {u \in Units : Selected(txn[t].op, rsv[o][u])}
    BY <1>1, <1>2, <1>3 DEF IInv, TypeOK, Txn
  <1> QED
    BY <1>1, <1>2, <1>3, <1>4, <1>5 DEF MovedSoFar, TookSoFar, CoversSoFar

LEMMA MoveProgress ==
    ASSUME IInv, IInv', Books, Progress, NEW t \in Txns,
           ReleaseUnit(t) \/ CommitUnit(t) \/ RestockUnit(t)
    PROVE  (MovedSoFar(t) /\ TookSoFar(t) /\ CoversSoFar(t))'
  <1>1. PICK o, u, op : o = txn[t].order /\ u = Lowest(txn[t].todo) /\ op = txn[t].op
    OBVIOUS
  <1>2. /\ txn[t].at = "units" /\ LockAndKeepImage(t, u) /\ txn[t].todo # {}
        /\ txn' = [txn EXCEPT ![t].todo = @ \ {u}]
    BY <1>1 DEF ReleaseUnit, CommitUnit, RestockUnit, MoveUnit
  <1>3. /\ txn[t] \in Txn /\ txn[t].todo \in SUBSET Units /\ o \in Orders /\ op # "reserve"
        /\ t # None
    <2>1. txn[t].op # "reserve" /\ txn[t] \in Txn /\ txn[t].order \in Orders
      BY <1>2, RowsFacts
    <2> QED
      BY <1>1, <2>1, ConstantsAssumption DEF Txn
  <1>4. u \in txn[t].todo /\ u \in Units
    BY <1>1, <1>2, <1>3, LowestIsOneOf
  <1>5. /\ txn'[t].op = op /\ txn'[t].order = o /\ txn'[t].at = "units"
        /\ txn'[t].todo = txn[t].todo \ {u}
    BY <1>1, <1>2, <1>3 DEF IInv, TypeOK, Txn
  <1>6. /\ stock' = [stock EXCEPT ![u] = NewStock(op, stock[u], rsv[o][u])]
        /\ rsv' = [rsv EXCEPT ![o][u] = NewRow(op, rsv[o][u])]
    BY <1>1 DEF ReleaseUnit, CommitUnit, RestockUnit, MoveUnit, NewStock, NewRow
  <1>7. /\ stock'[u] = NewStock(op, stock[u], rsv[o][u]) /\ rsv'[o][u] = NewRow(op, rsv[o][u])
        /\ \A v \in Units \ {u} : stock'[v] = stock[v] /\ rsv'[o][v] = rsv[o][v]
    BY <1>3, <1>4, <1>6 DEF IInv, TypeOK
  <1>8. MovedSoFar(t)
    BY DEF Progress
  <1>9. lock[u] # t
    BY <1>2, <1>4, <1>8 DEF MovedSoFar
  <1>10. \A v \in Units :
            \/ lock'[v] = lock[v] /\ (lock[v] # None => undo'[lock[v]][v] = undo[lock[v]][v])
            \/ /\ lock[v] = None /\ lock'[v] = t
               /\ undo'[t][v] = [stock |-> stock[v], row |-> rsv[o][v]]
    BY <1>1, <1>2, LockKeepsSeen
  <1>11. /\ lock'[u] = t /\ undo'[t][u] = [stock |-> stock[u], row |-> rsv[o][u]]
         /\ \A v \in Units \ {u} : lock'[v] = lock[v] /\ undo'[t][v] = undo[t][v]
    <2>1. lock' = [lock EXCEPT ![u] = t]
          /\ undo' = [undo EXCEPT ![t][u] = [stock |-> stock[u], row |-> rsv[o][u]]]
      BY <1>1, <1>2, <1>9 DEF LockAndKeepImage
    <2> QED
      BY <1>4, <2>1 DEF IInv, TypeOK
  <1>12. MovedSoFar(t)'
    <2> SUFFICES ASSUME NEW v \in Units
                 PROVE  /\ lock'[v] = t =>
                             /\ v \notin txn[t].todo \ {u}
                             /\ stock'[v] = NewStock(op, undo'[t][v].stock, undo'[t][v].row)
                             /\ rsv'[o][v] = NewRow(op, undo'[t][v].row)
                        /\ lock'[v] # t => v \in txn[t].todo \ {u} \/ ~Selected(op, rsv'[o][v])
      BY <1>5 DEF MovedSoFar
    <2>1. CASE v = u
      BY <1>7, <1>11, <2>1
    <2>2. CASE v # u
      BY <1>1, <1>2, <1>7, <1>8, <1>11, <2>2 DEF MovedSoFar
    <2> QED
      BY <2>1, <2>2
  <1> QED
    BY <1>3, <1>5, <1>12 DEF TookSoFar, CoversSoFar

LEMMA CallProgress ==
    ASSUME IInv, IInv', Books, Progress, NEW t \in Txns, Call(t)
    PROVE  (MovedSoFar(t) /\ TookSoFar(t) /\ CoversSoFar(t))'
  <1>1. PICK o \in Orders : \/ \E lapse \in Lapses : StartReserve(t, o, lapse)
                            \/ StartRestore(t, o) \/ StartCommit(t, o) \/ StartSweep(t, o)
    BY DEF Call
  <1>2. txn \in [Txns -> Txn] /\ t # None /\ txn[t] = Idle /\ UNCHANGED << stock, rsv, lock, undo >>
    BY <1>1, ConstantsAssumption
       DEF IInv, TypeOK, StartReserve, StartRestore, StartCommit, StartSweep
  <1>3. CASE StartRestore(t, o) \/ StartCommit(t, o) \/ StartSweep(t, o)
    <2>1. \E op \in {"release", "restock", "commit"} : Begin(t, o, op)
      BY <1>3 DEF StartRestore, StartCommit, StartSweep
    <2>2. txn'[t].op # "reserve" /\ txn'[t].at = "rows"
      BY <1>2, <2>1 DEF Begin
    <2> QED
      BY <2>2 DEF MovedSoFar, TookSoFar, CoversSoFar
  <1>4. ASSUME NEW lapse \in Lapses, StartReserve(t, o, lapse)
        PROVE  (MovedSoFar(t) /\ TookSoFar(t) /\ CoversSoFar(t))'
    <2>1. /\ txn'[t].op = "reserve" /\ txn'[t].order = o /\ txn'[t].at = "gate" /\ txn'[t].line = 1
          /\ o \notin claimed
      BY <1>2, <1>4 DEF StartReserve
    <2>2. \A u \in Units : rsv'[o][u] = NoRow /\ rsv'[o][u].active = 0
      BY <1>2, <2>1 DEF Books, UnclaimedHoldsNothing, NoRow
    <2>3. \A u \in Units : lock'[u] # t
      BY <1>2 DEF Books, LocksAreUsed, Idle
    <2>4. \A i \in DOMAIN Basket[o] : Untouched(o, i)' /\ ~(i < 1)
      <3>1. \A i \in DOMAIN Basket[o] : i \in 1 .. Len(Basket[o])
        BY ConstantsAssumption
      <3> QED
        BY <2>2, <3>1, BasketLines DEF Untouched
    <2> QED
      BY <2>1, <2>2, <2>3, <2>4 DEF MovedSoFar, TookSoFar, CoversSoFar
  <1> QED
    BY <1>1, <1>3, <1>4

\* What a line takes goes from sellable to reserved, and the row holds it.
LEMMA TakeProgress ==
    ASSUME IInv, IInv', Books, Progress, NEW t \in Txns, TakeCascade(t)
    PROVE  (MovedSoFar(t) /\ TookSoFar(t) /\ CoversSoFar(t))'
  <1>1. PICK o, qty, line, n : /\ o = txn[t].order /\ line = LineOf(t) /\ qty = LineOf(t).qty
                               /\ n = txn[t].line
    OBVIOUS
  <1>2. /\ txn[t].at = "lock" /\ UNCHANGED << lock, undo >>
        /\ stock' = [u \in Units |->
                    IF u \in txn[t].todo
                    THEN [avail |-> stock[u].avail - Taken(o, u, qty),
                          reserved |-> stock[u].reserved + Taken(o, u, qty),
                          sold |-> stock[u].sold]
                    ELSE stock[u]]
        /\ rsv' = [rsv EXCEPT ![o] = [u \in Units |->
                    IF u \in txn[t].todo /\ Taken(o, u, qty) > 0
                    THEN [active |-> Taken(o, u, qty), committed |-> rsv[o][u].committed,
                          lapse |-> txn[t].lapse]
                    ELSE rsv[o][u]]]
        /\ txn' = [txn EXCEPT ![t] = NextLine(t)]
    BY <1>1 DEF TakeCascade
  <1>3. /\ txn[t].op = "reserve" /\ o \in Orders /\ line \in Line /\ qty \in Nat \ {0}
        /\ line = Basket[o][n] /\ n \in DOMAIN Basket[o] /\ n \in Nat
        /\ \A k \in DOMAIN line.chain : line.chain[k] \in Units
        /\ qty = line.qty
    BY <1>1, <1>2, LineFacts
  <1>4. /\ txn[t] \in Txn /\ rsv \in [Orders -> [Units -> Row]] /\ txn[t].todo \in SUBSET Units
        /\ \A u \in txn[t].todo : lock[u] = t
    BY <1>2 DEF IInv, TypeOK, Txn, TakeCascade, Unowned
  <1>5. /\ txn'[t].op = "reserve" /\ txn'[t].order = o
        /\ \/ txn'[t].at = "gate" /\ txn'[t].line = n + 1
           \/ txn'[t].at = "commit" /\ n = Len(Basket[o])
    <2>1. txn'[t] = NextLine(t)
      BY <1>2 DEF IInv, TypeOK
    <2>2. Basket[o] \in Seq(Line)
      BY <1>3, ConstantsAssumption
    <2>3. CASE n < Len(Basket[o])
      BY <1>1, <1>3, <1>4, <2>1, <2>3 DEF NextLine, Txn
    <2>4. CASE ~(n < Len(Basket[o]))
      <3>1. n = Len(Basket[o]) /\ Len(Basket[o]) \in Nat
        BY <1>3, <2>2, <2>4
      <3>2. txn'[t] = [txn[t] EXCEPT !.at = "commit", !.todo = {}]
        BY <1>1, <2>1, <2>4 DEF NextLine
      <3> QED
        BY <1>1, <1>3, <1>4, <3>1, <3>2 DEF Txn
    <2> QED
      BY <2>3, <2>4
  <1>6. TookSoFar(t) /\ CoversSoFar(t)
    BY DEF Progress
  <1>7. ASSUME NEW u \in Units, u \notin txn[t].todo
        PROVE  stock'[u] = stock[u] /\ rsv'[o][u] = rsv[o][u]
    BY <1>2, <1>3, <1>4, <1>7
  <1>8. ASSUME NEW u \in Units, u \in txn[t].todo
        PROVE  /\ stock'[u] = TakenFrom(stock[u], Taken(o, u, qty))
               /\ \/ Taken(o, u, qty) > 0
                     /\ rsv'[o][u].active = Taken(o, u, qty)
                     /\ rsv'[o][u].committed = rsv[o][u].committed
                  \/ ~(Taken(o, u, qty) > 0) /\ rsv'[o][u] = rsv[o][u]
    <2>1. stock'[u] = TakenFrom(stock[u], Taken(o, u, qty))
      BY <1>2, <1>8 DEF TakenFrom
    <2>2. rsv'[o][u] = (IF Taken(o, u, qty) > 0
                        THEN [active |-> Taken(o, u, qty), committed |-> rsv[o][u].committed,
                              lapse |-> txn[t].lapse]
                        ELSE rsv[o][u])
      BY <1>2, <1>3, <1>4, <1>8
    <2> QED
      BY <2>1, <2>2
  <1>9. ASSUME NEW u \in Units
        PROVE  /\ stock[u] \in Stock /\ stock[u].avail \in Nat /\ stock[u].reserved \in Nat
               /\ rsv[o][u].active \in Nat /\ rsv[o][u].committed \in Nat
    BY <1>3, SeenTypes DEF Stock, Row
  <1>10. ASSUME NEW u \in Units, u \in txn[t].todo, rsv[o][u].active = 0
         PROVE  rsv'[o][u].active = MinOf(stock[u].avail, qty)
                /\ stock'[u] = TakenFrom(stock[u], rsv'[o][u].active)
                /\ rsv'[o][u].committed = rsv[o][u].committed
    <2>0. MinOf(stock[u].avail, qty) \in Nat
      BY <1>3, <1>9, MinOfNat
    <2>1. Taken(o, u, qty) = MinOf(stock[u].avail, qty)
      BY <1>10 DEF Taken
    <2>2. ~(Taken(o, u, qty) > 0) => Taken(o, u, qty) = 0
      BY <2>0, <2>1
    <2> QED
      BY <1>8, <1>10, <2>1, <2>2
  <1>11. ASSUME NEW u \in Units, u \in txn[t].todo, rsv[o][u].active # 0
         PROVE  rsv'[o][u] = rsv[o][u] /\ stock'[u] = stock[u]
    <2>1. Taken(o, u, qty) = 0
      BY <1>9, <1>11 DEF Taken
    <2>2. stock'[u] = TakenFrom(stock[u], 0) /\ rsv'[o][u] = rsv[o][u]
      BY <1>8, <1>11, <2>1
    <2>3. TakenFrom(stock[u], 0) = stock[u]
      BY <1>9 DEF Stock, TakenFrom
    <2> QED
      BY <2>2, <2>3
  <1>12. TookSoFar(t)'
    <2> SUFFICES ASSUME NEW u \in Units
                 PROVE  /\ lock[u] # t => rsv'[o][u] = NoRow
                        /\ lock[u] = t =>
                             /\ rsv'[o][u].committed = 0
                             /\ rsv'[o][u].active <= undo[t][u].stock.avail
                             /\ rsv'[o][u].active \in Atomic!Wanted(o, u)
                             /\ stock'[u] = TakenFrom(undo[t][u].stock, rsv'[o][u].active)
      <3>1. \A v \in Units : Atomic!Wanted(o, v)' = Atomic!Wanted(o, v)
        BY DEF Atomic!Wanted
      <3>2. lock' = lock /\ undo' = undo
        BY <1>2
      <3> QED
        BY <1>5, <3>1, <3>2 DEF TookSoFar
    <2>1. /\ lock[u] # t => rsv[o][u] = NoRow
          /\ lock[u] = t =>
               /\ rsv[o][u].committed = 0
               /\ rsv[o][u].active <= undo[t][u].stock.avail
               /\ rsv[o][u].active \in Atomic!Wanted(o, u)
               /\ stock[u] = TakenFrom(undo[t][u].stock, rsv[o][u].active)
      BY <1>1, <1>3, <1>6 DEF TookSoFar
    <2>2. CASE u \notin txn[t].todo
      BY <1>7, <2>1, <2>2
    <2>3. CASE u \in txn[t].todo /\ rsv[o][u].active # 0
      BY <1>4, <1>11, <2>1, <2>3
    <2>4. CASE u \in txn[t].todo /\ rsv[o][u].active = 0
      <3>1. lock[u] = t
        BY <1>4, <2>4
      <3>2. undo[t][u].stock \in Stock
        BY DEF IInv, TypeOK, Image
      <3>3. TakenFrom(undo[t][u].stock, 0) = undo[t][u].stock
        BY <3>2 DEF Stock, TakenFrom
      <3>4. stock[u] = undo[t][u].stock
        BY <2>1, <2>4, <3>1, <3>3
      <3>5. MinOf(stock[u].avail, qty) \in Nat /\ MinOf(stock[u].avail, qty) <= stock[u].avail
            /\ MinOf(stock[u].avail, qty) <= qty
        BY <1>3, <1>9, MinOfNat
      <3>6. MinOf(stock[u].avail, qty) \in Atomic!Wanted(o, u)
        <4>0. \E k \in DOMAIN line.chain : line.chain[k] = u
          BY ZenonT(30), <1>1, <1>2, <1>3, <1>6, <2>4 DEF TookSoFar
        <4>1. \E k \in DOMAIN Basket[o][n].chain : Basket[o][n].chain[k] = u
          BY <1>3, <4>0
        <4>2. MinOf(stock[u].avail, qty) \in 0 .. Basket[o][n].qty
          BY <1>3, <3>5
        <4> QED
          BY <1>3, <4>1, <4>2 DEF Atomic!Wanted
      <3> QED
        BY <1>10, <2>1, <2>4, <3>1, <3>4, <3>5, <3>6
    <2> QED
      BY <2>2, <2>3, <2>4
  <1>13. CoversSoFar(t)'
    <2> SUFFICES ASSUME Authoritative, OwnRows PROVE CoversSoFar(t)'
      BY DEF CoversSoFar
    <2>1. \A u \in txn[t].todo : \E k \in DOMAIN line.chain : line.chain[k] = u
      BY <1>1, <1>2, <1>3, <1>6 DEF TookSoFar
    <2>0. \A i \in DOMAIN Basket[o] : /\ i < n => Met(o, i)
                                      /\ i >= n => Untouched(o, i)
      <3>1. /\ \A i \in DOMAIN Basket[txn[t].order] : i < txn[t].line => Met(txn[t].order, i)
            /\ \A i \in DOMAIN Basket[txn[t].order] :
                  i >= txn[t].line => Untouched(txn[t].order, i)
        BY <1>2, <1>3, <1>6 DEF CoversSoFar
      <3> QED
        BY <1>1, <3>1
    <2>2. ASSUME NEW i \in DOMAIN Basket[o], i # n, NEW k \in DOMAIN Basket[o][i].chain
          PROVE  rsv'[o][Basket[o][i].chain[k]] = rsv[o][Basket[o][i].chain[k]]
      <3>1. Basket[o][i].chain[k] \in Units
        BY <1>3, BasketLines
      <3>2. Basket[o][i].chain[k] \notin txn[t].todo
        BY <1>3, <2>1, <2>2 DEF OwnRows
      <3> QED
        BY <1>7, <3>1, <3>2
    <2>3. ASSUME NEW i \in DOMAIN Basket[o], i < n PROVE Met(o, i)'
      <3>1. Met(o, i) /\ i # n /\ i \in Nat
        BY <1>3, <2>0, <2>3, BasketLines
      <3> QED
        BY <2>2, <3>1 DEF Met
    <2>4. ASSUME NEW i \in DOMAIN Basket[o], i >= n + 1 PROVE Untouched(o, i)'
      <3>1. i # n /\ i >= n /\ i \in Nat
        BY <1>3, <2>4, BasketLines
      <3>2. Untouched(o, i)
        BY <2>0, <3>1
      <3> QED
        BY <2>2, <3>1, <3>2 DEF Untouched
    <2>5. Met(o, n)'
      <3>1. PICK k \in DOMAIN line.chain :
                   /\ lock[line.chain[k]] = t /\ stock[line.chain[k]].avail >= line.qty
                   /\ line.chain[k] \in txn[t].todo
        BY <1>1, <1>2, <1>3, <1>6 DEF CoversSoFar
      <3>2. Untouched(o, n)
        <4>1. n >= n
          BY <1>3
        <4> QED
          BY <1>3, <2>0, <4>1
      <3>3. PICK u \in Units : u = line.chain[k]
        BY <1>3
      <3>4. rsv[o][u].active = 0
        BY <1>3, <3>2, <3>3 DEF Untouched
      <3>5. rsv'[o][u].active = MinOf(stock[u].avail, qty)
        BY <1>10, <3>1, <3>3, <3>4
      <3>6. MinOf(stock[u].avail, qty) = qty
        BY <1>3, <1>9, <3>1, <3>3 DEF MinOf
      <3> QED
        BY <1>3, <3>3, <3>5, <3>6 DEF Met
    <2>6. \A i \in DOMAIN Basket[o] : i \in Nat /\ (n = Len(Basket[o]) => i <= n)
      BY <1>3, ConstantsAssumption
    <2>7. \A i \in DOMAIN Basket[o] : i < n \/ i = n \/ i >= n + 1
      BY <1>3, <2>6
    <2>8. CASE txn'[t].at = "gate" /\ txn'[t].line = n + 1
      <3>1. \A i \in DOMAIN Basket[o] : i < n + 1 => Met(o, i)'
        BY <1>3, <2>3, <2>5, <2>6, <2>7
      <3> QED
        BY <1>5, <2>4, <2>8, <3>1 DEF CoversSoFar
    <2>9. CASE txn'[t].at = "commit" /\ n = Len(Basket[o])
      <3>1. \A i \in DOMAIN Basket[o] : Met(o, i)'
        BY <1>3, <2>3, <2>5, <2>6, <2>7, <2>9
      <3> QED
        BY <1>5, <2>9, <3>1 DEF CoversSoFar
    <2> QED
      BY <1>5, <2>8, <2>9
  <1> QED
    BY <1>5, <1>12, <1>13 DEF MovedSoFar

\* The transaction that takes the step, or whose turn ends, keeps its own account.
LEMMA OwnProgress ==
    ASSUME IInv, IInv', Books, Progress, NEW t \in Txns, Step(t) \/ Call(t) \/ StatementFails(t)
    PROVE  (MovedSoFar(t) /\ TookSoFar(t) /\ CoversSoFar(t))'
  <1>1. CASE EndTxn(t)
    BY <1>1, IdleProgress DEF EndTxn, IInv, TypeOK
  <1>2. CASE CommitTxn(t) \/ RefuseBasket(t) \/ DeadlockVictim(t) \/ StatementFails(t)
    BY <1>1, <1>2 DEF CommitTxn, RefuseBasket, DeadlockVictim, StatementFails, Rollback
  <1> QED
    BY <1>2, UnstockedProgress, GateProgress, ResolveProgress, CascadeProgress, TakeProgress,
       RowsProgress, MoveProgress, CallProgress DEF Step

LEMMA OthersProgress ==
    ASSUME IInv, IInv', Books, NEW t \in Txns, Step(t) \/ Call(t) \/ StatementFails(t)
    PROVE  \A x \in Txns \ {t} : Undisturbed(x)
  BY LockingBooks, TakeBooks, MoveBooks, CommitBooks, RollbackBooks, CallBooks
     DEF Step, RefuseBasket, DeadlockVictim, StatementFails

LEMMA ProgressPreserved == IInv /\ Books /\ Progress /\ [Next]_vars => Progress'
  <1> SUFFICES ASSUME IInv, Books, Progress, [Next]_vars, NEW x \in Txns
               PROVE  (MovedSoFar(x) /\ TookSoFar(x) /\ CoversSoFar(x))'
    BY DEF Progress
  <1>0. IInv'
    BY NextPreserves
  <1>1. ASSUME NEW t \in Txns, Step(t) \/ Call(t) \/ StatementFails(t)
        PROVE  (MovedSoFar(x) /\ TookSoFar(x) /\ CoversSoFar(x))'
    <2>1. CASE x = t
      BY <1>0, <1>1, <2>1, OwnProgress
    <2>2. CASE x # t
      BY <1>0, <1>1, <2>2, OthersProgress, ProgressStays
    <2> QED
      BY <2>1, <2>2
  <1>2. CASE Crash
    <2>1. txn'[x] = Idle
      BY <1>2 DEF Crash
    <2> QED
      BY <2>1, IdleProgress
  <1>3. ASSUME NEW n \in StockLevels,
               \/ \E u \in Units : AdjustInventory(u, n)
               \/ \E S \in SUBSET Units : EnsureProductInventory(S, n)
        PROVE  (MovedSoFar(x) /\ TookSoFar(x) /\ CoversSoFar(x))'
    <2>1. /\ UNCHANGED << rsv, claimed, txn, lock, rowLock, stockLock, undo >>
          /\ \A v \in Units : lock[v] # None => stock'[v] = stock[v]
      BY <1>3, CorrectionSeen
    <2>2. Undisturbed(x)
      BY <2>1, ConstantsAssumption DEF Undisturbed
    <2> QED
      BY <2>2, ProgressStays
  <1>4. CASE UNCHANGED vars
    <2>1. Undisturbed(x)
      BY <1>4 DEF vars, Undisturbed
    <2> QED
      BY <2>1, ProgressStays
  <1> QED
    BY <1>1, <1>2, <1>3, <1>4 DEF Next

-----------------------------------------------------------------------------
(* Inventory implements OrderStock: every step is invisible to others, a    *)
(* correction of a sellable count, or one whole operation at its COMMIT.    *)

LEMMA AtomicInit == Init => Atomic!Init
  <1> SUFFICES ASSUME Init PROVE Atomic!Init
    OBVIOUS
  <1>1. \A u \in Units : CommittedStock(u) = stock[u]
    BY DEF Init, CommittedStock
  <1>2. \A u \in Units : CommittedStock(u) =
            [avail |-> IF u \in DOMAIN InitialStock THEN InitialStock[u] ELSE 0,
             reserved |-> 0, sold |-> 0]
    BY <1>1 DEF Init
  <1>3. \A o \in Orders : \A u \in Units :
            CommittedRow(o, u).active = 0 /\ CommittedRow(o, u).committed = 0
    BY DEF Init, CommittedRow, NoRow
  <1> QED
    BY <1>2, <1>3 DEF Atomic!Init

LEMMA InvisibleStutters == ASSUME Invisible PROVE UNCHANGED Atomic!vars
  <1>1. [u \in Units |-> CommittedStock(u)]' = [u \in Units |-> CommittedStock(u)]
    BY DEF Invisible
  <1>2. [o \in Orders |-> [u \in Units |-> [active |-> CommittedRow(o, u).active,
                                            committed |-> CommittedRow(o, u).committed]]]'
        = [o \in Orders |-> [u \in Units |-> [active |-> CommittedRow(o, u).active,
                                              committed |-> CommittedRow(o, u).committed]]]
    BY DEF Invisible
  <1> QED
    BY <1>1, <1>2 DEF Atomic!vars

LEMMA CorrectionIsAtomic ==
    ASSUME IInv, Books, NEW n \in StockLevels,
           \/ \E u \in Units : AdjustInventory(u, n)
           \/ \E S \in SUBSET Units : EnsureProductInventory(S, n)
    PROVE  Atomic!Correct
  <1>1. /\ UNCHANGED << rsv, claimed, txn, lock, rowLock, stockLock, undo >>
        /\ \A v \in Units :
             /\ stock'[v].reserved = stock[v].reserved /\ stock'[v].sold = stock[v].sold
             /\ lock[v] # None => stock'[v] = stock[v]
    BY CorrectionSeen
  <1>2. \A v \in Units : /\ CommittedStock(v)'.reserved = CommittedStock(v).reserved
                         /\ CommittedStock(v)'.sold = CommittedStock(v).sold
                         /\ \A o \in Orders : CommittedRow(o, v)' = CommittedRow(o, v)
    BY <1>1 DEF CommittedStock, CommittedRow
  <1>3. [o \in Orders |-> [u \in Units |-> [active |-> CommittedRow(o, u).active,
                                            committed |-> CommittedRow(o, u).committed]]]'
        = [o \in Orders |-> [u \in Units |-> [active |-> CommittedRow(o, u).active,
                                              committed |-> CommittedRow(o, u).committed]]]
    BY <1>2
  <1>4. \A v \in Units :
          /\ [u \in Units |-> CommittedStock(u)]'[v].reserved
                = [u \in Units |-> CommittedStock(u)][v].reserved
          /\ [u \in Units |-> CommittedStock(u)]'[v].sold
                = [u \in Units |-> CommittedStock(u)][v].sold
    BY <1>2
  <1> QED
    BY <1>3, <1>4 DEF Atomic!Correct

\* What the others see of the rows of t's order before its COMMIT: the images of the rows
\* t has locked, and the other rows as they are, which nobody else is changing.
LEMMA OwnView ==
    ASSUME IInv, Books, NEW t \in Txns, AtWork(t), NEW u \in Units
    PROVE  /\ lock[u] = t => /\ CommittedStock(u) = undo[t][u].stock
                             /\ CommittedRow(txn[t].order, u) = undo[t][u].row
           /\ lock[u] # t => CommittedRow(txn[t].order, u) = rsv[txn[t].order][u]
           /\ \A p \in Orders : p # txn[t].order /\ lock[u] = t => CommittedRow(p, u) = rsv[p][u]
  <1>0. t # None
    BY ConstantsAssumption
  <1>1. CASE lock[u] = t
    BY <1>0, <1>1 DEF CommittedStock, CommittedRow
  <1>2. CASE lock[u] = None
    BY <1>0, <1>2 DEF CommittedRow
  <1>3. CASE lock[u] \in Txns \ {t}
    <2>1. PICK x \in Txns \ {t} : x = lock[u]
      BY <1>3
    <2>2. txn[x].at \notin {"none", "rows"} /\ Idle.at = "none"
      BY <1>3, <2>1, ConstantsAssumption DEF Books, LocksAreUsed, Idle
    <2>3. AtWork(x)
      BY <2>1, <2>2 DEF Books, Stage, AtWork
    <2>4. txn[t].order # txn[x].order
      BY <2>3, Separate
    <2> QED
      BY <2>1, <2>4 DEF CommittedRow
  <1> QED
    BY <1>1, <1>2, <1>3 DEF IInv, TypeOK

\* COMMIT of release, commit or restock: on every row the whole operation has taken place.
LEMMA CommitMoves ==
    ASSUME IInv, IInv', Books, Progress, NEW t \in Txns, CommitTxn(t), txn[t].at = "units",
           NEW u \in Units, NEW o \in Orders, o = txn[t].order,
           NEW s, NEW r, s = CommittedStock(u), r = CommittedRow(o, u)
    PROVE  /\ s \in Stock /\ r \in Row
           /\ txn[t].op = "release" =>
                /\ CommittedStock(u)' = [avail |-> s.avail + r.active,
                                         reserved |-> s.reserved - r.active, sold |-> s.sold]
                /\ CommittedRow(o, u)'.active = 0 /\ CommittedRow(o, u)'.committed = r.committed
           /\ txn[t].op = "commit" =>
                /\ CommittedStock(u)' = [avail |-> s.avail, reserved |-> s.reserved - r.active,
                                         sold |-> s.sold + r.active]
                /\ CommittedRow(o, u)'.active = 0
                /\ CommittedRow(o, u)'.committed = r.committed + r.active
           /\ txn[t].op = "restock" =>
                /\ CommittedStock(u)' = [avail |-> s.avail + r.active + r.committed,
                                         reserved |-> s.reserved - r.active,
                                         sold |-> s.sold - r.committed]
                /\ CommittedRow(o, u)'.active = 0 /\ CommittedRow(o, u)'.committed = 0
  <1>1. /\ s \in Stock /\ r \in Row
        /\ s.avail \in Nat /\ s.reserved \in Nat /\ s.sold \in Nat
        /\ r.active \in Nat /\ r.committed \in Nat
        /\ r.active <= s.reserved /\ r.committed <= s.sold
    BY SeenTypes, RowFits DEF Books, Stock, Row
  <1>2. AtWork(t) /\ MovedSoFar(t) /\ txn[t].todo = {}
        /\ txn[t].op \in {"release", "commit", "restock"}
    BY RowsFacts DEF AtWork, Progress, CommitTxn, Done
  <1>3. CASE lock[u] = t
    <2>1. stock[u] = NewStock(txn[t].op, s, r) /\ rsv[o][u] = NewRow(txn[t].op, r)
      BY <1>2, <1>3, OwnView DEF MovedSoFar
    <2>2. CommittedStock(u)' = NewStock(txn[t].op, s, r)
          /\ CommittedRow(o, u)' = NewRow(txn[t].op, r)
      BY <1>3, <2>1, CommitBooks
    <2>3. CASE txn[t].op = "release"
      BY <1>1, <2>2, <2>3, ExactMoves DEF NewStock, NewRow, ReleasedRow
    <2>4. CASE txn[t].op = "commit"
      BY <1>1, <2>2, <2>4, ExactMoves DEF NewStock, NewRow, CommittedOf
    <2>5. CASE txn[t].op = "restock"
      BY <1>1, <2>2, <2>5, ExactMoves DEF NewStock, NewRow, RestockedRow, NoRow
    <2> QED
      BY <1>1, <1>2, <2>3, <2>4, <2>5
  <1>4. CASE lock[u] # t
    <2>1. CommittedStock(u)' = s /\ CommittedRow(o, u)' = r
      BY <1>4, CommitBooks
    <2>2. ~Selected(txn[t].op, r)
      BY <1>2, <1>4, OwnView DEF MovedSoFar
    <2>3. r.active = 0 /\ (txn[t].op = "restock" => r.committed = 0)
      BY <1>1, <2>2 DEF Selected
    <2>4. s = [avail |-> s.avail, reserved |-> s.reserved, sold |-> s.sold]
      BY <1>1 DEF Stock
    <2> QED
      BY <1>1, <2>1, <2>3, <2>4
  <1> QED
    BY <1>1, <1>3, <1>4

\* A COMMIT leaves the rows of other orders as they are seen.
LEMMA CommitKeepsOthers ==
    ASSUME IInv, IInv', Books, NEW t \in Txns, CommitTxn(t), NEW u \in Units, NEW p \in Orders,
           p # txn[t].order
    PROVE  CommittedRow(p, u)' = CommittedRow(p, u)
  <1>1. AtWork(t)
    <2>1. Idle.at = "none"
      BY DEF Idle
    <2> QED
      BY <2>1 DEF CommitTxn, Done, Books, Stage, AtWork
  <1>2. CASE lock[u] = t
    <2>1. CommittedRow(p, u)' = rsv[p][u]
      BY <1>2, CommitBooks
    <2> QED
      BY <1>1, <1>2, <2>1, OwnView
  <1>3. CASE lock[u] # t
    BY <1>3, CommitBooks
  <1> QED
    BY <1>2, <1>3

LEMMA MovesAreAtomic ==
    ASSUME IInv, IInv', Books, Progress, NEW t \in Txns, CommitTxn(t), txn[t].at = "units"
    PROVE  \E o \in Orders : Atomic!Release(o) \/ Atomic!Sell(o) \/ Atomic!Restock(o)
  <1>1. PICK o \in Orders : o = txn[t].order
    BY RowsFacts
  <1>2. PICK view, rows :
          /\ view = [u \in Units |-> CommittedStock(u)]
          /\ rows = [p \in Orders |-> [u \in Units |->
                       [active |-> CommittedRow(p, u).active,
                        committed |-> CommittedRow(p, u).committed]]]
    OBVIOUS
  <1>3. /\ \A u \in Units : view[u] = CommittedStock(u)
        /\ \A p \in Orders : \A u \in Units :
             /\ rows[p][u].active = CommittedRow(p, u).active
             /\ rows[p][u].committed = CommittedRow(p, u).committed
    BY <1>2
  <1>4. PICK view2, rows2 :
          /\ view2 = [u \in Units |-> CommittedStock(u)']
          /\ rows2 = [p \in Orders |-> [u \in Units |->
                       [active |-> CommittedRow(p, u)'.active,
                        committed |-> CommittedRow(p, u)'.committed]]]
    OBVIOUS
  <1>5. \A p \in Orders \ {o} : rows2[p] = rows[p]
    BY <1>1, <1>2, <1>4, CommitKeepsOthers
  <1>6. rows \in [Orders -> [Units -> [active : Nat, committed : Nat]]]
    BY <1>2, SeenTypes DEF Row
  <1>7. txn[t].op \in {"release", "commit", "restock"}
    BY RowsFacts
  <1>8. CASE txn[t].op = "release"
    <2>1. \A u \in Units : /\ CommittedStock(u)' = [avail |-> view[u].avail + rows[o][u].active,
                                                    reserved |-> view[u].reserved - rows[o][u].active,
                                                    sold |-> view[u].sold]
                           /\ CommittedRow(o, u)'.active = 0
                           /\ CommittedRow(o, u)'.committed = rows[o][u].committed
      BY <1>1, <1>3, <1>8, CommitMoves
    <2>2. view2 = [u \in Units |-> [avail |-> view[u].avail + rows[o][u].active,
                                    reserved |-> view[u].reserved - rows[o][u].active,
                                    sold |-> view[u].sold]]
      BY <1>4, <2>1
    <2>3. rows2[o] = [u \in Units |-> [active |-> 0, committed |-> rows[o][u].committed]]
      BY <1>4, <2>1
    <2>4. rows2 = [rows EXCEPT ![o] = [u \in Units |-> [active |-> 0,
                                                       committed |-> rows[o][u].committed]]]
      BY <1>4, <1>5, <1>6, <2>3
    <2>5. Atomic!Release(o)
      BY <1>2, <1>4, <2>2, <2>4 DEF Atomic!Release
    <2> QED
      BY <2>5
  <1>9. CASE txn[t].op = "commit"
    <2>1. \A u \in Units : /\ CommittedStock(u)' = [avail |-> view[u].avail,
                                                    reserved |-> view[u].reserved - rows[o][u].active,
                                                    sold |-> view[u].sold + rows[o][u].active]
                           /\ CommittedRow(o, u)'.active = 0
                           /\ CommittedRow(o, u)'.committed
                                = rows[o][u].committed + rows[o][u].active
      BY <1>1, <1>3, <1>9, CommitMoves
    <2>2. view2 = [u \in Units |-> [avail |-> view[u].avail,
                                    reserved |-> view[u].reserved - rows[o][u].active,
                                    sold |-> view[u].sold + rows[o][u].active]]
      BY <1>4, <2>1
    <2>3. rows2[o] = [u \in Units |-> [active |-> 0,
                                       committed |-> rows[o][u].committed + rows[o][u].active]]
      BY <1>4, <2>1
    <2>4. rows2 = [rows EXCEPT ![o] = [u \in Units |-> [active |-> 0,
                                        committed |-> rows[o][u].committed + rows[o][u].active]]]
      BY <1>4, <1>5, <1>6, <2>3
    <2>5. Atomic!Sell(o)
      BY <1>2, <1>4, <2>2, <2>4 DEF Atomic!Sell
    <2> QED
      BY <2>5
  <1>10. CASE txn[t].op = "restock"
    <2>1. \A u \in Units : /\ CommittedStock(u)' =
                                [avail |-> view[u].avail + rows[o][u].active + rows[o][u].committed,
                                 reserved |-> view[u].reserved - rows[o][u].active,
                                 sold |-> view[u].sold - rows[o][u].committed]
                           /\ CommittedRow(o, u)'.active = 0
                           /\ CommittedRow(o, u)'.committed = 0
      BY <1>1, <1>3, <1>10, CommitMoves
    <2>2. view2 = [u \in Units |->
                      [avail |-> view[u].avail + rows[o][u].active + rows[o][u].committed,
                       reserved |-> view[u].reserved - rows[o][u].active,
                       sold |-> view[u].sold - rows[o][u].committed]]
      BY <1>4, <2>1
    <2>3. rows2[o] = [u \in Units |-> [active |-> 0, committed |-> 0]]
      BY <1>4, <2>1
    <2>4. rows2 = [rows EXCEPT ![o] = [u \in Units |-> [active |-> 0, committed |-> 0]]]
      BY <1>4, <1>5, <1>6, <2>3
    <2>5. Atomic!Restock(o)
      BY <1>2, <1>4, <2>2, <2>4 DEF Atomic!Restock
    <2> QED
      BY <2>5
  <1> QED
    BY <1>7, <1>8, <1>9, <1>10

\* COMMIT of reserve: the basket is held, whole when SQL decides.
LEMMA CommitHolds ==
    ASSUME IInv, IInv', Books, Progress, NEW t \in Txns, CommitTxn(t), txn[t].at = "commit",
           NEW u \in Units, NEW o \in Orders, o = txn[t].order
    PROVE  /\ CommittedRow(o, u) = NoRow
           /\ CommittedRow(o, u)'.active = rsv[o][u].active
           /\ CommittedRow(o, u)'.committed = 0
           /\ rsv[o][u].active \in Atomic!Wanted(o, u)
           /\ rsv[o][u].active <= CommittedStock(u).avail
           /\ CommittedStock(u)' = TakenFrom(CommittedStock(u), rsv[o][u].active)
  <1>1. txn[t].op = "reserve"
    BY DEF Books, Stage, CommitTxn
  <1>2. /\ AtWork(t) /\ TookSoFar(t) /\ CommittedRow(o, u) = NoRow
        /\ CommittedStock(u) \in Stock
    BY <1>1, SeenTypes DEF AtWork, Progress, Books, OwnOrder
  <1>3. CASE lock[u] = t
    BY <1>1, <1>2, <1>3, OwnView, CommitBooks DEF TookSoFar
  <1>4. CASE lock[u] # t
    <2>1. rsv[o][u].active = 0 /\ rsv[o][u].committed = 0 /\ rsv[o][u] = NoRow
      BY <1>1, <1>2, <1>4 DEF TookSoFar, NoRow
    <2>2. CommittedStock(u)' = CommittedStock(u) /\ CommittedRow(o, u)' = NoRow
      BY <1>2, <1>4, CommitBooks
    <2>3. 0 \in Atomic!Wanted(o, u) /\ 0 <= CommittedStock(u).avail
          /\ CommittedStock(u) = TakenFrom(CommittedStock(u), 0)
      BY <1>2 DEF Atomic!Wanted, Stock, TakenFrom
    <2> QED
      BY <1>2, <2>1, <2>2, <2>3
  <1> QED
    BY <1>3, <1>4

LEMMA HoldIsAtomic ==
    ASSUME IInv, IInv', Books, Progress, Authoritative => OwnRows,
           NEW t \in Txns, CommitTxn(t), txn[t].at = "commit"
    PROVE  \E o \in Orders : Atomic!Hold(o)
  <1>1. PICK o \in Orders : o = txn[t].order
    BY DEF CommitTxn, Books, Stage, IInv, PointsAtLine
  <1>2. PICK view, rows :
          /\ view = [u \in Units |-> CommittedStock(u)]
          /\ rows = [p \in Orders |-> [u \in Units |->
                       [active |-> CommittedRow(p, u).active,
                        committed |-> CommittedRow(p, u).committed]]]
    OBVIOUS
  <1>3. PICK view2, rows2 :
          /\ view2 = [u \in Units |-> CommittedStock(u)']
          /\ rows2 = [p \in Orders |-> [u \in Units |->
                       [active |-> CommittedRow(p, u)'.active,
                        committed |-> CommittedRow(p, u)'.committed]]]
    OBVIOUS
  <1>4. \A p \in Orders \ {o} : rows2[p] = rows[p]
    BY <1>1, <1>2, <1>3, CommitKeepsOthers
  <1>5. rows \in [Orders -> [Units -> [active : Nat, committed : Nat]]]
    BY <1>2, SeenTypes DEF Row
  <1>6. PICK take : take = [u \in Units |-> rows2[o][u].active]
    OBVIOUS
  <1>7. \A u \in Units : /\ rows[o][u] = [active |-> 0, committed |-> 0]
                         /\ rows2[o][u] = [active |-> take[u], committed |-> 0]
                         /\ take[u] = rsv[o][u].active
    BY <1>1, <1>2, <1>3, <1>6, CommitHolds DEF NoRow
  <1>8. \A u \in Units : /\ take[u] \in Atomic!Wanted(o, u) /\ take[u] <= view[u].avail
                         /\ view2[u] = [avail |-> view[u].avail - take[u],
                                        reserved |-> view[u].reserved + take[u],
                                        sold |-> view[u].sold]
    <2> SUFFICES ASSUME NEW u \in Units
                 PROVE  /\ take[u] \in Atomic!Wanted(o, u) /\ take[u] <= view[u].avail
                        /\ view2[u] = [avail |-> view[u].avail - take[u],
                                       reserved |-> view[u].reserved + take[u],
                                       sold |-> view[u].sold]
      OBVIOUS
    <2>1. /\ rsv[o][u].active \in Atomic!Wanted(o, u)
          /\ rsv[o][u].active <= CommittedStock(u).avail
          /\ CommittedStock(u)' = TakenFrom(CommittedStock(u), rsv[o][u].active)
      BY <1>1, CommitHolds
    <2>2. view[u] = CommittedStock(u) /\ view2[u] = CommittedStock(u)'
          /\ take[u] = rsv[o][u].active
      BY <1>2, <1>3, <1>7
    <2> QED
      BY <2>1, <2>2 DEF TakenFrom
  <1>9. Authoritative => Atomic!Covers(o, take)
    <2> SUFFICES ASSUME Authoritative, NEW i \in DOMAIN Basket[o]
                 PROVE  \E k \in DOMAIN Basket[o][i].chain :
                           take[Basket[o][i].chain[k]] = Basket[o][i].qty
      BY DEF Atomic!Covers
    <2>1. Met(o, i)
      <3>1. txn[t].op = "reserve" /\ CoversSoFar(t)
        BY DEF CommitTxn, Books, Stage, Progress
      <3> QED
        BY <1>1, <3>1 DEF CoversSoFar
    <2> QED
      BY <1>7, <2>1, BasketLines DEF Met
  <1>10. rows2 = [rows EXCEPT ![o] = [u \in Units |-> [active |-> take[u], committed |-> 0]]]
    <2>1. rows2[o] = [u \in Units |-> [active |-> take[u], committed |-> 0]]
      BY <1>3, <1>7
    <2> QED
      BY <1>3, <1>4, <1>5, <2>1
  <1>11. view2 = [u \in Units |-> [avail |-> view[u].avail - take[u],
                                   reserved |-> view[u].reserved + take[u],
                                   sold |-> view[u].sold]]
    BY <1>3, <1>8
  <1>12. Atomic!Hold(o)
    BY <1>2, <1>3, <1>6, <1>7, <1>8, <1>9, <1>10, <1>11 DEF Atomic!Hold, Atomic!HoldsNothing
  <1> QED
    BY <1>12

LEMMA StepIsAtomic ==
    ASSUME IInv, Books, Progress, [Next]_vars, Authoritative => OwnRows
    PROVE  [Atomic!Next]_(Atomic!vars)
  <1>0. IInv'
    BY NextPreserves
  <1>1. ASSUME Invisible PROVE [Atomic!Next]_(Atomic!vars)
    BY <1>1, InvisibleStutters
  <1>2. ASSUME NEW t \in Txns, CommitTxn(t) PROVE [Atomic!Next]_(Atomic!vars)
    BY <1>0, <1>2, MovesAreAtomic, HoldIsAtomic DEF CommitTxn, Done, Atomic!Next
  <1>3. ASSUME NEW t \in Txns, Step(t) \/ Call(t) \/ StatementFails(t), ~CommitTxn(t)
        PROVE  Invisible
    BY <1>0, <1>3, LockingBooks, TakeBooks, MoveBooks, RollbackBooks, CallBooks
       DEF Step, RefuseBasket, DeadlockVictim, StatementFails
  <1>4. CASE Crash
    BY <1>0, <1>1, <1>4, CrashBooks
  <1>5. ASSUME NEW n \in StockLevels,
               \/ \E u \in Units : AdjustInventory(u, n)
               \/ \E S \in SUBSET Units : EnsureProductInventory(S, n)
        PROVE  [Atomic!Next]_(Atomic!vars)
    BY <1>5, CorrectionIsAtomic DEF Atomic!Next
  <1>6. CASE UNCHANGED vars
    <2>1. Invisible
      BY <1>6 DEF vars, Invisible, CommittedStock, CommittedRow
    <2> QED
      BY <1>1, <2>1
  <1> QED
    BY <1>1, <1>2, <1>3, <1>4, <1>5, <1>6 DEF Next

\* What other connections can see of the inventory changes only by whole operations: a
\* basket is held, released, sold or restocked on all its rows at once or not at all, and
\* when SQL decides it is held in full, line by line.  The assumption is needed for that
\* last part alone: without it a run shows a basket accepted and not covered.
THEOREM Serialized ==
    ASSUME Authoritative => OwnRows
    PROVE  Spec => Serializable
  <1>1. IInv /\ Books /\ Progress /\ [Next]_vars => [Atomic!Next]_(Atomic!vars)
    BY StepIsAtomic
  <1> QED
    BY <1>1, InitEstablishes, NextPreserves, BooksInit, BooksPreserved, ProgressInit,
       ProgressPreserved, AtomicInit, PTL DEF Spec, Serializable, Atomic!Spec

-----------------------------------------------------------------------------
(* Claims that stand.  Without a crash between the claim and its COMMIT, and *)
(* with holds that do not lapse, an order that has claimed its stock and not *)
(* given it back has every line in full on one row, or is being reserved.    *)

Standing(o, i) ==
    \E k \in DOMAIN Basket[o][i].chain :
        rsv[o][Basket[o][i].chain[k]].active + rsv[o][Basket[o][i].chain[k]].committed
            = Basket[o][i].qty

\* Nothing lapses, and only an order that is giving back releases or restocks.
NothingLapses ==
    /\ \A o \in Orders : \A u \in Units : rsv[o][u].lapse = FALSE
    /\ \A t \in Txns :
         /\ txn[t].lapse = FALSE
         /\ txn[t].op \in {"release", "restock"} => txn[t].order \in restored
         /\ \A u \in Units : undo[t][u].row.lapse = FALSE

ClaimsStand ==
    \A o \in claimed \ restored :
        BeingReserved(o) \/ \A i \in DOMAIN Basket[o] : Standing(o, i)

LEMMA LapsesInit == Init => NothingLapses /\ ClaimsStand
  <1> SUFFICES ASSUME Init PROVE NothingLapses /\ ClaimsStand
    OBVIOUS
  <1>1. NoRow.lapse = FALSE /\ Idle.lapse = FALSE /\ Idle.op = "idle"
    BY DEF NoRow, Idle
  <1>2. \A u \in Units : NoImage[u].row.lapse = FALSE
    BY <1>1 DEF NoImage
  <1> QED
    BY <1>1, <1>2 DEF Init, NothingLapses, ClaimsStand

\* The images a transaction takes or drops.
LEMMA ImagesDoNotLapse ==
    ASSUME IInv, NothingLapses, NEW t \in Txns, NEW u, LockAndKeepImage(t, u),
           txn[t].order \in Orders
    PROVE  \A x \in Txns : \A v \in Units : undo'[x][v].row.lapse = FALSE
  <1>1. u \in Units
    BY DEF LockAndKeepImage, Obtainable, IInv, TypeOK
  <1>2. CASE lock[u] = t
    BY <1>2 DEF LockAndKeepImage, NothingLapses
  <1>3. CASE lock[u] # t
    <2>1. undo' = [undo EXCEPT ![t][u] = [stock |-> stock[u], row |-> rsv[txn[t].order][u]]]
      BY <1>3 DEF LockAndKeepImage
    <2>2. \A x \in Txns : \A v \in Units :
             undo'[x][v] = IF x = t /\ v = u
                           THEN [stock |-> stock[u], row |-> rsv[txn[t].order][u]]
                           ELSE undo[x][v]
      BY <1>1, <2>1 DEF IInv, TypeOK
    <2> QED
      BY <1>1, <2>2 DEF NothingLapses
  <1> QED
    BY <1>2, <1>3

LEMMA EndedDoesNotLapse ==
    ASSUME IInv, NothingLapses, NEW t \in Txns, EndTxn(t), UNCHANGED restored,
           \A o \in Orders : \A u \in Units : rsv'[o][u].lapse = FALSE
    PROVE  NothingLapses'
  <1>1. Idle.lapse = FALSE /\ Idle.op = "idle" /\ NoRow.lapse = FALSE
    BY DEF NoRow, Idle
  <1>2. \A u \in Units : NoImage[u].row.lapse = FALSE
    BY <1>1 DEF NoImage
  <1>3. \A x \in Txns : IF x = t THEN txn'[x] = Idle /\ undo'[x] = NoImage
                                 ELSE txn'[x] = txn[x] /\ undo'[x] = undo[x]
    BY DEF EndTxn, IInv, TypeOK
  <1> QED
    BY <1>1, <1>2, <1>3 DEF NothingLapses

LEMMA StepDoesNotLapse ==
    ASSUME IInv, Books, NothingLapses, NEW t \in Txns, Step(t) \/ StatementFails(t)
    PROVE  NothingLapses'
  <1>0. UNCHANGED restored
    BY DEF Step, StatementFails, UnstockedLine, LockGating, ResolveCascade, LockCascade,
           TakeCascade, LockRows, ReleaseUnit, CommitUnit, RestockUnit, MoveUnit, CommitTxn,
           RefuseBasket, DeadlockVictim, Rollback
  <1>1. CASE UnstockedLine(t) \/ ResolveCascade(t) \/ LockRows(t)
    <2>1. UNCHANGED << rsv, undo >> /\ txn[t] \in Txn
      BY <1>1 DEF UnstockedLine, ResolveCascade, LockRows, IInv, TypeOK
    <2>2. /\ \A x \in Txns \ {t} : txn'[x] = txn[x]
          /\ txn'[t].op = txn[t].op /\ txn'[t].order = txn[t].order /\ txn'[t].lapse = txn[t].lapse
      <3>1. CASE UnstockedLine(t)
        <4>1. PICK r : r = IF Authoritative THEN [txn[t] EXCEPT !.at = "abort"] ELSE NextLine(t)
          OBVIOUS
        <4>2. r.op = txn[t].op /\ r.order = txn[t].order /\ r.lapse = txn[t].lapse
          BY <2>1, <4>1 DEF NextLine, Txn
        <4>3. txn' = [txn EXCEPT ![t] = r]
          BY <3>1, <4>1 DEF UnstockedLine
        <4> QED
          BY <4>2, <4>3 DEF IInv, TypeOK
      <3>2. CASE ResolveCascade(t)
        BY <2>1, <3>2 DEF ResolveCascade, Txn, IInv, TypeOK
      <3>3. CASE LockRows(t)
        BY <2>1, <3>3 DEF LockRows, Txn, IInv, TypeOK
      <3> QED
        BY <1>1, <3>1, <3>2, <3>3
    <2> QED
      BY <1>0, <2>1, <2>2 DEF NothingLapses
  <1>2. CASE LockGating(t) \/ LockCascade(t)
    <2>1. UNCHANGED rsv /\ txn[t] \in Txn /\ \E u : LockAndKeepImage(t, u)
          /\ txn[t].at \in {"gate", "lock"}
      BY <1>2 DEF LockGating, LockCascade, IInv, TypeOK
    <2>2. /\ \A x \in Txns \ {t} : txn'[x] = txn[x]
          /\ txn'[t].op = txn[t].op /\ txn'[t].order = txn[t].order /\ txn'[t].lapse = txn[t].lapse
      BY <1>2, <2>1 DEF LockGating, LockCascade, GoTo, IInv, TypeOK, Txn
    <2>3. \A x \in Txns : \A v \in Units : undo'[x][v].row.lapse = FALSE
      BY <2>1, LineFacts, ImagesDoNotLapse
    <2> QED
      BY <1>0, <2>1, <2>2, <2>3 DEF NothingLapses
  <1>3. CASE TakeCascade(t)
    <2>1. PICK o, qty : o = txn[t].order /\ qty = LineOf(t).qty
      OBVIOUS
    <2>2. txn[t] \in Txn /\ o \in Orders /\ UNCHANGED undo
      BY <1>3, <2>1, LineFacts DEF TakeCascade, IInv, TypeOK
    <2>3. /\ \A x \in Txns \ {t} : txn'[x] = txn[x]
          /\ txn'[t].op = txn[t].op /\ txn'[t].order = txn[t].order /\ txn'[t].lapse = txn[t].lapse
      BY <1>3, <2>2 DEF TakeCascade, NextLine, IInv, TypeOK, Txn
    <2>4. rsv' = [rsv EXCEPT ![o] = [u \in Units |->
                    IF u \in txn[t].todo /\ Taken(o, u, qty) > 0
                    THEN [active |-> Taken(o, u, qty), committed |-> rsv[o][u].committed,
                          lapse |-> txn[t].lapse]
                    ELSE rsv[o][u]]]
      BY <1>3, <2>1 DEF TakeCascade
    <2>5. \A p \in Orders : \A u \in Units : rsv'[p][u] = rsv[p][u] \/ rsv'[p][u].lapse = txn[t].lapse
      BY <2>2, <2>4 DEF IInv, TypeOK
    <2> QED
      BY <1>0, <2>2, <2>3, <2>5 DEF NothingLapses
  <1>4. CASE ReleaseUnit(t) \/ CommitUnit(t) \/ RestockUnit(t)
    <2>1. PICK o, u : o = txn[t].order /\ u = Lowest(txn[t].todo)
      OBVIOUS
    <2>2. /\ txn[t].at = "units" /\ LockAndKeepImage(t, u)
          /\ txn' = [txn EXCEPT ![t].todo = @ \ {u}]
          /\ \E r : rsv' = [rsv EXCEPT ![o][u] = r] /\ r.lapse = FALSE
      <3>1. PICK r : r = NewRow(txn[t].op, rsv[o][u])
        OBVIOUS
      <3>2. r.lapse = FALSE
        BY <3>1 DEF NewRow, ReleasedRow, CommittedOf, RestockedRow, NoRow
      <3>3. rsv' = [rsv EXCEPT ![o][u] = r]
        BY <1>4, <2>1, <3>1 DEF ReleaseUnit, CommitUnit, RestockUnit, MoveUnit, NewRow
      <3> QED
        BY <1>4, <2>1, <3>2, <3>3 DEF ReleaseUnit, CommitUnit, RestockUnit, MoveUnit
    <2>3. txn[t] \in Txn /\ o \in Orders /\ u \in Units
      BY <2>1, <2>2, RowsFacts, LockKeepsSeen
    <2>4. /\ \A x \in Txns \ {t} : txn'[x] = txn[x]
          /\ txn'[t].op = txn[t].op /\ txn'[t].order = txn[t].order /\ txn'[t].lapse = txn[t].lapse
      BY <2>2, <2>3 DEF IInv, TypeOK, Txn
    <2>5. \A p \in Orders : \A v \in Units : rsv'[p][v] = rsv[p][v] \/ rsv'[p][v].lapse = FALSE
      BY <2>2, <2>3 DEF IInv, TypeOK
    <2>6. \A x \in Txns : \A v \in Units : undo'[x][v].row.lapse = FALSE
      BY <2>1, <2>2, <2>3, ImagesDoNotLapse
    <2> QED
      BY <1>0, <2>4, <2>5, <2>6 DEF NothingLapses
  <1>5. CASE CommitTxn(t)
    BY <1>0, <1>5, EndedDoesNotLapse DEF CommitTxn, NothingLapses
  <1>6. CASE Rollback(t)
    <2>1. \A o \in Orders : \A u \in Units : rsv'[o][u] \in {rsv[o][u], undo[t][u].row}
      BY <1>6 DEF Rollback
    <2>2. \A o \in Orders : \A u \in Units : rsv'[o][u].lapse = FALSE
      BY <2>1 DEF NothingLapses
    <2> QED
      BY <1>0, <1>6, <2>2, EndedDoesNotLapse DEF Rollback
  <1> QED
    BY <1>1, <1>2, <1>3, <1>4, <1>5, <1>6 DEF Step, StatementFails, RefuseBasket, DeadlockVictim

LEMMA CallDoesNotLapse ==
    ASSUME IInv, NothingLapses, TRUE \notin Lapses, NEW t \in Txns, Call(t)
    PROVE  NothingLapses' /\ \A o \in Orders : ~StartSweep(t, o)
  <1>1. \A o \in Orders : ~StartSweep(t, o)
    <2>1. \A o \in Orders, u \in Units : CommittedRow(o, u).lapse = FALSE
      BY DEF NothingLapses, CommittedRow, IInv, TypeOK
    <2> QED
      BY <2>1 DEF StartSweep
  <1>2. PICK o \in Orders : \/ \E lapse \in Lapses : StartReserve(t, o, lapse)
                            \/ StartRestore(t, o) \/ StartCommit(t, o)
    BY <1>1 DEF Call
  <1>3. txn \in [Txns -> Txn] /\ UNCHANGED << rsv, undo >> /\ restored \subseteq restored'
    BY <1>2 DEF StartReserve, StartRestore, StartCommit, IInv, TypeOK
  <1>4. /\ \A x \in Txns \ {t} : txn'[x] = txn[x]
        /\ txn'[t].lapse = FALSE
        /\ txn'[t].op \in {"release", "restock"} => txn'[t].order \in restored'
    <2>1. ASSUME NEW lapse \in Lapses, StartReserve(t, o, lapse)
          PROVE  /\ \A x \in Txns \ {t} : txn'[x] = txn[x]
                 /\ txn'[t].lapse = FALSE /\ txn'[t].op = "reserve"
      BY <1>3, <2>1, ConstantsAssumption DEF StartReserve
    <2>2. CASE StartRestore(t, o)
      BY <1>3, <2>2 DEF StartRestore, Begin
    <2>3. CASE StartCommit(t, o)
      BY <1>3, <2>3 DEF StartCommit, Begin
    <2> QED
      BY <1>2, <2>1, <2>2, <2>3
  <1> QED
    BY <1>1, <1>3, <1>4 DEF NothingLapses

\* Selling what is reserved does not change what the order has of a row.
LEMMA StandsStill ==
    ASSUME IInv, ClaimsStand, NEW o \in claimed \ restored,
           BeingReserved(o) => BeingReserved(o)',
           ~BeingReserved(o) => \A u \in Units :
              rsv'[o][u].active + rsv'[o][u].committed = rsv[o][u].active + rsv[o][u].committed
    PROVE  BeingReserved(o)' \/ \A i \in DOMAIN Basket[o] : Standing(o, i)'
  <1>1. o \in Orders
    BY DEF IInv, TypeOK
  <1>2. CASE BeingReserved(o)
    BY <1>2
  <1>3. CASE ~BeingReserved(o)
    <2>1. \A i \in DOMAIN Basket[o] : Standing(o, i)
      BY <1>3 DEF ClaimsStand
    <2> QED
      BY <1>1, <1>3, <2>1, BasketLines DEF Standing
  <1> QED
    BY <1>2, <1>3

\* The rows of an order nobody reserves, under a step of one transaction.
LEMMA WorkStands ==
    ASSUME IInv, IInv', Books, NothingLapses, ClaimsStand, NEW t \in Txns,
           \/ UnstockedLine(t) \/ LockGating(t) \/ ResolveCascade(t) \/ LockCascade(t)
           \/ TakeCascade(t) \/ LockRows(t) \/ ReleaseUnit(t) \/ CommitUnit(t) \/ RestockUnit(t)
    PROVE  ClaimsStand'
  <1>0. txn[t] \in Txn /\ UNCHANGED << claimed, restored >>
    BY DEF IInv, TypeOK, UnstockedLine, LockGating, ResolveCascade, LockCascade,
           TakeCascade, LockRows, ReleaseUnit, CommitUnit, RestockUnit, MoveUnit
  <1>1. /\ txn[t].at \in {"gate", "cascade", "lock", "rows", "units"}
        /\ txn'[t].op = txn[t].op /\ txn'[t].order = txn[t].order
        /\ \A x \in Txns \ {t} : txn'[x] = txn[x]
    <2>1. CASE UnstockedLine(t)
      <3>1. PICK r : r = IF Authoritative THEN [txn[t] EXCEPT !.at = "abort"] ELSE NextLine(t)
        OBVIOUS
      <3>2. r.op = txn[t].op /\ r.order = txn[t].order
        BY <1>0, <3>1 DEF NextLine, Txn
      <3> QED
        BY <2>1, <3>1, <3>2 DEF UnstockedLine, IInv, TypeOK
    <2>2. CASE LockGating(t)
      BY <1>0, <2>2 DEF LockGating, GoTo, Txn, IInv, TypeOK
    <2>3. CASE ResolveCascade(t)
      BY <1>0, <2>3 DEF ResolveCascade, Txn, IInv, TypeOK
    <2>4. CASE LockCascade(t)
      BY <2>4 DEF LockCascade
    <2>5. CASE TakeCascade(t)
      BY <1>0, <2>5 DEF TakeCascade, NextLine, Txn, IInv, TypeOK
    <2>6. CASE LockRows(t)
      BY <1>0, <2>6 DEF LockRows, Txn, IInv, TypeOK
    <2>7. CASE ReleaseUnit(t) \/ CommitUnit(t) \/ RestockUnit(t)
      <3>1. PICK L : txn' = [txn EXCEPT ![t].todo = L] /\ txn[t].at = "units"
        BY <2>7 DEF ReleaseUnit, CommitUnit, RestockUnit, MoveUnit
      <3> QED
        BY <1>0, <3>1 DEF Txn, IInv, TypeOK
    <2> QED
      BY <2>1, <2>2, <2>3, <2>4, <2>5, <2>6, <2>7
  <1> SUFFICES ASSUME NEW o \in claimed \ restored
               PROVE  BeingReserved(o)' \/ \A i \in DOMAIN Basket[o] : Standing(o, i)'
    BY <1>0 DEF ClaimsStand
  <1>2. BeingReserved(o) => BeingReserved(o)'
    BY <1>1 DEF BeingReserved
  <1>3. ASSUME ~BeingReserved(o), NEW u \in Units
        PROVE  rsv'[o][u].active + rsv'[o][u].committed = rsv[o][u].active + rsv[o][u].committed
    <2>0. o \in Orders
      BY DEF IInv, TypeOK
    <2>1. CASE UNCHANGED rsv
      BY <2>1
    <2>2. CASE TakeCascade(t)
      <3>1. txn[t].order # o
        BY <1>3, <2>2, LineFacts DEF TakeCascade, BeingReserved
      <3> QED
        BY <2>0, <2>2, <3>1 DEF TakeCascade, IInv, TypeOK
    <2>3. CASE ReleaseUnit(t) \/ CommitUnit(t) \/ RestockUnit(t)
      <3>1. txn[t].order \in Orders /\ txn[t].at = "units"
        BY <2>3, RowsFacts DEF ReleaseUnit, CommitUnit, RestockUnit, MoveUnit
      <3>2. CASE txn[t].order # o
        <4>1. \E v, r : rsv' = [rsv EXCEPT ![txn[t].order][v] = r]
          BY <2>3 DEF ReleaseUnit, CommitUnit, RestockUnit, MoveUnit
        <4> QED
          BY <2>0, <3>1, <3>2, <4>1 DEF IInv, TypeOK
      <3>3. CASE txn[t].order = o
        <4>1. txn[t].op = "commit"
          BY <3>1, <3>3, RowsFacts DEF NothingLapses
        <4>2. PICK v, r : r = CommittedOf(rsv[o][v]) /\ rsv' = [rsv EXCEPT ![o][v] = r]
                          /\ v = Lowest(txn[t].todo)
          BY <2>3, <3>3, <4>1 DEF ReleaseUnit, CommitUnit, RestockUnit, MoveUnit
        <4>3. rsv'[o][u] = IF u = v THEN CommittedOf(rsv[o][u]) ELSE rsv[o][u]
          BY <2>0, <4>2 DEF IInv, TypeOK
        <4>4. rsv[o][u].active \in Nat /\ rsv[o][u].committed \in Nat
          BY <2>0, SeenTypes DEF Row
        <4> QED
          BY <4>3, <4>4 DEF CommittedOf
      <3> QED
        BY <3>2, <3>3
    <2> QED
      BY <2>1, <2>2, <2>3
         DEF UnstockedLine, LockGating, ResolveCascade, LockCascade, LockRows
  <1> QED
    BY <1>2, <1>3, StandsStill

LEMMA CommitStands ==
    ASSUME IInv, Books, Progress, ClaimsStand, Authoritative, OwnRows, NEW t \in Txns, CommitTxn(t)
    PROVE  ClaimsStand'
  <1>1. /\ \A x \in Txns \ {t} : txn'[x] = txn[x]
        /\ UNCHANGED << rsv, claimed, restored >>
    BY DEF CommitTxn, EndTxn, IInv, TypeOK
  <1> SUFFICES ASSUME NEW o \in claimed \ restored
               PROVE  BeingReserved(o)' \/ \A i \in DOMAIN Basket[o] : Standing(o, i)'
    BY <1>1 DEF ClaimsStand
  <1>2. CASE txn[t].op = "reserve" /\ txn[t].order = o
    <2>0. o \in Orders
      BY DEF IInv, TypeOK
    <2>1. txn[t].at = "commit" /\ CoversSoFar(t) /\ TookSoFar(t)
      BY <1>2 DEF CommitTxn, Done, Books, Stage, Progress
    <2>2. \A u \in Units : rsv[o][u].committed = 0 /\ rsv[o][u].active \in Nat
      BY <1>2, <2>0, <2>1, SeenTypes DEF TookSoFar, NoRow, Row
    <2>3. \A i \in DOMAIN Basket[o] : Met(o, i)
      BY <1>2, <2>1 DEF CoversSoFar
    <2>4. \A u \in Units : rsv[o][u].active + rsv[o][u].committed = rsv[o][u].active
      BY <2>2
    <2>5. \A i \in DOMAIN Basket[o] : Standing(o, i)
      BY <2>0, <2>3, <2>4, BasketLines DEF Met, Standing
    <2> QED
      BY <1>1, <2>5 DEF Standing
  <1>3. CASE ~(txn[t].op = "reserve" /\ txn[t].order = o)
    <2>1. BeingReserved(o) => BeingReserved(o)'
      BY <1>1, <1>3 DEF BeingReserved
    <2> QED
      BY <1>1, <2>1, StandsStill
  <1> QED
    BY <1>2, <1>3

LEMMA RollbackStands ==
    ASSUME IInv, Books, Progress, NothingLapses, ClaimsStand, Authoritative, NEW t \in Txns, Rollback(t)
    PROVE  ClaimsStand'
  <1>1. /\ \A x \in Txns \ {t} : txn'[x] = txn[x]
        /\ claimed' = (IF txn[t].op = "reserve" THEN claimed \ {txn[t].order} ELSE claimed)
        /\ UNCHANGED restored
    BY DEF Rollback, EndTxn, IInv, TypeOK
  <1> SUFFICES ASSUME NEW o \in claimed \ restored, ~(txn[t].op = "reserve" /\ txn[t].order = o)
               PROVE  BeingReserved(o)' \/ \A i \in DOMAIN Basket[o] : Standing(o, i)'
    BY <1>1 DEF ClaimsStand
  <1>2. BeingReserved(o) => BeingReserved(o)'
    BY <1>1 DEF BeingReserved
  <1>3. o \in Orders /\ o # None
    BY ConstantsAssumption DEF IInv, TypeOK
  <1>4. ASSUME NEW u \in Units
        PROVE  rsv'[o][u].active + rsv'[o][u].committed = rsv[o][u].active + rsv[o][u].committed
    <2>1. CASE ~(lock[u] = t /\ txn[t].order = o)
      BY <1>3, <2>1 DEF Rollback
    <2>2. CASE lock[u] = t /\ txn[t].order = o
      <3>1. txn[t].at \notin {"none", "rows"} /\ Idle.at = "none" /\ t # None
        BY <2>2, ConstantsAssumption DEF Books, LocksAreUsed, Idle
      <3>2. txn[t].op = "commit" /\ txn[t].at = "units"
        BY <2>2, <3>1 DEF Books, Stage, NothingLapses
      <3>3. rsv[o][u] = CommittedOf(undo[t][u].row) /\ rsv'[o][u] = undo[t][u].row
        BY <1>3, <2>2, <3>2 DEF Progress, MovedSoFar, NewRow, Rollback
      <3>4. undo[t][u].row.active \in Nat /\ undo[t][u].row.committed \in Nat
        BY DEF IInv, TypeOK, Image, Row
      <3> QED
        BY <3>3, <3>4 DEF CommittedOf
    <2> QED
      BY <2>1, <2>2
  <1> QED
    BY <1>2, <1>4, StandsStill

LEMMA CallStands ==
    ASSUME IInv, ClaimsStand, NEW t \in Txns, Call(t)
    PROVE  ClaimsStand'
  <1>1. PICK p \in Orders : \/ \E lapse \in Lapses : StartReserve(t, p, lapse)
                            \/ StartRestore(t, p) \/ StartCommit(t, p) \/ StartSweep(t, p)
    BY DEF Call
  <1>2. /\ txn \in [Txns -> Txn] /\ txn[t] = Idle /\ Idle.op = "idle" /\ UNCHANGED rsv
        /\ restored \subseteq restored'
    <2>1. Idle.op = "idle"
      BY DEF Idle
    <2> QED
      BY <1>1, <2>1 DEF StartReserve, StartRestore, StartCommit, StartSweep, IInv, TypeOK
  <1>3. /\ \A x \in Txns \ {t} : txn'[x] = txn[x]
        /\ claimed' = claimed \/ (/\ claimed' = claimed \cup {p}
                                  /\ txn'[t].op = "reserve" /\ txn'[t].order = p)
    <2>1. ASSUME NEW lapse \in Lapses, StartReserve(t, p, lapse)
          PROVE  /\ \A x \in Txns \ {t} : txn'[x] = txn[x]
                 /\ claimed' = claimed \cup {p} /\ txn'[t].op = "reserve" /\ txn'[t].order = p
      BY <1>2, <2>1 DEF StartReserve
    <2>2. CASE StartRestore(t, p) \/ StartCommit(t, p) \/ StartSweep(t, p)
      BY <1>2, <2>2 DEF StartRestore, StartCommit, StartSweep, Begin
    <2> QED
      BY <1>1, <2>1, <2>2
  <1> SUFFICES ASSUME NEW o \in claimed' \ restored'
               PROVE  BeingReserved(o)' \/ \A i \in DOMAIN Basket[o] : Standing(o, i)'
    BY DEF ClaimsStand
  <1>4. CASE o \in claimed
    <2>1. BeingReserved(o) => BeingReserved(o)'
      BY <1>2, <1>3 DEF BeingReserved
    <2> QED
      BY <1>2, <1>4, <2>1, StandsStill
  <1>5. CASE o \notin claimed
    BY <1>3, <1>5 DEF BeingReserved
  <1> QED
    BY <1>4, <1>5

LEMMA LapsesPreserved ==
    ASSUME Authoritative, OwnRows, MayFail = FALSE, TRUE \notin Lapses
    PROVE  IInv /\ Books /\ Progress /\ NothingLapses /\ ClaimsStand /\ [Next]_vars
              => NothingLapses' /\ ClaimsStand'
  <1> SUFFICES ASSUME IInv, Books, Progress, NothingLapses, ClaimsStand, [Next]_vars
               PROVE  NothingLapses' /\ ClaimsStand'
    OBVIOUS
  <1>0. IInv'
    BY NextPreserves
  <1>1. ASSUME NEW t \in Txns, Step(t) PROVE NothingLapses' /\ ClaimsStand'
    BY <1>0, <1>1, StepDoesNotLapse, WorkStands, CommitStands, RollbackStands
       DEF Step, RefuseBasket, DeadlockVictim
  <1>2. ASSUME NEW t \in Txns, Call(t) PROVE NothingLapses' /\ ClaimsStand'
    BY <1>2, CallDoesNotLapse, CallStands
  <1>3. ~Crash /\ \A t \in Txns : ~StatementFails(t)
    BY DEF Crash, StatementFails
  <1>4. CASE UNCHANGED << rsv, txn, undo, claimed, restored >>
    <2>1. NothingLapses'
      BY <1>4 DEF NothingLapses
    <2>2. ASSUME NEW o \in claimed \ restored
          PROVE  BeingReserved(o)' \/ \A i \in DOMAIN Basket[o] : Standing(o, i)'
      BY <1>4, StandsStill DEF BeingReserved
    <2> QED
      BY <1>4, <2>1, <2>2 DEF ClaimsStand
  <1>5. ASSUME NEW n \in StockLevels,
               \/ \E u \in Units : AdjustInventory(u, n)
               \/ \E S \in SUBSET Units : EnsureProductInventory(S, n)
        PROVE  UNCHANGED << rsv, txn, undo, claimed, restored >>
    BY <1>5 DEF AdjustInventory, EnsureProductInventory
  <1>6. UNCHANGED vars => UNCHANGED << rsv, txn, undo, claimed, restored >>
    BY DEF vars
  <1> QED
    BY <1>1, <1>2, <1>3, <1>4, <1>5, <1>6 DEF Next

\* When SQL decides, an accepted basket is held in full, line by line, until it is given
\* back: admin corrections, other baskets, refusals and lost lock cycles in between take
\* nothing out of it.  The assumptions exclude what a run shows to break it: a process
\* that dies between the claim and its COMMIT, holds that expire, and baskets outside OwnRows.
THEOREM ClaimsAreCovered ==
    ASSUME Authoritative, OwnRows, MayFail = FALSE, TRUE \notin Lapses
    PROVE  Spec => []ClaimCoversEveryLine
  <1>1. IInv /\ Books /\ Progress /\ NothingLapses /\ ClaimsStand /\ [Next]_vars
           => NothingLapses' /\ ClaimsStand'
    BY LapsesPreserved
  <1>2. ClaimsStand => ClaimCoversEveryLine
    <2>1. \A o : Quiet(o) => ~BeingReserved(o)
      BY DEF Quiet, BeingReserved
    <2> QED
      BY <2>1 DEF ClaimsStand, ClaimCoversEveryLine, Standing
  <1> QED
    BY <1>1, <1>2, InitEstablishes, NextPreserves, BooksInit, BooksPreserved, ProgressInit,
       ProgressPreserved, LapsesInit, PTL DEF Spec
==============================================================================
