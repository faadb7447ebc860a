------------------------------ MODULE Inventory ------------------------------
(***************************************************************************)
(* The SQL inventory of backend/src/services/inventory.service.ts together *)
(* with the two order-level claims that call it, commitOrderStock and      *)
(* restoreOrderStock of fulfillment.service.ts.                            *)
(*                                                                         *)
(* Every multi-row operation is a PostgreSQL transaction that locks one    *)
(* row at a time (SELECT ... FOR UPDATE), so a transaction is a little     *)
(* program here: it holds the rows it has locked, keeps their images for   *)
(* a rollback, and may be chosen as the victim of a lock cycle.  Only one  *)
(* row moves in a step, and nobody else can touch it until the end.        *)
(***************************************************************************)
EXTENDS Integers, Sequences, FiniteSets, FiniteSetsExt

CONSTANTS
    Orders,         \* order ids
    Units,          \* inventory rows that may exist: a pool, a shade, a size
    Txns,           \* pooled database connections running a transaction
    None,           \* no transaction, no order
    Basket,         \* Basket[o]: order_items of o, sorted by product|shade|size
    Rank,           \* Rank[u]: position of the row's id under ORDER BY id
    InitialStock,   \* units provisioned by the migration, with their stock
    StockLevels,    \* absolute values an admin or a product save may enter
    Authoritative,  \* inventoryWriteTargets().sqlAuthoritative
    Lapses,         \* {FALSE}: holds carry no expires_at; TRUE \in it: they may
    MayFail         \* whether statements may fail and the process may crash

\* A basket line names the fallback chain (size, shade, pool) and a quantity.
Line == [chain : Seq(Units), qty : Nat \ {0}]

ASSUME ConstantsAssumption ==
    /\ IsFiniteSet(Orders)
    /\ None \notin Orders \cup Txns
    /\ Basket \in [Orders -> Seq(Line)]
    /\ \A o \in Orders : \A i \in DOMAIN Basket[o] : Basket[o][i].chain # << >>
    /\ Rank \in [Units -> Nat]
    /\ \A u, v \in Units : Rank[u] = Rank[v] => u = v
    /\ InitialStock \in [DOMAIN InitialStock -> Nat]
    /\ DOMAIN InitialStock \subseteq Units
    /\ StockLevels \subseteq Nat
    /\ Authoritative \in BOOLEAN
    /\ Lapses \subseteq BOOLEAN
    /\ MayFail \in BOOLEAN

VARIABLES
    present,    \* inventory rows that exist
    stock,      \* available_stock, reserved_stock, sold_stock of each row
    rsv,        \* ACTIVE and COMMITTED quantity per (order, row), and whether
                \* the ACTIVE row carries an expires_at
    supplied,   \* total of the MIGRATE and ADJUST rows of inventory_transactions
    claimed,    \* orders with stock_committed = true
    restored,   \* orders with stock_restored = true
    delivered,  \* orders for which commitOrderReservations has been called
    txn,        \* the program counter and locals of each transaction
    lock,       \* holder of each inventory row lock
    rowLock,    \* holder of the lock on an order's reservation rows
    stockLock,  \* holder of withStockLock
    undo        \* before-images of the rows a transaction has locked

vars == << present, stock, rsv, supplied, claimed, restored, delivered,
           txn, lock, rowLock, stockLock, undo >>

Stock == [avail : Nat, reserved : Nat, sold : Nat]
Row   == [active : Nat, committed : Nat, lapse : BOOLEAN]
Image == [stock : Stock, row : Row]

Ops   == {"idle", "reserve", "release", "commit", "restock"}
Steps == {"none", "gate", "cascade", "lock", "rows", "units", "commit", "abort"}

NoStock == [avail |-> 0, reserved |-> 0, sold |-> 0]
NoRow   == [active |-> 0, committed |-> 0, lapse |-> FALSE]
NoImage == [u \in Units |-> [stock |-> NoStock, row |-> NoRow]]
Idle    == [op |-> "idle", order |-> None, at |-> "none", line |-> 0,
            todo |-> {}, lapse |-> FALSE]

Txn == [op : Ops, order : Orders \cup {None}, at : Steps, line : Nat,
        todo : SUBSET Units, lapse : BOOLEAN]

TypeOK ==
    /\ present \subseteq Units
    /\ stock \in [Units -> Stock]
    /\ rsv \in [Orders -> [Units -> Row]]
    /\ supplied \in [Units -> Int]
    /\ claimed \subseteq Orders
    /\ restored \subseteq Orders
    /\ delivered \subseteq Orders
    /\ txn \in [Txns -> Txn]
    /\ lock \in [Units -> Txns \cup {None}]
    /\ rowLock \in [Orders -> Txns \cup {None}]
    /\ stockLock \in Txns \cup {None}
    /\ undo \in [Txns -> [Units -> Image]]

Init ==
    LET initial(u) == IF u \in DOMAIN InitialStock THEN InitialStock[u] ELSE 0 IN
    /\ present = DOMAIN InitialStock
    /\ stock = [u \in Units |-> [avail |-> initial(u), reserved |-> 0, sold |-> 0]]
    /\ rsv = [o \in Orders |-> [u \in Units |-> NoRow]]
    /\ supplied = [u \in Units |-> initial(u)]
    /\ claimed = {} /\ restored = {} /\ delivered = {}
    /\ txn = [t \in Txns |-> Idle]
    /\ lock = [u \in Units |-> None]
    /\ rowLock = [o \in Orders |-> None]
    /\ stockLock = None
    /\ undo = [t \in Txns |-> NoImage]

-----------------------------------------------------------------------------
(* What a statement sees.                                                  *)

MinOf(a, b) == IF a <= b THEN a ELSE b

\* A row under a lock is read by others as it was before the lock was taken.
CommittedStock(u) ==
    IF lock[u] = None THEN stock[u] ELSE undo[lock[u]][u].stock

CommittedRow(o, u) ==
    IF lock[u] # None /\ txn[lock[u]].order = o THEN undo[lock[u]][u].row
                                                 ELSE rsv[o][u]

\* resolveGatingUnit: the most specific level of the line that has a row.
Resolvable(line) == \E i \in DOMAIN line.chain : line.chain[i] \in present

GatingUnit(line) ==
    line.chain[CHOOSE i \in DOMAIN line.chain :
                  /\ line.chain[i] \in present
                  /\ \A j \in DOMAIN line.chain : line.chain[j] \in present => i <= j]

\* resolveCascadeUnits: the gating row and the product-level pool.
CascadeUnits(line) ==
    {GatingUnit(line), line.chain[Len(line.chain)]} \cap present

\* The row of S that ORDER BY id locks next.
Lowest(S) == CHOOSE u \in S : \A v \in S : Rank[u] <= Rank[v]

LineOf(t) == Basket[txn[t].order][txn[t].line]

Unowned(t) == {u \in txn[t].todo : lock[u] # t}

\* FOR UPDATE locks a row that exists and that nobody else has locked.
Obtainable(t, u) == u \in present /\ lock[u] \in {None, t}

LockAndKeepImage(t, u) ==
    /\ Obtainable(t, u)
    /\ lock' = [lock EXCEPT ![u] = t]
    /\ undo' = IF lock[u] = t THEN undo
               ELSE [undo EXCEPT ![t][u] = [stock |-> stock[u],
                                            row |-> rsv[txn[t].order][u]]]

GoTo(t, step) == txn' = [txn EXCEPT ![t].at = step]

-----------------------------------------------------------------------------
(* reserveStockForOrder, entered from commitOrderStock.                    *)

\* The claim stock_committed: false -> true is a statement of its own, made
\* under withStockLock before the transaction begins.
StartReserve(t, o, lapse) ==
    /\ txn[t] = Idle /\ stockLock = None
    /\ o \notin claimed
    /\ Basket[o] # << >>
    /\ claimed' = claimed \cup {o}
    /\ stockLock' = t
    /\ txn' = [txn EXCEPT ![t] = [op |-> "reserve", order |-> o, at |-> "gate",
                                  line |-> 1, todo |-> {}, lapse |-> lapse]]
    /\ UNCHANGED << present, stock, rsv, supplied, restored, delivered, lock, rowLock, undo >>

NextLine(t) ==
    IF txn[t].line < Len(Basket[txn[t].order])
    THEN [txn[t] EXCEPT !.line = @ + 1, !.at = "gate", !.todo = {}]
    ELSE [txn[t] EXCEPT !.at = "commit", !.todo = {}]

\* Mutant: a line without a row is skipped even when SQL decides.
UnstockedLineSkipped(t) ==
    /\ txn[t].at = "gate" /\ ~Resolvable(LineOf(t))
    /\ txn' = [txn EXCEPT ![t] = NextLine(t)]
    /\ UNCHANGED << present, stock, rsv, supplied, claimed, restored, delivered,
                    lock, rowLock, stockLock, undo >>

\* A line with no row at any level refuses the basket, or is skipped while
\* SQL is only the mirror.
UnstockedLine(t) ==
    /\ txn[t].at = "gate" /\ ~Resolvable(LineOf(t))
    /\ txn' = [txn EXCEPT ![t] = IF Authoritative THEN [txn[t] EXCEPT !.at = "abort"]
                                                  ELSE NextLine(t)]
    /\ UNCHANGED << present, stock, rsv, supplied, claimed, restored, delivered,
                    lock, rowLock, stockLock, undo >>

\* Mutant: the gating row is locked and never compared with the quantity.
LockGatingUnchecked(t) ==
    /\ txn[t].at = "gate" /\ Resolvable(LineOf(t))
    /\ LockAndKeepImage(t, GatingUnit(LineOf(t)))
    /\ GoTo(t, "cascade")
    /\ UNCHANGED << present, stock, rsv, supplied, claimed, restored, delivered, rowLock, stockLock >>

\* The gating row is locked and only then compared with the quantity.
LockGating(t) ==
    /\ txn[t].at = "gate" /\ Resolvable(LineOf(t))
    /\ LockAndKeepImage(t, GatingUnit(LineOf(t)))
    /\ GoTo(t, IF Authoritative /\ stock[GatingUnit(LineOf(t))].avail < LineOf(t).qty
               THEN "abort" ELSE "cascade")
    /\ UNCHANGED << present, stock, rsv, supplied, claimed, restored, delivered, rowLock, stockLock >>

\* The cascade resolves the gating row again, without a lock.
ResolveCascade(t) ==
    /\ txn[t].at = "cascade"
    /\ txn' = [txn EXCEPT ![t].todo = CascadeUnits(LineOf(t)), ![t].at = "lock"]
    /\ UNCHANGED << present, stock, rsv, supplied, claimed, restored, delivered,
                    lock, rowLock, stockLock, undo >>

LockCascade(t) ==
    /\ txn[t].at = "lock" /\ Unowned(t) # {}
    /\ LockAndKeepImage(t, Lowest(Unowned(t)))
    /\ UNCHANGED << present, stock, rsv, supplied, claimed, restored, delivered,
                    txn, rowLock, stockLock >>

\* Mutant: the pool gives what was asked, not what it has.
TakenUnclamped(o, u, qty) == IF rsv[o][u].active > 0 THEN 0 ELSE qty

\* What a line takes from a row: nothing when the order already holds the row.
Taken(o, u, qty) ==
    IF rsv[o][u].active > 0 THEN 0 ELSE MinOf(stock[u].avail, qty)

TakeCascade(t) ==
    LET o == txn[t].order
        qty == LineOf(t).qty IN
    /\ txn[t].at = "lock" /\ Unowned(t) = {}
    /\ stock' = [u \in Units |->
                    IF u \in txn[t].todo
                    THEN [avail |-> stock[u].avail - Taken(o, u, qty),
                          reserved |-> stock[u].reserved + Taken(o, u, qty),
                          sold |-> stock[u].sold]
                    ELSE stock[u]]
    /\ rsv' = [rsv EXCEPT ![o] = [u \in Units |->
                    IF u \in txn[t].todo /\ Taken(o, u, qty) > 0
                    THEN [active |-> Taken(o, u, qty), committed |-> rsv[o][u].committed,
                          lapse |-> txn[t].lapse]
                    ELSE rsv[o][u]]]
    /\ txn' = [txn EXCEPT ![t] = NextLine(t)]
    /\ UNCHANGED << present, supplied, claimed, restored, delivered, lock, rowLock, stockLock, undo >>

-----------------------------------------------------------------------------
(* releaseOrderReservations, commitOrderReservations, restockReturnedOrder *)

Begin(t, o, op) ==
    txn' = [txn EXCEPT ![t] = [op |-> op, order |-> o, at |-> "rows", line |-> 0,
                               todo |-> {}, lapse |-> FALSE]]

BeingReserved(o) == \E t \in Txns : txn[t].op = "reserve" /\ txn[t].order = o

\* restoreOrderStock: the claim stock_restored under withStockLock; the status
\* it reads decides between the two ways back.
StartRestore(t, o) ==
    /\ txn[t] = Idle /\ stockLock = None
    /\ o \in claimed \ restored
    /\ restored' = restored \cup {o}
    /\ stockLock' = t
    /\ \E op \in {"release", "restock"} :
          /\ o \in delivered => op = "restock"
          /\ Begin(t, o, op)
    /\ UNCHANGED << present, stock, rsv, supplied, claimed, delivered, lock, rowLock, undo >>

\* applyShippingStatus(DELIVERED): outside withStockLock, once per order, and
\* only for a parcel booked after commitOrderStock has returned.
StartCommit(t, o) ==
    /\ txn[t] = Idle
    /\ o \in claimed \ delivered /\ ~BeingReserved(o)
    /\ delivered' = delivered \cup {o}
    /\ Begin(t, o, "commit")
    /\ UNCHANGED << present, stock, rsv, supplied, claimed, restored, lock, rowLock, stockLock, undo >>

\* releaseExpiredReservations: an order with a lapsed hold, outside the lock.
StartSweep(t, o) ==
    /\ txn[t] = Idle
    /\ \E u \in Units : CommittedRow(o, u).active > 0 /\ CommittedRow(o, u).lapse
    /\ Begin(t, o, "release")
    /\ UNCHANGED << present, stock, rsv, supplied, claimed, restored, delivered,
                    lock, rowLock, stockLock, undo >>

\* Mutant: a return selects the COMMITTED rows alone.
SelectedOneState(op, row) == IF op = "restock" THEN row.committed > 0 ELSE row.active > 0

\* The reservation rows the operation selects.
Selected(op, row) == row.active > 0 \/ (op = "restock" /\ row.committed > 0)

LockRows(t) ==
    LET o == txn[t].order IN
    /\ txn[t].at = "rows" /\ rowLock[o] = None
    /\ rowLock' = [rowLock EXCEPT ![o] = t]
    /\ txn' = [txn EXCEPT ![t].at = "units",
                          ![t].todo = {u \in Units : Selected(txn[t].op, rsv[o][u])}]
    /\ UNCHANGED << present, stock, rsv, supplied, claimed, restored, delivered,
                    lock, stockLock, undo >>

\* One reservation: lock its inventory row, move the counters, close the row.
MoveUnit(t, op, newStock(_, _), newRow(_)) ==
    LET o == txn[t].order
        u == Lowest(txn[t].todo) IN
    /\ txn[t].op = op /\ txn[t].at = "units" /\ txn[t].todo # {}
    /\ LockAndKeepImage(t, u)
    /\ stock' = [stock EXCEPT ![u] = newStock(stock[u], rsv[o][u])]
    /\ rsv' = [rsv EXCEPT ![o][u] = newRow(rsv[o][u])]
    /\ txn' = [txn EXCEPT ![t].todo = @ \ {u}]
    /\ UNCHANGED << present, supplied, claimed, restored, delivered, rowLock, stockLock >>

\* Mutant: the sale forgets to take the units out of reserved_stock.
SoldTwice(s, r) == [avail |-> s.avail, reserved |-> s.reserved, sold |-> s.sold + r.active]

Released(s, r) ==
    LET n == MinOf(r.active, s.reserved) IN
    [avail |-> s.avail + n, reserved |-> s.reserved - n, sold |-> s.sold]

SoldOff(s, r) ==
    LET n == MinOf(r.active, s.reserved) IN
    [avail |-> s.avail, reserved |-> s.reserved - n, sold |-> s.sold + n]

Restocked(s, r) ==
    LET n == MinOf(r.active, s.reserved)
        m == MinOf(r.committed, s.sold) IN
    [avail |-> s.avail + n + m, reserved |-> s.reserved - n, sold |-> s.sold - m]

\* Mutants: a released, and a restocked, row is not closed.
ReleasedRowKept(r) == r
RestockedRowKept(r) == [active |-> 0, committed |-> r.committed, lapse |-> FALSE]

ReleasedRow(r)  == [active |-> 0, committed |-> r.committed, lapse |-> FALSE]
CommittedOf(r)  == [active |-> 0, committed |-> r.committed + r.active, lapse |-> FALSE]
RestockedRow(r) == NoRow

ReleaseUnit(t) == MoveUnit(t, "release", Released, ReleasedRow)
CommitUnit(t)  == MoveUnit(t, "commit", SoldOff, CommittedOf)
RestockUnit(t) == MoveUnit(t, "restock", Restocked, RestockedRow)

-----------------------------------------------------------------------------
(* The end of a transaction.                                               *)

Done(t) == txn[t].at = "commit" \/ (txn[t].at = "units" /\ txn[t].todo = {})

EndTxn(t) ==
    /\ txn' = [txn EXCEPT ![t] = Idle]
    /\ lock' = [u \in Units |-> IF lock[u] = t THEN None ELSE lock[u]]
    /\ rowLock' = [o \in Orders |-> IF rowLock[o] = t THEN None ELSE rowLock[o]]
    /\ stockLock' = IF stockLock = t THEN None ELSE stockLock
    /\ undo' = [undo EXCEPT ![t] = NoImage]

CommitTxn(t) ==
    /\ txn[t] # Idle /\ Done(t)
    /\ EndTxn(t)
    /\ UNCHANGED << present, stock, rsv, supplied, claimed, restored, delivered >>

\* Mutant: COMMIT on the error path.
RollbackCommits(t) ==
    /\ claimed' = IF txn[t].op = "reserve" /\ Authoritative THEN claimed \ {txn[t].order}
                  ELSE claimed
    /\ EndTxn(t)
    /\ UNCHANGED << present, stock, rsv, supplied, restored, delivered >>

\* Mutant: the catch forgets ROLLBACK, and the connection goes back to the pool
\* with its transaction open.
RollbackNeverSent(t) ==
    /\ txn' = [txn EXCEPT ![t] = Idle]
    /\ stockLock' = IF stockLock = t THEN None ELSE stockLock
    /\ claimed' = IF txn[t].op = "reserve" /\ Authoritative THEN claimed \ {txn[t].order}
                  ELSE claimed
    /\ UNCHANGED << present, stock, rsv, supplied, restored, delivered, lock, rowLock, undo >>

\* ROLLBACK puts the images back; commitOrderStock then undoes its claim, but
\* only when SQL is authoritative.  restoreOrderStock and applyShippingStatus
\* ignore the failure and undo nothing.
Rollback(t) ==
    /\ stock' = [u \in Units |-> IF lock[u] = t THEN undo[t][u].stock ELSE stock[u]]
    /\ rsv' = [o \in Orders |->
                 [u \in Units |-> IF lock[u] = t /\ txn[t].order = o THEN undo[t][u].row
                                  ELSE rsv[o][u]]]
    /\ claimed' = IF txn[t].op = "reserve" /\ Authoritative THEN claimed \ {txn[t].order}
                  ELSE claimed
    /\ EndTxn(t)
    /\ UNCHANGED << present, supplied, restored, delivered >>

\* A shortfall: the whole basket is given up.
RefuseBasket(t) == txn[t].at = "abort" /\ Rollback(t)

\* The transaction that holds the lock t is waiting for.
WaitsFor(t) ==
    CASE txn[t].at = "gate" /\ Resolvable(LineOf(t)) -> lock[GatingUnit(LineOf(t))]
      [] txn[t].at = "lock" /\ Unowned(t) # {}       -> lock[Lowest(Unowned(t))]
      [] txn[t].at = "rows"                          -> rowLock[txn[t].order]
      [] txn[t].at = "units" /\ txn[t].todo # {}     -> lock[Lowest(txn[t].todo)]
      [] OTHER                                       -> None

InLockCycle(t) ==
    \E S \in SUBSET Txns :
        /\ t \in S /\ Cardinality(S) > 1
        /\ \A x \in S : WaitsFor(x) \in S \ {x}

\* PostgreSQL breaks a cycle by failing one of its members.
DeadlockVictim(t) == InLockCycle(t) /\ Rollback(t)

\* A statement fails (query timeout, lost connection): catch, ROLLBACK.
StatementFails(t) == MayFail /\ txn[t] # Idle /\ Rollback(t)

\* The process dies: every open transaction is rolled back by the server, the
\* session lock goes, and the claims made before BEGIN stay as they were.
Crash ==
    /\ MayFail /\ \E t \in Txns : txn[t] # Idle
    /\ stock' = [u \in Units |-> CommittedStock(u)]
    /\ rsv' = [o \in Orders |-> [u \in Units |-> CommittedRow(o, u)]]
    /\ txn' = [t \in Txns |-> Idle]
    /\ lock' = [u \in Units |-> None]
    /\ rowLock' = [o \in Orders |-> None]
    /\ stockLock' = None
    /\ undo' = [t \in Txns |-> NoImage]
    /\ UNCHANGED << present, supplied, claimed, restored, delivered >>

-----------------------------------------------------------------------------
(* Single-row operations.                                                  *)

\* adjustInventory: an absolute value, creating the row when it is missing.
AdjustInventory(u, n) ==
    /\ lock[u] = None
    /\ present' = present \cup {u}
    /\ stock' = [stock EXCEPT ![u].avail = n]
    /\ supplied' = [supplied EXCEPT ![u] = @ + (n - stock[u].avail)]
    /\ UNCHANGED << rsv, claimed, restored, delivered, txn, lock, rowLock, stockLock, undo >>

\* ensureProductInventory: rows that do not exist yet, existing ones untouched.
EnsureProductInventory(S, n) ==
    /\ ~(S \subseteq present)
    /\ present' = present \cup S
    /\ stock' = [u \in Units |-> IF u \in S \ present THEN [NoStock EXCEPT !.avail = n]
                                 ELSE stock[u]]
    /\ supplied' = [u \in Units |-> IF u \in S \ present THEN n ELSE supplied[u]]
    /\ UNCHANGED << rsv, claimed, restored, delivered, txn, lock, rowLock, stockLock, undo >>

-----------------------------------------------------------------------------
Step(t) ==
    \/ UnstockedLine(t) \/ LockGating(t) \/ ResolveCascade(t) \/ LockCascade(t)
    \/ TakeCascade(t) \/ LockRows(t) \/ ReleaseUnit(t) \/ CommitUnit(t)
    \/ RestockUnit(t) \/ CommitTxn(t) \/ RefuseBasket(t) \/ DeadlockVictim(t)

Call(t) ==
    \E o \in Orders :
        \/ \E lapse \in Lapses : StartReserve(t, o, lapse)
        \/ StartRestore(t, o) \/ StartCommit(t, o) \/ StartSweep(t, o)

Next ==
    \/ \E t \in Txns : Step(t) \/ Call(t) \/ StatementFails(t)
    \/ Crash
    \/ \E n \in StockLevels :
          \/ \E u \in Units : AdjustInventory(u, n)
          \/ \E S \in SUBSET Units : EnsureProductInventory(S, n)

Spec == Init /\ [][Next]_vars

\* PostgreSQL serves row-lock waiters in arrival order and runs its deadlock
\* detector for every blocked session, so a transaction whose next statement
\* is enabled again and again does execute it.  Nobody has to make a call.
FairSpec == Spec /\ \A t \in Txns : SF_vars(Step(t))

-----------------------------------------------------------------------------
(* Properties.                                                             *)

\* Every unit the audit ledger says was supplied (MIGRATE and ADJUST rows) is
\* on sale, reserved or sold: no interleaving, rollback or crash of reserve,
\* release, commit and restock invents or loses one.
Conservation ==
    \A u \in Units : stock[u].avail + stock[u].reserved + stock[u].sold = supplied[u]

Total(quantity) == MapThenSumSet(LAMBDA o : quantity[o], Orders)

\* runInventoryHealthChecks, 'reserved_stock drift': the counters maintained
\* step by step agree with the independent record kept in the reservation rows.
CountersMatchRows ==
    \A u \in Units :
        /\ stock[u].reserved = Total([o \in Orders |-> rsv[o][u].active])
        /\ stock[u].sold = Total([o \in Orders |-> rsv[o][u].committed])

\* All-or-nothing: an order whose claim was never made or was undone after a
\* refusal, an error or a lost lock cycle holds nothing on any row.
UnclaimedHoldsNothing ==
    \A o \in Orders \ claimed : \A u \in Units : rsv[o][u] = NoRow

Quiet(o) == \A t \in Txns : txn[t].order # o

\* An authoritative claim that stands means every line is held in full on one
\* of its levels, however admin corrections and other baskets interleaved with
\* the check: nothing is ever sold twice.
ClaimCoversEveryLine ==
    \A o \in claimed \ restored : Quiet(o) =>
        \A i \in DOMAIN Basket[o] :
            \E j \in DOMAIN Basket[o][i].chain :
                LET row == rsv[o][Basket[o][i].chain[j]] IN
                row.active + row.committed = Basket[o][i].qty

\* No row lock is held for ever: whatever blocks a transaction, a queue for a
\* row or a cycle of row locks, it ends, as deadlock victim if need be; and the
\* catch that follows gives every lock back.
EveryTransactionEnds == \A t \in Txns : txn[t] # Idle ~> txn[t] = Idle

\* The row-locking transactions look like atomic operations on whole orders.
Atomic == INSTANCE OrderStock WITH
    stock <- [u \in Units |-> CommittedStock(u)],
    rsv <- [o \in Orders |-> [u \in Units |->
               [active |-> CommittedRow(o, u).active,
                committed |-> CommittedRow(o, u).committed]]]

\* What other connections can see of the inventory changes only by whole
\* operations: a basket held entirely or not at all, an order released, sold or
\* restocked on all its rows at once, a unit's sellable count corrected.
Serializable == Atomic!Spec

-----------------------------------------------------------------------------
(* What comments and health checks of the code say and it does not do.     *)

\* resolveCascadeUnits: locking in a consistent order is what turns a potential
\* deadlock into one transaction simply waiting for the other.
NoLockCycle == \A t \in Txns : ~InLockCycle(t)

\* The cascade takes every line of a basket out of the product-level pool, as
\* the legacy write path does, so that the two stores keep agreeing.
PoolHoldsWholeBasket ==
    \A o \in claimed \ restored : Quiet(o) =>
        \A u \in Units :
            LET ofPool == {i \in DOMAIN Basket[o] :
                              Basket[o][i].chain[Len(Basket[o][i].chain)] = u} IN
            ofPool # {} /\ u \in present =>
                rsv[o][u].active + rsv[o][u].committed
                    = MapThenSumSet(LAMBDA i : Basket[o][i].qty, ofPool)

\* 'order holds stock with no reservation': an order marked as having taken its
\* stock has an ACTIVE row until it is delivered or its stock is put back.
ClaimedHoldsARow ==
    \A o \in claimed \ (restored \cup delivered) : Quiet(o) =>
        \E u \in Units : rsv[o][u].active > 0

\* 'finished order still holding stock' and 'delivered order still reserving':
\* once the call that ends an order's hold is over, no ACTIVE row is left.
FinishedHoldsNothing ==
    \A o \in restored \cup delivered : Quiet(o) =>
        \A u \in Units : rsv[o][u].active = 0

=============================================================================
