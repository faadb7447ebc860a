----------------------------- MODULE MCInventory ------------------------------
(* Small instances of Inventory for TLC. *)
EXTENDS Inventory, TLC

CONSTANTS o1, o2, t1, t2, poolA, shadeA, poolB

OneShadeTwoProducts ==
    o1 :> << [chain |-> << shadeA, poolA >>, qty |-> 1] >>
 @@ o2 :> << [chain |-> << shadeA, poolA >>, qty |-> 1], [chain |-> << poolB >>, qty |-> 1] >>

\* Two shades' lines of one product in one basket; only the pool has a row.
TwoLinesOfOneProduct ==
    o1 :> << [chain |-> << shadeA, poolA >>, qty |-> 1], [chain |-> << poolA >>, qty |-> 1] >>
 @@ o2 :> << [chain |-> << poolA >>, qty |-> 1] >>

\* 'inv-p-...' sorts before 'inv-v-...': the ids migration 012 gave its rows.  A
\* reserve locks the shade first, a delivery the pool: a cycle may form.
MigrationRank == poolA :> 1 @@ poolB :> 2 @@ shadeA :> 3

PlentyStock == poolA :> 2 @@ shadeA :> 1 @@ poolB :> 1
PoolOnlyStock == poolA :> 2
NoPoolBYet == poolA :> 2 @@ shadeA :> 1

\* Connections are interchangeable; used in runs of safety properties only.
TxnSymmetry == Permutations({t1, t2})
===============================================================================
