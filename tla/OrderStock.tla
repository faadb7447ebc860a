------------------------------ MODULE OrderStock ------------------------------
(***************************************************************************)
(* What inventory.service.ts promises to the rest of the program: stock    *)
(* moves between sellable, reserved and sold one whole order at a time.    *)
(* Inventory.tla, with its row locks, rollbacks and crashes, implements    *)
(* this specification.                                                     *)
(***************************************************************************)
EXTENDS Integers, Sequences

CONSTANTS Orders, Units, Basket, InitialStock, Authoritative

VARIABLES stock, rsv

vars == << stock, rsv >>

Init ==
    /\ stock = [u \in Units |->
                  [avail |-> IF u \in DOMAIN InitialStock THEN InitialStock[u] ELSE 0,
                   reserved |-> 0, sold |-> 0]]
    /\ rsv = [o \in Orders |-> [u \in Units |-> [active |-> 0, committed |-> 0]]]

HoldsNothing(o) == \A u \in Units : rsv[o][u] = [active |-> 0, committed |-> 0]

\* A quantity some line of the basket may take out of u.
Wanted(o, u) ==
    {0} \cup UNION {0 .. Basket[o][i].qty : i \in {j \in DOMAIN Basket[o] :
                        \E k \in DOMAIN Basket[o][j].chain : Basket[o][j].chain[k] = u}}

\* While SQL decides, every line is met in full on one of its levels.
Covers(o, take) ==
    \A i \in DOMAIN Basket[o] : \E k \in DOMAIN Basket[o][i].chain :
        take[Basket[o][i].chain[k]] = Basket[o][i].qty

\* reserveStockForOrder: all-or-nothing across every line.
Hold(o) ==
    /\ HoldsNothing(o)
    /\ LET take == [u \in Units |-> rsv'[o][u].active] IN
       /\ \A u \in Units : take[u] \in Wanted(o, u) /\ take[u] <= stock[u].avail
       /\ Authoritative => Covers(o, take)
       /\ stock' = [u \in Units |-> [avail |-> stock[u].avail - take[u],
                                     reserved |-> stock[u].reserved + take[u],
                                     sold |-> stock[u].sold]]
       /\ rsv' = [rsv EXCEPT ![o] = [u \in Units |-> [active |-> take[u], committed |-> 0]]]

\* releaseOrderReservations: what the order holds goes back on sale.
Release(o) ==
    /\ stock' = [u \in Units |-> [avail |-> stock[u].avail + rsv[o][u].active,
                                  reserved |-> stock[u].reserved - rsv[o][u].active,
                                  sold |-> stock[u].sold]]
    /\ rsv' = [rsv EXCEPT ![o] = [u \in Units |-> [active |-> 0,
                                                  committed |-> rsv[o][u].committed]]]

\* commitOrderReservations: what the order holds is sold, the rest untouched.
Sell(o) ==
    /\ stock' = [u \in Units |-> [avail |-> stock[u].avail,
                                  reserved |-> stock[u].reserved - rsv[o][u].active,
                                  sold |-> stock[u].sold + rsv[o][u].active]]
    /\ rsv' = [rsv EXCEPT ![o] = [u \in Units |-> [active |-> 0,
                                    committed |-> rsv[o][u].committed + rsv[o][u].active]]]

\* restockReturnedOrder: from whichever counter the units are in.
Restock(o) ==
    /\ stock' = [u \in Units |->
                    [avail |-> stock[u].avail + rsv[o][u].active + rsv[o][u].committed,
                     reserved |-> stock[u].reserved - rsv[o][u].active,
                     sold |-> stock[u].sold - rsv[o][u].committed]]
    /\ rsv' = [rsv EXCEPT ![o] = [u \in Units |-> [active |-> 0, committed |-> 0]]]

\* adjustInventory and ensureProductInventory: only the sellable count moves.
Correct ==
    /\ \A u \in Units : stock'[u].reserved = stock[u].reserved /\ stock'[u].sold = stock[u].sold
    /\ UNCHANGED rsv

Next == Correct \/ \E o \in Orders : Hold(o) \/ Release(o) \/ Sell(o) \/ Restock(o)

Spec == Init /\ [][Next]_vars

===============================================================================
