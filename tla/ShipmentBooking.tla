---------------------------- MODULE ShipmentBooking ----------------------------
(***************************************************************************)
(* Booking a parcel with the courier, once per order, and a van once per   *)
(* day (services/fulfillment, createShipmentForOrder, ensureWarehousePickup*)
(* and cancelShipmentForOrder).                                            *)
(*                                                                         *)
(* The courier has no transactions.  Each of its calls may be refused, may *)
(* be lost, or may be done with the answer lost.  A waybill is therefore   *)
(* drawn and stored before the parcel is created against it, so that a     *)
(* retry asks for the same parcel again; a lock of the order keeps a       *)
(* second booking away, and the process may die between any two steps.     *)
(* Weight, address and label are data: a booking they stop fails at Check. *)
(***************************************************************************)
EXTENDS Integers, FiniteSets

CONSTANTS
    Orders,       \* orders that are paid, or cash on delivery
    Workers,      \* calls that may be running at the same time
    None,         \* no worker, no order
    Limit,        \* attempt_count at which a booking is left to an operator
    MaxVans,      \* bound on the vans of the day
    Faults        \* what may go wrong besides the courier's answers

ASSUME BookingConstants ==
    /\ Limit \in Nat \ {0} /\ MaxVans \in Nat \ {0}
    /\ Faults \subseteq {"crash", "pickupTimeout"}
    /\ None \notin Orders \cup Workers

\* The n-th waybill drawn for an order; 0 is no waybill.
Numbers == 1 .. Limit

VARIABLES
    live,       \* orders that are not cancelled
    shipments,  \* the shipments row of each order
    shipping,   \* orders.shipping_status
    locks,      \* holder of withOrderShipmentLock, per order
    openPickup, \* today's OPEN row in shipment_pickup_requests exists
    job,        \* the call each worker is running
    drawn,      \* external: waybills handed out for each order
    parcels,    \* external: what became of the parcel of each waybill
    vans,       \* external: vans the courier will send today
    unheard     \* history: those of them whose request timed out

rows == << live, shipments, shipping, openPickup >>
courier == << drawn, parcels, vans, unheard >>
vars == << live, shipments, shipping, locks, openPickup, job, drawn, parcels, vans, unheard >>

NoShipment == [status |-> "none", waybill |-> 0, awb |-> 0, attempts |-> 0]
NoJob == [order |-> None, at |-> "idle", waybill |-> 0]

BookSteps == {"lock", "claim", "count", "check", "draw", "keep", "create", "assign", "note"}
PickupSteps == {"pickup", "van", "closePickup"}
RecallSteps == {"recall", "askCancel", "recalled", "noteRecall"}

TypeOK ==
    /\ live \subseteq Orders
    /\ shipments \in [Orders ->
          [status : {"none", "PENDING", "AWB_ASSIGNED", "IN_TRANSIT", "CANCELLED"},
           waybill : 0 .. Limit, awb : 0 .. Limit, attempts : 0 .. Limit]]
    /\ shipping \in [Orders -> {"NOT_SHIPPED", "AWB_ASSIGNED", "IN_TRANSIT", "CANCELLED"}]
    /\ locks \in [Orders -> Workers \cup {None}]
    /\ openPickup \in BOOLEAN
    /\ job \in [Workers -> [order : Orders \cup {None}, waybill : 0 .. Limit,
                            at : {"idle"} \cup BookSteps \cup PickupSteps \cup RecallSteps]]
    /\ drawn \in [Orders -> 0 .. Limit]
    /\ parcels \in [Orders -> [Numbers -> {"none", "manifested", "moving", "cancelled"}]]
    /\ vans \in 0 .. MaxVans /\ unheard \in 0 .. vans

Init ==
    /\ live = Orders
    /\ shipments = [o \in Orders |-> NoShipment]
    /\ shipping = [o \in Orders |-> "NOT_SHIPPED"]
    /\ locks = [o \in Orders |-> None]
    /\ openPickup = FALSE
    /\ job = [w \in Workers |-> NoJob]
    /\ drawn = [o \in Orders |-> 0]
    /\ parcels = [o \in Orders |-> [n \in Numbers |-> "none"]]
    /\ vans = 0 /\ unheard = 0

-----------------------------------------------------------------------------
(* Running a call.                                                         *)

Start(w, o, at) ==
    /\ job[w] = NoJob
    /\ job' = [job EXCEPT ![w] = [NoJob EXCEPT !.order = o, !.at = at]]

Go(w, at) == job' = [job EXCEPT ![w].at = at]

\* The call returns; the lock it holds is released.
Leave(w) ==
    /\ job' = [job EXCEPT ![w] = NoJob]
    /\ locks' = [o \in Orders |-> IF locks[o] = w THEN None ELSE locks[o]]

-----------------------------------------------------------------------------
(* createShipmentForOrder and bookShipmentForOrder.                        *)

Book(w, o) ==
    /\ Start(w, o, "lock")
    /\ UNCHANGED << rows, locks, courier >>

\* The try-lock, and the read of the order that follows it.
TakeLock(w) ==
    LET o == job[w].order IN
    /\ job[w].at = "lock"
    /\ IF locks[o] = None /\ o \in live
       THEN locks' = [locks EXCEPT ![o] = w] /\ Go(w, "claim")
       ELSE Leave(w)
    /\ UNCHANGED << rows, courier >>

\* Mutant: every attempt draws a waybill of its own.
StoredWaybillForgotten(o) == 0

\* The waybill a retry resumes with.
StoredWaybill(o) == shipments[o].waybill

\* Mutant: nobody counts how often the booking has failed.
GivenUpNever(o) == shipments[o].awb # 0

\* The existing row ends the call: it has its AWB, or has failed too often.
GivenUp(o) == shipments[o].awb # 0 \/ shipments[o].attempts >= Limit

\* INSERT ... ON CONFLICT DO NOTHING, or the row that is there.
Claim(w) ==
    LET o == job[w].order IN
    /\ job[w].at = "claim"
    /\ \/ /\ shipments[o] = NoShipment
          /\ shipments' = [shipments EXCEPT ![o].status = "PENDING"]
          /\ Go(w, "count") /\ UNCHANGED locks
       \/ /\ shipments[o] # NoShipment /\ GivenUp(o)
          /\ Leave(w) /\ UNCHANGED shipments
       \/ /\ shipments[o] # NoShipment /\ ~GivenUp(o)
          /\ job' = [job EXCEPT ![w].at = "count", ![w].waybill = StoredWaybill(o)]
          /\ UNCHANGED << shipments, locks >>
    /\ UNCHANGED << live, shipping, openPickup, courier >>

CountAttempt(w) ==
    /\ job[w].at = "count"
    /\ shipments' = [shipments EXCEPT ![job[w].order].attempts = @ + 1]
    /\ Go(w, "check")
    /\ UNCHANGED << live, shipping, openPickup, locks, courier >>

\* fail(): the row waits for the next attempt, whatever it said before.
FailBooking(w) ==
    /\ shipments' = [shipments EXCEPT ![job[w].order].status = "PENDING"]
    /\ Leave(w)

\* Address, serviceability and cash on delivery.
Check(w) ==
    /\ job[w].at = "check"
    /\ \/ Go(w, IF job[w].waybill = 0 THEN "draw" ELSE "create") /\ UNCHANGED << shipments, locks >>
       \/ FailBooking(w)
    /\ UNCHANGED << live, shipping, openPickup, courier >>

\* Mutant: the number is used first and stored with the parcel's AWB.
DrawUnsaved(w) ==
    LET o == job[w].order IN
    /\ job[w].at = "draw"
    /\ drawn' = [drawn EXCEPT ![o] = @ + 1]
    /\ job' = [job EXCEPT ![w].at = "create", ![w].waybill = drawn'[o]]
    /\ UNCHANGED << rows, locks, parcels, vans, unheard >>

\* A number is handed out and told, handed out and lost, or not handed out.
Draw(w) ==
    LET o == job[w].order IN
    /\ job[w].at = "draw"
    /\ \/ /\ drawn' = [drawn EXCEPT ![o] = @ + 1]
          /\ job' = [job EXCEPT ![w].at = "keep", ![w].waybill = drawn'[o]]
          /\ UNCHANGED << shipments, locks >>
       \/ /\ FailBooking(w)
          /\ \E lostNumbers \in 0 .. 1 : drawn' = [drawn EXCEPT ![o] = @ + lostNumbers]
    /\ UNCHANGED << live, shipping, openPickup, parcels, vans, unheard >>

KeepWaybill(w) ==
    /\ job[w].at = "keep"
    /\ shipments' = [shipments EXCEPT ![job[w].order].waybill = job[w].waybill]
    /\ Go(w, "create")
    /\ UNCHANGED << live, shipping, openPickup, locks, courier >>

\* Mutant: an answer without an error is taken for a created parcel.
CreateUnread(w) ==
    /\ job[w].at = "create"
    /\ Go(w, "assign")
    /\ UNCHANGED << rows, locks, courier >>

\* createShipment: the courier refuses a number it already has a parcel for.
Create(w) ==
    LET o == job[w].order
        n == job[w].waybill IN
    /\ job[w].at = "create"
    /\ \/ /\ parcels[o][n] = "none"
          /\ parcels' = [parcels EXCEPT ![o][n] = "manifested"]
          /\ \/ Go(w, "assign") /\ UNCHANGED << shipments, locks >>
             \/ FailBooking(w)
       \/ FailBooking(w) /\ UNCHANGED parcels
    /\ UNCHANGED << live, shipping, openPickup, drawn, vans, unheard >>

\* AWB and waybill, AWB_ASSIGNED, READY.
AssignAwb(w) ==
    LET n == job[w].waybill IN
    /\ job[w].at = "assign"
    /\ shipments' = [shipments EXCEPT ![job[w].order] =
                       [@ EXCEPT !.awb = n, !.waybill = n, !.status = "AWB_ASSIGNED"]]
    /\ Go(w, "note")
    /\ UNCHANGED << live, shipping, openPickup, locks, courier >>

NoteAwb(w) ==
    /\ job[w].at = "note"
    /\ shipping' = [shipping EXCEPT ![job[w].order] = "AWB_ASSIGNED"]
    /\ Go(w, "pickup")
    /\ UNCHANGED << live, shipments, openPickup, locks, courier >>

-----------------------------------------------------------------------------
(* ensureWarehousePickup, the last step of a booking or called by itself.  *)

RequestPickup(w) ==
    /\ Start(w, None, "pickup")
    /\ UNCHANGED << rows, locks, courier >>

\* Mutant: the day's OPEN row does not keep a second one out.
ClaimPickupAgain(w) ==
    /\ job[w].at = "pickup"
    /\ openPickup' = TRUE
    /\ Go(w, "van")
    /\ UNCHANGED << live, shipments, shipping, locks, courier >>

\* One OPEN row per day: whoever inserts it asks for the van.
ClaimPickup(w) ==
    /\ job[w].at = "pickup"
    /\ IF openPickup THEN Leave(w) ELSE Go(w, "van") /\ UNCHANGED locks
    /\ openPickup' = TRUE
    /\ UNCHANGED << live, shipments, shipping, courier >>

\* The van comes or not; a van whose booking timed out comes unannounced.
AskVan(w) ==
    /\ job[w].at = "van" /\ vans < MaxVans
    /\ \E booked, told \in BOOLEAN :
         /\ told => booked
         /\ (booked /\ ~told) => "pickupTimeout" \in Faults
         /\ vans' = IF booked THEN vans + 1 ELSE vans
         /\ unheard' = IF booked /\ ~told THEN unheard + 1 ELSE unheard
         /\ IF told THEN Leave(w) ELSE Go(w, "closePickup") /\ UNCHANGED locks
    /\ UNCHANGED << rows, drawn, parcels >>

\* The row becomes FAILED, so that the day stays open to a retry.
ClosePickup(w) ==
    /\ job[w].at = "closePickup"
    /\ openPickup' = FALSE
    /\ Leave(w)
    /\ UNCHANGED << live, shipments, shipping, courier >>

-----------------------------------------------------------------------------
(* cancelShipmentForOrder, for a cancelled order or called by itself.      *)

\* The order is cancelled, and its handler goes on to recall the parcel.
CancelOrder(w, o) ==
    /\ o \in live
    /\ live' = live \ {o}
    /\ Start(w, o, "recall")
    /\ UNCHANGED << shipments, shipping, openPickup, locks, courier >>

Unbook(w, o) ==
    /\ shipments[o] # NoShipment
    /\ Start(w, o, "recall")
    /\ UNCHANGED << rows, locks, courier >>

\* A parcel without an AWB, or one that has moved or is recalled, is left alone.
ReadShipment(w) ==
    LET s == shipments[job[w].order] IN
    /\ job[w].at = "recall"
    /\ IF s.awb # 0 /\ s.status \notin {"IN_TRANSIT", "CANCELLED"}
       THEN /\ job' = [job EXCEPT ![w].at = "askCancel", ![w].waybill = s.waybill]
            /\ UNCHANGED locks
       ELSE Leave(w)
    /\ UNCHANGED << rows, courier >>

\* Mutant: the courier's refusal, an answer like any other, is not read.
AskCancelUnread(w) ==
    LET o == job[w].order
        n == job[w].waybill IN
    /\ job[w].at = "askCancel"
    /\ parcels' = [parcels EXCEPT ![o][n] = IF @ = "manifested" THEN "cancelled" ELSE @]
    /\ Go(w, "recalled")
    /\ UNCHANGED << rows, locks, drawn, vans, unheard >>

\* The courier cancels what it has not collected; the answer may be lost.
AskCancel(w) ==
    LET o == job[w].order
        n == job[w].waybill IN
    /\ job[w].at = "askCancel"
    /\ \/ /\ parcels[o][n] \in {"manifested", "cancelled"}
          /\ parcels' = [parcels EXCEPT ![o][n] = "cancelled"]
          /\ \/ Go(w, "recalled") /\ UNCHANGED locks
             \/ Leave(w)
       \/ Leave(w) /\ UNCHANGED parcels
    /\ UNCHANGED << rows, drawn, vans, unheard >>

Recalled(w) ==
    /\ job[w].at = "recalled"
    /\ shipments' = [shipments EXCEPT ![job[w].order].status = "CANCELLED"]
    /\ Go(w, "noteRecall")
    /\ UNCHANGED << live, shipping, openPickup, locks, courier >>

NoteRecall(w) ==
    /\ job[w].at = "noteRecall"
    /\ shipping' = [shipping EXCEPT ![job[w].order] = "CANCELLED"]
    /\ Leave(w)
    /\ UNCHANGED << live, shipments, openPickup, courier >>

-----------------------------------------------------------------------------
(* The courier, and the death of the process.                              *)

Collect(o) ==
    \E n \in Numbers :
        /\ parcels[o][n] = "manifested"
        /\ parcels' = [parcels EXCEPT ![o][n] = "moving"]
        /\ UNCHANGED << rows, locks, job, drawn, vans, unheard >>

\* What the courier may report of a parcel; a report may be late.
Reports(parcel) ==
    CASE parcel = "manifested" -> {"AWB_ASSIGNED"}
      [] parcel = "moving"     -> {"AWB_ASSIGNED", "IN_TRANSIT"}
      [] parcel = "cancelled"  -> {"AWB_ASSIGNED", "CANCELLED"}
      [] OTHER                 -> {}

\* A scan is pushed or polled; the row is found by its waybill or by the order's
\* number.  One that names the waybill makes it the AWB, if the status is news.
Scanned(o) ==
    LET s == shipments[o] IN
    /\ s.waybill # 0
    /\ \E status \in Reports(parcels[o][s.waybill]), awb \in {s.awb, s.waybill} :
         /\ shipments' = IF s.status = status THEN shipments
                         ELSE [shipments EXCEPT ![o] = [s EXCEPT !.status = status, !.awb = awb]]
         /\ shipping' = [shipping EXCEPT ![o] = status]
    /\ UNCHANGED << live, openPickup, locks, job, courier >>

Crash ==
    /\ "crash" \in Faults
    /\ \E w \in Workers : job[w] # NoJob
    /\ job' = [w \in Workers |-> NoJob]
    /\ locks' = [o \in Orders |-> None]
    /\ UNCHANGED << rows, courier >>

Next ==
    \/ \E w \in Workers :
         \/ \E o \in Orders : Book(w, o) \/ CancelOrder(w, o) \/ Unbook(w, o)
         \/ TakeLock(w) \/ Claim(w) \/ CountAttempt(w) \/ Check(w) \/ Draw(w)
         \/ KeepWaybill(w) \/ Create(w) \/ AssignAwb(w) \/ NoteAwb(w)
         \/ RequestPickup(w) \/ ClaimPickup(w) \/ AskVan(w) \/ ClosePickup(w)
         \/ ReadShipment(w) \/ AskCancel(w) \/ Recalled(w) \/ NoteRecall(w)
    \/ \E o \in Orders : Collect(o) \/ Scanned(o)
    \/ Crash

Spec == Init /\ [][Next]_vars

-----------------------------------------------------------------------------
(* Properties.                                                             *)

AtCourier(o) == {n \in Numbers : parcels[o][n] # "none"}

\* However often an order is booked, by how many callers, and whatever answers
\* get lost, the courier never has two parcels of it.
OneParcelPerOrder == \A o \in Orders : Cardinality(AtCourier(o)) <= 1

\* A parcel the courier has is on record: its number is in the order's row, so
\* that a lost answer is found again by scan or by tracking.
ParcelIsOnRecord == \A o \in Orders : AtCourier(o) \subseteq {shipments[o].waybill}

\* An AWB in the row is the number of a parcel that exists, and so is the order
\* column the customer's tracking screen shows.
AwbMeansParcel ==
    \A o \in Orders :
        /\ shipments[o].awb # 0 => shipments[o].awb \in AtCourier(o)
        /\ shipping[o] # "NOT_SHIPPED" => shipments[o].waybill \in AtCourier(o)

\* A row says CANCELLED only when the courier will not deliver the parcel.
CancelledIsCancelled ==
    \A o \in Orders :
        shipments[o].status = "CANCELLED" => parcels[o][shipments[o].waybill] = "cancelled"

\* The vans of a day are one, however many bookings and operators ask for one at
\* once and wherever the process dies, and those whose request timed out: each of
\* them alone lets one more be asked for.
OneVanPerDay == vans <= 1 + unheard

-----------------------------------------------------------------------------
(* What the documentation says and the code does not do.                   *)

Quiet == \A w \in Workers : job[w] = NoJob

\* A booking looks at the order once, and a cancellation recalls "the courier
\* booking, if one was already made": cancelled in between, the order gets an AWB
\* that nobody recalls.
BookedWhileLive ==
    [][\A o \in Orders : shipments'[o].awb # shipments[o].awb => o \in live]_vars

\* fail() leaves the row PENDING for "nothing has moved": with the answer of
\* createShipment lost, the parcel exists and moves.
PendingHasNotMoved ==
    \A o \in Orders :
        shipments[o].status = "PENDING" /\ shipments[o].waybill # 0 =>
            (Quiet => parcels[o][shipments[o].waybill] # "moving")

\* "A retried pickup booking is a second van, and the duplicate guard lives in
\* the database": a timed-out one is marked FAILED and may be booked again.
NoSecondVan == vans <= 1

\* "An open row would block every retry for the rest of the day behind a booking
\* that does not exist": the row of a call that died is such a row.
OpenMeansVan == Quiet /\ openPickup => vans > 0
================================================================================
