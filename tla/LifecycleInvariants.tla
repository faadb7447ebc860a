-------------------------- MODULE LifecycleInvariants --------------------------
(***************************************************************************)
(* What is true of the order lifecycle at every moment: the inductive      *)
(* invariants that LifecycleProofs proves and derives its theorems from.   *)
(*                                                                         *)
(* A handler is a list of statements still to be executed, so the facts    *)
(* that make a step safe are facts about that list: which statements come  *)
(* in which order (InOrder), what they carry (Equipped), and what has      *)
(* become true of the database by the time a statement is at its head      *)
(* (Ready).  Together with the types, what an inserted order has left      *)
(* behind (Inserted), where money can come from (Money) and the count of   *)
(* units (Balance) they are inductive (IInv), whatever fails.              *)
(*                                                                         *)
(* Three layers stand on IInv.  OnItsWay: when the calls of a handler do   *)
(* not fail, every claim that is still to be followed up is held by a      *)
(* handler that has the follow-up on its list.  Closing, about how an      *)
(* order ends, with failures and crashes but as long as no scan of the     *)
(* parcel is applied: a scan writes the order's status without looking at  *)
(* it again (Follow), and TLC has the runs in which that reopens a closed  *)
(* order.  InEffect, about events and cash, again when no call fails: what *)
(* an event marked PROCESSED was to bring about is done, or nothing can    *)
(* stop the handler that does it.                                          *)
(***************************************************************************)
EXTENDS OrderLifecycle

-----------------------------------------------------------------------------
(* What a running handler carries.                                         *)

Verdicts == OrderStatuses \cup PaymentStatuses \cup Scans \cup {"", "captured"}

Jobs == [order : Orders \cup {None}, todo : Seq(Statements), attempt : Attempts,
         event : Event \cup {None}, verdict : Verdicts,
         seen : OrderStatuses \cup {""}, flag : BOOLEAN]

\* The statement s of the list t comes only after the statement p, or first.
After(t, s, p) == \A i \in 1 .. Len(t) : t[i] = s => i = 1 \/ t[i - 1] = p

\* Every s of the list t is followed by n.
Before(t, s, n) == \A i \in 1 .. Len(t) : t[i] = s => i < Len(t) /\ t[i + 1] = n

Has(t, S) == \E i \in 1 .. Len(t) : t[i] \in S

GivesUp == {"CANCELLED", "RETURNED"}

\* Which statements of a handler come in which order.
InOrder(t) ==
    /\ After(t, "insertOrder", "deduct") /\ Before(t, "deduct", "insertOrder")
    /\ After(t, "restock", "claimRestore") /\ Before(t, "claimRestore", "restock")
    /\ After(t, "openPayment", "insertOrder") /\ After(t, "voidOrder", "restock")
    /\ Before(t, "claimPaid", "commitStock") /\ Before(t, "commitStock", "confirm")
    /\ Before(t, "failPayment", "cancelUnpaid") /\ Before(t, "cancelUnpaid", "claimRestore")
    /\ Before(t, "recall", "recallOrder") /\ Before(t, "readStatus", "follow")

Equipped(j) ==
    /\ j.todo # << >> => j.order \in Orders
    /\ Has(j.todo, {"openPayment", "insertAttempt"}) => Method[j.order] = "online"
    /\ Has(j.todo, {"recordPayment"}) => j.verdict \in {"PENDING", "PAID", "FAILED"}
    /\ Has(j.todo, {"failPayment"}) => j.verdict \in {"FAILED", "CANCELLED", "EXPIRED"}
    /\ Has(j.todo, {"moveShipment", "moveShipping", "follow"}) => j.verdict \in Scans
    /\ Has(j.todo, {"setIfSame"}) => j.verdict \in OrderStatuses \ {"PENDING_PAYMENT"}
    /\ j.verdict \in GivesUp => Before(j.todo, "setIfSame", "claimRestore")
    /\ Has(j.todo, {"finish"}) => j.event \in Event
    /\ Has(j.todo, {"voidOrder"}) => ~Has(j.todo, {"deduct", "insertOrder"})

WellFormed(j) == j \in Jobs /\ InOrder(j.todo) /\ Equipped(j)

-----------------------------------------------------------------------------
(* The inductive invariant.                                                *)

ScanWords == Scans \cup {"AWB_ASSIGNED", "CANCELLED"}

Types ==
    /\ status \in [Orders -> OrderStatuses \cup {"none"}]
    /\ paymentStatus \in [Orders -> PaymentStatuses \cup {"none"}]
    /\ shippingStatus \in [Orders -> Scans \cup {"NOT_SHIPPED", "AWB_ASSIGNED", "CANCELLED"}]
    /\ collected \subseteq Orders
    /\ refunded \in [Orders -> {"none", "part", "full"}]
    /\ committed \subseteq Orders /\ restored \subseteq committed
    /\ shelf \in Nat
    /\ held \subseteq committed
    /\ stockLock \in Workers \cup {None}
    /\ ledger \in [Orders -> [Attempts -> {"none", "PENDING", "PAID", "FAILED"}]]
    /\ shipment \in [Orders -> Scans \cup {"none", "PENDING", "AWB_ASSIGNED", "CANCELLED"}]
    /\ events \in [Event -> {"none", "RECEIVED", "PROCESSED", "FAILED", "IGNORED"}]
    /\ tries \in [Event -> 0 .. ReplayLimit]
    /\ gateway \in [Orders -> [Attempts -> SUBSET {"open", "failed", "captured"}]]
    /\ scanned \in [Orders -> Seq(ScanWords)]
    /\ job \in [Workers -> Jobs]

Captured(o) == \E k \in Attempts : "captured" \in gateway[o][k]

\* An order that was not inserted has left no trace, and one that was has its unit.
Inserted ==
    /\ \A o \in Orders : status[o] = "none" =>
          /\ o \notin committed /\ o \notin collected
          /\ paymentStatus[o] = "none" /\ shipment[o] = "none" /\ scanned[o] = << >>
          /\ \A k \in Attempts : ledger[o][k] = "none" /\ gateway[o][k] = {}
    /\ \A e \in Event : events[e] # "none" => status[e.order] # "none"
    /\ \A o \in Orders : status[o] # "none" => o \in committed
    /\ \A o \in Orders : status[o] = "PENDING_PAYMENT" => Method[o] = "online"

\* What the rows of a prepaid order say of its payment is true at the gateway.
Money ==
    /\ \A o \in Orders, k \in Attempts : gateway[o][k] # {} =>
          Method[o] = "online" /\ ledger[o][k] # "none"
    /\ \A o \in Orders : Method[o] = "online" /\ (paymentStatus[o] \in Settled \/ o \in collected)
                         => Captured(o)
    /\ \A e \in Event : events[e] # "none" /\ e.about = "captured" => Captured(e.order)

\* What the worker w may rely on before its next statement.
Ready(w) ==
    LET o == job[w].order IN
    /\ WellFormed(job[w])
    /\ job[w].todo = << >> => Idle(w)
    /\ At(w, "restock") => stockLock = w /\ o \in restored
    /\ At(w, "insertOrder") => stockLock = w /\ status[o] = "none"
    /\ At(w, "openPayment") => stockLock = w /\ gateway[o][0] = {}
    /\ job[w].todo # << >> /\ ~At(w, "deduct") /\ ~At(w, "insertOrder") => status[o] # "none"
    /\ job[w].event # None => events[job[w].event] # "none"
    /\ Has(job[w].todo, {"claimPaid"}) => Captured(o)

Balance == IF MayFail THEN NothingSoldTwice ELSE StockBalance

IInv == Types /\ Inserted /\ Money /\ (\A w \in Workers : Ready(w)) /\ Balance

\* Where no statement fails, what was begun is on its way.
OnItsWay ==
    /\ \A o \in Orders :
          Method[o] = "online" /\ paymentStatus[o] = "PAID" /\ status[o] = "PENDING_PAYMENT" =>
          \E w \in Workers : job[w].order = o /\ (At(w, "commitStock") \/ At(w, "confirm"))
    /\ \A o \in Orders : status[o] \in GivesUp =>
          o \in restored \/ \E w \in Workers : job[w].order = o /\ At(w, "claimRestore")
    /\ \A w \in Workers : At(w, "voidOrder") => job[w].order \in restored

-----------------------------------------------------------------------------
(* How an order ends.                                                      *)

\* Sets of statements that the handlers have in common.
Restoring == {"claimRestore", "restock"}
Failing   == {"failPayment", "cancelUnpaid"} \cup Restoring
Paying    == {"claimPaid", "commitStock", "confirm"}
Recalling == {"recall", "recallOrder"}
Booking   == {"openShipment", "assignAwb", "noteAwb"}
Applying  == {"moveShipment", "moveShipping", "readStatus", "follow", "collectCash",
              "sellReserved"} \cup Restoring

\* The statements of a list, and those a handler has still to execute.
Among(t) == {t[i] : i \in 1 .. Len(t)}
Left(w)  == Among(job[w].todo)

\* applyShippingStatus, the stock it returns apart.
Following == {"moveShipment", "moveShipping", "readStatus", "follow", "collectCash",
              "sellReserved"}

\* The statements of handlers that only a prepaid order has.
Prepaying == {"openPayment", "voidOrder", "failPayment", "cancelUnpaid", "claimPaid",
              "commitStock", "confirm"}

NoScans == Requests \cap {"scan", "track"} = {}
AllCash == \A o \in Orders : Method[o] = "cod"

\* The parcel has not been heard of.
Unscanned ==
    /\ \A e \in Event : e.about \in Scans => events[e] = "none"
    /\ \A w \in Workers : Left(w) \cap Following = {}

\* Moving the order is decided first, if at all.
Decides(t) == \A i \in 1 .. Len(t) : t[i] = "setIfSame" => i = 1

\* A handler that is to move an order has read it open.
ReadOpen ==
    \A w \in Workers :
       /\ Decides(job[w].todo)
       /\ At(w, "setIfSame") => job[w].seen \notin CLOSED

\* The payment claim of the list has been made.
Claimed(t) ==
    \E i \in 1 .. Len(t) : /\ t[i] \in {"commitStock", "confirm"}
                          /\ \A k \in 1 .. i - 1 : t[k] # "claimPaid"

\* Where nobody climbs the ladder, an order is new, paid for or cancelled, and
\* a handler past the payment claim works on one that is paid or cancelled.
Ungraded ==
    /\ \A o \in Orders :
          status[o] \in {"none", "PENDING_PAYMENT", "PLACED", "CONFIRMED", "CANCELLED"}
    /\ \A w \in Workers : At(w, "setIfSame") => job[w].verdict = "CANCELLED"
    /\ \A w \in Workers :
          Claimed(job[w].todo) =>
          paymentStatus[job[w].order] \in Settled \/ status[job[w].order] = "CANCELLED"
    /\ UnpaidNeverFulfilled

\* Where every order is paid on delivery, stock goes back for closed orders only.
CashOnly ==
    /\ \A w \in Workers : Left(w) \cap Prepaying = {}
    /\ \A w \in Workers : Left(w) \cap Restoring # {} =>
          \/ status[job[w].order] \in CLOSED
          \/ At(w, "setIfSame") /\ job[w].verdict \in CLOSED
    /\ \A o \in restored : status[o] \in CLOSED

Closing ==
    /\ Unscanned /\ ReadOpen
    /\ "setStatus" \notin Requests => Ungraded
    /\ AllCash => CashOnly

-----------------------------------------------------------------------------
(* What an event marked PROCESSED has left behind.                         *)

\* What a scan leads to once the order's shipping status has been written.
Aftermath == {"readStatus", "follow", "collectCash", "sellReserved", "claimRestore",
              "restock", "finish"}

\* What a handler of an event executes.
Reports == {"recordPayment", "claimPaid", "commitStock", "confirm", "failPayment",
            "cancelUnpaid", "moveShipment", "moveShipping"} \cup Aftermath

\* A handler is about to execute s for the order o and nothing can stop it.
Underway(o, s) ==
    \E w \in Workers : job[w].order = o /\ s \in Left(w) /\ Left(w) \subseteq Aftermath

CashIn(o)   == paymentStatus[o] # "COD_PENDING" \/ Underway(o, "collectCash")
UnitBack(o) == o \in restored \/ Underway(o, "claimRestore")

\* The handlers' lists, read from their first statement to their last.
Scripted(j) ==
    /\ \A i \in 1 .. Len(j.todo) : /\ j.todo[i] = "moveShipment" => i = 1
                                   /\ j.todo[i] = "finish" => i = Len(j.todo)
    /\ After(j.todo, "moveShipping", "moveShipment")
    /\ Among(j.todo) \cap {"moveShipping", "follow"} # {} =>
          Among(j.todo) \subseteq Aftermath \cup {"moveShipment", "moveShipping"}
    /\ "moveShipping" \in Among(j.todo) =>
          /\ j.verdict = "DELIVERED" => "collectCash" \in Among(j.todo)
          /\ j.verdict = "RTO_DELIVERED" => "claimRestore" \in Among(j.todo)
    /\ j.event # None =>
          /\ j.event.order = j.order /\ Among(j.todo) \subseteq Reports
          /\ j.event.about \in Scans => j.verdict = j.event.about
    /\ "setStatus" \notin Requests /\ "setIfSame" \in Among(j.todo) => j.verdict # "DELIVERED"
    /\ "retry" \notin Requests => "insertAttempt" \notin Among(j.todo)

\* The statements that decide on the event e, and what they bring about.
Awaits(e) == CASE e.about = "captured" -> {"claimPaid"}
               [] e.about = "failed"   -> {"failPayment", "cancelUnpaid"}
               [] OTHER                -> {"moveShipping"}

Effect(e) ==
    CASE e.about = "captured"      -> e.order \in collected
      [] e.about = "failed"        -> status[e.order] # "PENDING_PAYMENT" \/ e.order \in collected
      [] e.about = "DELIVERED"     -> CashIn(e.order)
      [] e.about = "RTO_DELIVERED" -> UnitBack(e.order)
      [] OTHER                     -> shippingStatus[e.order] # "NOT_SHIPPED"

Scripts == \A w \in Workers : Scripted(job[w])

Cash ==
    \A o \in Orders : /\ paymentStatus[o] = "COD_PENDING" => Method[o] = "cod"
                      /\ paymentStatus[o] \in Settled => o \in collected

\* A prepaid order whose money came in is confirmed or about to be.
Charged ==
    \A o \in Orders : Method[o] = "online" /\ o \in collected /\ status[o] = "PENDING_PAYMENT" =>
        \E w \in Workers : job[w].order = o /\ (At(w, "commitStock") \/ At(w, "confirm"))

\* The order's shipping status is written before what follows from it, and the
\* next scan of the same status relies on the first to go on.
Shown ==
    \A o \in Orders : /\ status[o] = "none" => shippingStatus[o] = "NOT_SHIPPED"
                      /\ shippingStatus[o] = "DELIVERED" => CashIn(o)
                      /\ shippingStatus[o] = "RTO_DELIVERED" => UnitBack(o)

Worked ==
    /\ \A e \in Event : events[e] = "PROCESSED" => Effect(e)
    /\ \A w \in Workers :
          /\ job[w].event # None /\ Left(w) \cap Awaits(job[w].event) = {} => Effect(job[w].event)
          /\ "follow" \in Left(w) /\ "moveShipping" \notin Left(w) /\ job[w].verdict = "DELIVERED"
                => CashIn(job[w].order)

\* Where no payment is retried, an order that is voided was never paid.
Voided ==
    "retry" \notin Requests =>
       /\ \A o \in Orders : /\ \A k \in Retries : gateway[o][k] = {}
                            /\ o \in collected => paymentStatus[o] \in Settled
       /\ \A w \in Workers : "voidOrder" \in Left(w) =>
             /\ Method[job[w].order] = "online" /\ gateway[job[w].order][0] = {}
             /\ \A v \in Workers : At(v, "openPayment") => job[v].order # job[w].order

\* Where nobody moves an order by hand, only a scan can deliver it.
HandedOver ==
    "setStatus" \notin Requests => \A o \in Orders : status[o] = "DELIVERED" => CashIn(o)

InEffect == Scripts /\ Cash /\ Charged /\ Shown /\ Worked /\ Voided /\ HandedOver
================================================================================
