---------------------------- MODULE OrderLifecycle ----------------------------
(***************************************************************************)
(* An order between checkout and its end: the HTTP routes, the gateway and *)
(* courier webhooks and the two sweeps that all write the same orders row  *)
(* (routes/customer, webhooks and admin; services/fulfillment).            *)
(*                                                                         *)
(* No handler runs in a transaction.  Each is a list of SQL statements,    *)
(* and between any two of them every other handler may run.  A worker is   *)
(* one handler being executed: it carries the statements still to do and   *)
(* what the handler read earlier.  The gateway and the courier are outside *)
(* the code: they move by themselves and their webhooks arrive late,       *)
(* repeatedly, in any order, or never.                                     *)
(***************************************************************************)
EXTENDS OrderStatus, FiniteSets, SequencesExt

CONSTANTS
    Orders,       \* order ids, each the outcome of one checkout attempt
    Workers,      \* handlers that may be running at the same time
    None,         \* no worker, no order, no event
    Method,       \* Method[o] \in {"online", "cod"}
    Supply,       \* units of the one product every order buys one of
    MaxRetries,   \* bound on the payment retries of one order
    Requests,     \* the handlers that are called in this instance
    Pushes,       \* the scans the courier reports by webhook in this instance
    ReplayLimit,  \* attempt_count below which the sweep retries an event
    MayFail       \* whether a statement may fail and the process may crash

Handlers == {"checkout", "verify", "captured", "failed", "retry", "cancelPayment",
             "cancelOrder", "expire", "replay", "book", "recall", "scan",
             "track", "setStatus", "refund"}

\* The payments rows of an order: 0 is the one of its checkout.
Attempts == 0 .. MaxRetries
Retries  == Attempts \ {0}

\* webhook_events.event_id: what it reports, of which payment or parcel.
Event ==
    [order : {o \in Orders : Method[o] = "online"}, about : {"captured", "failed"},
     attempt : Attempts]
    \cup [order : Orders, about : Scans, attempt : {0}]

ASSUME LifecycleConstants ==
    /\ Method \in [Orders -> {"online", "cod"}]
    /\ Supply \in Nat /\ MaxRetries \in Nat /\ ReplayLimit \in Nat
    /\ Requests \subseteq Handlers /\ Pushes \subseteq Scans
    /\ MayFail \in BOOLEAN
    /\ IsFiniteSet(Orders) /\ IsFiniteSet(Workers)
    /\ None \notin Workers \cup Orders \cup Event

VARIABLES
    status,          \* orders.status, "none" before the INSERT
    paymentStatus,   \* orders.payment_status
    shippingStatus,  \* orders.shipping_status
    collected,       \* orders with amount_paid > 0
    refunded,        \* orders.amount_refunded: "none", "part" or "full"
    committed,       \* orders with stock_committed
    restored,        \* orders with stock_restored
    shelf,           \* the product's remaining stock in the catalogue document
    held,            \* orders with an ACTIVE row in inventory_reservations
    stockLock,       \* holder of withStockLock
    ledger,          \* payments.status per attempt, "none" without a row
    shipment,        \* shipments.status, "none" without a row
    events,          \* webhook_events.status per event, "none" before claimEvent
    tries,           \* webhook_events.attempt_count
    job,             \* the handler each worker is running
    gateway,         \* external: what happened to each gateway order
    scanned          \* external: the scans the parcel has had, oldest first

orderVars  == << status, paymentStatus, shippingStatus, collected, refunded >>
stockVars  == << committed, restored, shelf, held, stockLock >>
eventVars  == << events, tries >>
world      == << gateway, scanned >>
vars == << status, paymentStatus, shippingStatus, collected, refunded, committed,
           restored, shelf, held, stockLock, ledger, shipment, events, tries,
           job, gateway, scanned >>

\* verdict: the status the handler is to write; seen: the order status it read;
\* flag: the payment it read was PAID, or an UPDATE of its has moved a row.
NoJob == [order |-> None, todo |-> << >>, attempt |-> 0, event |-> None,
          verdict |-> "", seen |-> "", flag |-> FALSE]

Statements ==
    {"deduct", "insertOrder", "openPayment", "voidOrder", "insertAttempt", "fetch",
     "recordPayment", "claimPaid", "commitStock", "confirm", "failPayment",
     "cancelUnpaid", "claimRestore", "restock", "setIfSame", "refundIfPaid",
     "recall", "recallOrder", "openShipment", "assignAwb", "noteAwb",
     "moveShipment", "moveShipping", "readStatus", "follow", "collectCash",
     "sellReserved", "finish"}

TypeOK ==
    /\ status \in [Orders -> OrderStatuses \cup {"none"}]
    /\ paymentStatus \in [Orders -> PaymentStatuses \cup {"none"}]
    /\ shippingStatus \in [Orders -> Scans \cup {"NOT_SHIPPED", "AWB_ASSIGNED", "CANCELLED"}]
    /\ collected \subseteq Orders
    /\ refunded \in [Orders -> {"none", "part", "full"}]
    /\ committed \subseteq Orders /\ restored \subseteq committed
    /\ shelf \in 0 .. Supply
    /\ held \subseteq committed
    /\ stockLock \in Workers \cup {None}
    /\ ledger \in [Orders -> [Attempts -> {"none", "PENDING", "PAID", "FAILED"}]]
    /\ shipment \in [Orders -> Scans \cup {"none", "PENDING", "AWB_ASSIGNED", "CANCELLED"}]
    /\ events \in [Event -> {"none", "RECEIVED", "PROCESSED", "FAILED", "IGNORED"}]
    /\ tries \in [Event -> 0 .. ReplayLimit]
    /\ \A w \in Workers :
          /\ job[w].order \in Orders \cup {None}
          /\ Range(job[w].todo) \subseteq Statements
          /\ job[w].event \in Event \cup {None}
    /\ gateway \in [Orders -> [Attempts -> SUBSET {"open", "failed", "captured"}]]
    /\ \A o \in Orders : Range(scanned[o]) \subseteq Scans \cup {"AWB_ASSIGNED", "CANCELLED"}

Init ==
    /\ status = [o \in Orders |-> "none"]
    /\ paymentStatus = [o \in Orders |-> "none"]
    /\ shippingStatus = [o \in Orders |-> "NOT_SHIPPED"]
    /\ collected = {} /\ refunded = [o \in Orders |-> "none"]
    /\ committed = {} /\ restored = {} /\ held = {}
    /\ shelf = Supply
    /\ stockLock = None
    /\ ledger = [o \in Orders |-> [k \in Attempts |-> "none"]]
    /\ shipment = [o \in Orders |-> "none"]
    /\ events = [e \in Event |-> "none"]
    /\ tries = [e \in Event |-> 0]
    /\ job = [w \in Workers |-> NoJob]
    /\ gateway = [o \in Orders |-> [k \in Attempts |-> {}]]
    /\ scanned = [o \in Orders |-> << >>]

-----------------------------------------------------------------------------
(* Running a handler.                                                      *)

Idle(w) == job[w] = NoJob
Quiet(o) == \A w \in Workers : job[w].order # o

\* w starts the handler, and j is what it has to do and has read.
Run(w, handler, j) ==
    /\ handler \in Requests
    /\ Idle(w)
    /\ job' = [job EXCEPT ![w] = j]

Job(o, todo) == [NoJob EXCEPT !.order = o, !.todo = todo]

At(w, s) == job[w].todo # << >> /\ Head(job[w].todo) = s

\* The handler goes on as j says, and is over when nothing is left to do.
GoOn(w, j) == job' = [job EXCEPT ![w] = IF j.todo = << >> THEN NoJob ELSE j]

Next1(w) == [job[w] EXCEPT !.todo = Tail(@)]

\* The same without the n statements that follow: a branch not taken.
Skipping(w, n) == [job[w] EXCEPT !.todo = SubSeq(@, n + 2, Len(@))]

\* Mutants: a payment ends without its order being confirmed; a failed one
\* without its stock being returned.
PayUnconfirmed == << "claimPaid", "commitStock" >>
FailKeepsStock == << "failPayment", "cancelUnpaid" >>

ReturnStock == << "claimRestore", "restock" >>
Fail        == << "failPayment", "cancelUnpaid" >> \o ReturnStock
Pay         == << "claimPaid", "commitStock", "confirm" >>

-----------------------------------------------------------------------------
(* POST /checkout.                                                         *)

Checkout(w, o) ==
    /\ status[o] = "none"
    /\ Run(w, "checkout", Job(o, << "deduct", "insertOrder" >> \o
              (IF Method[o] = "online" THEN << "openPayment" >> ELSE << >>)))
    /\ UNCHANGED << orderVars, stockVars, ledger, shipment, eventVars, world >>

\* Mutant: the idempotency key is not checked again under the lock.
DeductTwice(w) ==
    /\ At(w, "deduct") /\ stockLock = None
    /\ IF shelf > 0
       THEN shelf' = shelf - 1 /\ stockLock' = w /\ GoOn(w, Next1(w))
       ELSE UNCHANGED << shelf, stockLock >> /\ GoOn(w, NoJob)
    /\ UNCHANGED << orderVars, committed, restored, held, ledger, shipment, eventVars, world >>

\* Under withStockLock: the idempotency key and the stock are checked again
\* before the deduction is saved.
Deduct(w) ==
    LET o == job[w].order IN
    /\ At(w, "deduct") /\ stockLock = None
    /\ IF status[o] = "none" /\ shelf > 0
       THEN shelf' = shelf - 1 /\ stockLock' = w /\ GoOn(w, Next1(w))
       ELSE UNCHANGED << shelf, stockLock >> /\ GoOn(w, NoJob)
    /\ UNCHANGED << orderVars, committed, restored, held, ledger, shipment, eventVars, world >>

InsertOrder(w) ==
    LET o == job[w].order IN
    /\ At(w, "insertOrder")
    /\ status' = [status EXCEPT ![o] = IF Method[o] = "online" THEN "PENDING_PAYMENT"
                                                               ELSE "PLACED"]
    /\ paymentStatus' = [paymentStatus EXCEPT ![o] = IF Method[o] = "online" THEN "PENDING"
                                                     ELSE "COD_PENDING"]
    /\ committed' = committed \cup {o}
    /\ stockLock' = IF Method[o] = "online" THEN w ELSE None
    /\ GoOn(w, Next1(w))
    /\ UNCHANGED << shippingStatus, collected, refunded, restored, shelf, held, ledger,
                    shipment, eventVars, world >>

\* The gateway order and its payments row; the lock is given back.
OpenPayment(w) ==
    LET o == job[w].order IN
    /\ At(w, "openPayment")
    /\ stockLock' = None
    /\ \/ /\ ledger' = [ledger EXCEPT ![o][0] = "PENDING"]
          /\ gateway' = [gateway EXCEPT ![o][0] = {"open"}]
          /\ GoOn(w, Next1(w))
       \/ /\ GoOn(w, [job[w] EXCEPT !.todo = ReturnStock \o << "voidOrder" >>])
          /\ UNCHANGED << ledger, gateway >>
    /\ UNCHANGED << orderVars, committed, restored, shelf, held, shipment, eventVars, scanned >>

\* The gateway refused: an UPDATE with no condition on what the order is now.
VoidOrder(w) ==
    /\ At(w, "voidOrder")
    /\ status' = [status EXCEPT ![job[w].order] = "CANCELLED"]
    /\ paymentStatus' = [paymentStatus EXCEPT ![job[w].order] = "FAILED"]
    /\ GoOn(w, Next1(w))
    /\ UNCHANGED << shippingStatus, collected, refunded, stockVars, ledger, shipment,
                    eventVars, world >>

-----------------------------------------------------------------------------
(* The payment handlers.                                                   *)

\* POST /payments/verify: the order is read first, and a PAID one answered.  A
\* signature that does not match fails the payments row and nothing else.
Verify(w, o, k) ==
    /\ ledger[o][k] # "none" /\ paymentStatus[o] # "PAID"
    /\ \/ Run(w, "verify", [Job(o, << "fetch" >>) EXCEPT !.attempt = k])
       \/ Run(w, "verify", [Job(o, << "recordPayment" >>) EXCEPT !.attempt = k,
                                                                !.verdict = "FAILED"])
    /\ UNCHANGED << orderVars, stockVars, ledger, shipment, eventVars, world >>

\* Mutant: an authorisation is taken for a capture.
FetchAuthorised(w) ==
    /\ At(w, "fetch")
    /\ GoOn(w, [job[w] EXCEPT !.verdict = "PAID", !.todo = << "recordPayment" >> \o Pay])
    /\ UNCHANGED << orderVars, stockVars, ledger, shipment, eventVars, world >>

\* What gateway.fetchPayment answers decides the rest of the handler; a payment
\* that is only authorised, first or after a decline, is PENDING, and a gateway
\* that cannot be reached ends it.
Fetch(w) ==
    LET outcome == gateway[job[w].order][job[w].attempt]
        proceed(verdict, todo) ==
            GoOn(w, [job[w] EXCEPT !.verdict = verdict, !.todo = << "recordPayment" >> \o todo]) IN
    /\ At(w, "fetch")
    /\ \/ "captured" \in outcome /\ proceed("PAID", Pay)
       \/ "captured" \notin outcome /\ proceed("PENDING", << >>)
       \/ outcome = {"open", "failed"} /\ proceed("FAILED", Fail)
       \/ GoOn(w, NoJob)
    /\ UNCHANGED << orderVars, stockVars, ledger, shipment, eventVars, world >>

\* recordPaymentAttempt, and the UPDATE payments of both payment webhooks.
RecordPayment(w) ==
    /\ At(w, "recordPayment")
    /\ ledger' = [ledger EXCEPT ![job[w].order][job[w].attempt] = job[w].verdict]
    /\ GoOn(w, Next1(w))
    /\ UNCHANGED << orderVars, stockVars, shipment, eventVars, world >>

\* claimEvent: only the first delivery of an event is worked on.
ClaimEvent(e) == events[e] = "none" /\ events' = [events EXCEPT ![e] = "RECEIVED"]

\* payment.captured and payment.failed of POST /webhooks/razorpay.
PaymentWebhook(w, o, k, about) ==
    LET e == [order |-> o, about |-> about, attempt |-> k] IN
    /\ about \in gateway[o][k]
    /\ ClaimEvent(e)
    /\ LET todo == << "recordPayment" >> \o (IF about = "captured" THEN Pay ELSE Fail)
                                         \o << "finish" >> IN
       Run(w, about, [Job(o, todo) EXCEPT !.attempt = k, !.event = e,
                         !.verdict = IF about = "captured" THEN "PAID" ELSE "FAILED"])
    /\ UNCHANGED << orderVars, stockVars, ledger, shipment, tries, world >>

\* POST /payments/:orderId/retry: eligible when read, a new gateway order then.
Retry(w, o) ==
    /\ status[o] = "PENDING_PAYMENT" /\ paymentStatus[o] = "PENDING"
    /\ o \in committed \ restored
    /\ \E k \in Retries : ledger[o][k] = "none"
    /\ Run(w, "retry", Job(o, << "insertAttempt" >>))
    /\ UNCHANGED << orderVars, stockVars, ledger, shipment, eventVars, world >>

InsertAttempt(w) ==
    LET o == job[w].order
        unused == {k \in Retries : ledger[o][k] = "none"} IN
    /\ At(w, "insertAttempt")
    /\ IF unused = {} THEN UNCHANGED << ledger, gateway >>
       ELSE LET k == CHOOSE k \in unused : \A j \in unused : k <= j IN
            /\ ledger' = [ledger EXCEPT ![o][k] = "PENDING"]
            /\ gateway' = [gateway EXCEPT ![o][k] = {"open"}]
    /\ GoOn(w, Next1(w))
    /\ UNCHANGED << orderVars, stockVars, shipment, eventVars, scanned >>

\* POST /payments/:orderId/cancel.
CancelPayment(w, o) ==
    /\ status[o] = "PENDING_PAYMENT" /\ paymentStatus[o] # "PAID"
    /\ Run(w, "cancelPayment", [Job(o, Fail) EXCEPT !.verdict = "CANCELLED"])
    /\ UNCHANGED << orderVars, stockVars, ledger, shipment, eventVars, world >>

\* expirePendingPaymentOrders: the row is selected now and worked on later.
Expire(w, o) ==
    /\ status[o] = "PENDING_PAYMENT" /\ paymentStatus[o] = "PENDING"
    /\ Run(w, "expire", [Job(o, Fail) EXCEPT !.verdict = "EXPIRED"])
    /\ UNCHANGED << orderVars, stockVars, ledger, shipment, eventVars, world >>

-----------------------------------------------------------------------------
(* markOrderPaid, markOrderPaymentFailed and the stock claims.             *)

ClaimPaid(w) ==
    LET o == job[w].order IN
    /\ At(w, "claimPaid")
    /\ IF paymentStatus[o] # "PAID"
       THEN /\ paymentStatus' = [paymentStatus EXCEPT ![o] = "PAID"]
            /\ collected' = collected \cup {o}
            /\ GoOn(w, Next1(w))
       ELSE /\ UNCHANGED << paymentStatus, collected >>
            /\ GoOn(w, Skipping(w, 2))
    /\ UNCHANGED << status, shippingStatus, refunded, stockVars, ledger, shipment,
                    eventVars, world >>

\* commitOrderStock, whose steps Inventory.tla takes apart; a no-op for every
\* order that /checkout inserted.
CommitStock(w) ==
    LET o == job[w].order IN
    /\ At(w, "commitStock") /\ stockLock = None
    /\ committed' = committed \cup {o}
    /\ held' = IF o \in committed THEN held ELSE held \cup {o}
    /\ shelf' = IF o \in committed THEN shelf ELSE shelf - 1
    /\ GoOn(w, Next1(w))
    /\ UNCHANGED << orderVars, restored, stockLock, ledger, shipment, eventVars, world >>

\* transitionOrderStatus from PENDING_PAYMENT to CONFIRMED.
Confirm(w) ==
    LET o == job[w].order IN
    /\ At(w, "confirm")
    /\ status' = IF status[o] = "PENDING_PAYMENT" THEN [status EXCEPT ![o] = "CONFIRMED"]
                                                  ELSE status
    /\ GoOn(w, Next1(w))
    /\ UNCHANGED << paymentStatus, shippingStatus, collected, refunded, stockVars, ledger,
                    shipment, eventVars, world >>

Settled == {"PAID", "REFUNDED", "PARTIALLY_REFUNDED"}

\* Mutant: the payment_status NOT IN (...) condition is dropped.
FailPaymentAnyway(w) ==
    LET o == job[w].order IN
    /\ At(w, "failPayment")
    /\ paymentStatus' = [paymentStatus EXCEPT ![o] = job[w].verdict]
    /\ GoOn(w, IF status[o] = "PENDING_PAYMENT" THEN Next1(w)
               ELSE Skipping(w, 1))
    /\ UNCHANGED << status, shippingStatus, collected, refunded, stockVars, ledger, shipment,
                    eventVars, world >>

\* The refusal skips the cancellation; the caller releases the stock all the same.
FailPayment(w) ==
    LET o == job[w].order IN
    /\ At(w, "failPayment")
    /\ IF paymentStatus[o] \in Settled
       THEN UNCHANGED paymentStatus /\ GoOn(w, Skipping(w, 1))
       ELSE /\ paymentStatus' = [paymentStatus EXCEPT ![o] = job[w].verdict]
            /\ GoOn(w, IF status[o] = "PENDING_PAYMENT" THEN Next1(w)
                       ELSE Skipping(w, 1))
    /\ UNCHANGED << status, shippingStatus, collected, refunded, stockVars, ledger, shipment,
                    eventVars, world >>

\* Mutant: the UPDATE looks for the payment's PENDING instead.
CancelUnpaidNever(w) ==
    /\ At(w, "cancelUnpaid")
    /\ GoOn(w, Next1(w))
    /\ UNCHANGED << orderVars, stockVars, ledger, shipment, eventVars, world >>

CancelUnpaid(w) ==
    LET o == job[w].order IN
    /\ At(w, "cancelUnpaid")
    /\ status' = IF status[o] = "PENDING_PAYMENT" THEN [status EXCEPT ![o] = "CANCELLED"]
                                                  ELSE status
    /\ GoOn(w, Next1(w))
    /\ UNCHANGED << paymentStatus, shippingStatus, collected, refunded, stockVars, ledger,
                    shipment, eventVars, world >>

\* Mutant: the stock_restored = false condition is dropped.
ClaimRestoreAgain(w) ==
    LET o == job[w].order IN
    /\ At(w, "claimRestore") /\ stockLock = None
    /\ restored' = restored \cup {o}
    /\ stockLock' = w
    /\ GoOn(w, Next1(w))
    /\ UNCHANGED << orderVars, committed, shelf, held, ledger, shipment, eventVars, world >>

\* restoreOrderStock: the claim, then the units, both under withStockLock.
ClaimRestore(w) ==
    LET o == job[w].order IN
    /\ At(w, "claimRestore") /\ stockLock = None
    /\ IF o \in committed \ restored
       THEN /\ restored' = restored \cup {o}
            /\ stockLock' = w
            /\ GoOn(w, Next1(w))
       ELSE /\ UNCHANGED << restored, stockLock >>
            /\ GoOn(w, Skipping(w, 1))
    /\ UNCHANGED << orderVars, committed, shelf, held, ledger, shipment, eventVars, world >>

Restock(w) ==
    /\ At(w, "restock")
    /\ shelf' = shelf + 1
    /\ held' = held \ {job[w].order}
    /\ stockLock' = None
    /\ GoOn(w, Next1(w))
    /\ UNCHANGED << orderVars, committed, restored, ledger, shipment, eventVars, world >>

-----------------------------------------------------------------------------
(* Cancelling, refunding and moving an order by hand.                      *)

Recall == << "recall", "recallOrder" >>

\* POST /orders/:id/cancel decides on what it read: the status the UPDATE must
\* still find, and whether there is money to return.
CancelOrder(w, o) ==
    /\ status[o] \in CANCELLABLE
    /\ LET todo == << "setIfSame" >> \o ReturnStock \o << "refundIfPaid" >> \o Recall IN
       Run(w, "cancelOrder",
           [Job(o, todo) EXCEPT !.verdict = "CANCELLED", !.seen = status[o],
                                !.flag = paymentStatus[o] = "PAID" /\ o \in collected])
    /\ UNCHANGED << orderVars, stockVars, ledger, shipment, eventVars, world >>

\* PUT /admin/orders/:id/status.
SetStatus(w, o, to) ==
    /\ status[o] # "none" /\ isValidStatusTransition(status[o], to)
    /\ LET todo == << "setIfSame" >> \o (IF to \in CLOSED THEN ReturnStock ELSE << >>)
                                     \o (IF to = "CANCELLED" THEN Recall ELSE << >>) IN
       Run(w, "setStatus", [Job(o, todo) EXCEPT !.verdict = to, !.seen = status[o]])
    /\ UNCHANGED << orderVars, stockVars, ledger, shipment, eventVars, world >>

\* Mutants: the UPDATE is not conditional on the status read; or it is, and the
\* handler goes on without looking whether it moved a row.
SetAnyway(w) ==
    /\ At(w, "setIfSame")
    /\ status' = [status EXCEPT ![job[w].order] = job[w].verdict]
    /\ GoOn(w, Next1(w))
    /\ UNCHANGED << paymentStatus, shippingStatus, collected, refunded, stockVars, ledger,
                    shipment, eventVars, world >>

SetAndGoOn(w) ==
    LET o == job[w].order IN
    /\ At(w, "setIfSame")
    /\ status' = IF status[o] = job[w].seen THEN [status EXCEPT ![o] = job[w].verdict] ELSE status
    /\ GoOn(w, Next1(w))
    /\ UNCHANGED << paymentStatus, shippingStatus, collected, refunded, stockVars, ledger,
                    shipment, eventVars, world >>

SetIfSame(w) ==
    LET o == job[w].order IN
    /\ At(w, "setIfSame")
    /\ IF status[o] = job[w].seen
       THEN status' = [status EXCEPT ![o] = job[w].verdict] /\ GoOn(w, Next1(w))
       ELSE UNCHANGED status /\ GoOn(w, NoJob)
    /\ UNCHANGED << paymentStatus, shippingStatus, collected, refunded, stockVars, ledger,
                    shipment, eventVars, world >>

\* refundOrderPayment and recordRefund with a gateway that answers: it needs a
\* payments row that says PAID and something left to give back.
Refundable(o) ==
    /\ o \in collected /\ refunded[o] # "full" /\ Method[o] = "online"
    /\ \E k \in Attempts : ledger[o][k] = "PAID"

GiveBack(o, extent) ==
    /\ refunded' = [refunded EXCEPT ![o] = extent]
    /\ paymentStatus' = [paymentStatus EXCEPT ![o] = IF extent = "full" THEN "REFUNDED"
                                                     ELSE "PARTIALLY_REFUNDED"]

RefundIfPaid(w) ==
    LET o == job[w].order IN
    /\ At(w, "refundIfPaid")
    /\ IF job[w].flag /\ Refundable(o) THEN GiveBack(o, "full")
                                       ELSE UNCHANGED << refunded, paymentStatus >>
    /\ GoOn(w, Next1(w))
    /\ UNCHANGED << status, shippingStatus, collected, stockVars, ledger, shipment,
                    eventVars, world >>

\* POST /admin/orders/:id/refund.
AdminRefund(o, extent) ==
    /\ "refund" \in Requests
    /\ Refundable(o) /\ extent # refunded[o]
    /\ GiveBack(o, extent)
    /\ UNCHANGED << status, shippingStatus, collected, stockVars, ledger, shipment, eventVars,
                    job, world >>

\* cancelShipmentForOrder: the courier takes back a booking it has not begun.
\* Its answer and the UPDATE of the shipments row that follows are one step.
RecallShipment(w) ==
    LET o == job[w].order
        booked == shipment[o] \notin {"none", "PENDING", "PICKED_UP", "IN_TRANSIT",
                                      "OUT_FOR_DELIVERY", "DELIVERED", "CANCELLED"} IN
    /\ At(w, "recall")
    /\ IF booked /\ scanned[o] = << "AWB_ASSIGNED" >>
       THEN /\ scanned' = [scanned EXCEPT ![o] = Append(@, "CANCELLED")]
            /\ shipment' = [shipment EXCEPT ![o] = "CANCELLED"]
            /\ GoOn(w, Next1(w))
       ELSE UNCHANGED << scanned, shipment >> /\ GoOn(w, Skipping(w, 1))
    /\ UNCHANGED << orderVars, stockVars, ledger, eventVars, gateway >>

RecallOrder(w) ==
    /\ At(w, "recallOrder")
    /\ shippingStatus' = [shippingStatus EXCEPT ![job[w].order] = "CANCELLED"]
    /\ GoOn(w, Next1(w))
    /\ UNCHANGED << status, paymentStatus, collected, refunded, stockVars, ledger, shipment,
                    eventVars, world >>

\* POST /admin/orders/:id/shipment/cancel: the booking alone.
Unbook(w, o) ==
    /\ shipment[o] # "none"
    /\ Run(w, "recall", Job(o, Recall))
    /\ UNCHANGED << orderVars, stockVars, ledger, shipment, eventVars, world >>

-----------------------------------------------------------------------------
(* Shipping.                                                               *)

\* createShipmentForOrder, which an admin calls, and markOrderPaid and a COD
\* checkout without waiting for it: refused while a booking of the order runs.
Book(w, o) ==
    /\ paymentStatus[o] = "PAID" \/ (Method[o] = "cod" /\ status[o] # "none")
    /\ canonicalOrderStatus(status[o]) \notin TERMINAL
    /\ \A x \in Workers : job[x].order = o =>
          Range(job[x].todo) \cap {"openShipment", "assignAwb", "noteAwb"} = {}
    /\ Run(w, "book", Job(o, << "openShipment", "assignAwb", "noteAwb" >>))
    /\ UNCHANGED << orderVars, stockVars, ledger, shipment, eventVars, world >>

OpenShipment(w) ==
    LET o == job[w].order IN
    /\ At(w, "openShipment")
    /\ IF shipment[o] \in {"none", "PENDING"}
       THEN shipment' = [shipment EXCEPT ![o] = "PENDING"] /\ GoOn(w, Next1(w))
       ELSE UNCHANGED shipment /\ GoOn(w, NoJob)
    /\ UNCHANGED << orderVars, stockVars, ledger, eventVars, world >>

\* The courier accepts the parcel, or the row stays PENDING for another try.
AssignAwb(w) ==
    LET o == job[w].order IN
    /\ At(w, "assignAwb")
    /\ \/ /\ shipment' = [shipment EXCEPT ![o] = "AWB_ASSIGNED"]
          /\ scanned' = [scanned EXCEPT ![o] = << "AWB_ASSIGNED" >>]
          /\ GoOn(w, Next1(w))
       \/ UNCHANGED << shipment, scanned >> /\ GoOn(w, NoJob)
    /\ UNCHANGED << orderVars, stockVars, ledger, eventVars, gateway >>

NoteAwb(w) ==
    /\ At(w, "noteAwb")
    /\ shippingStatus' = [shippingStatus EXCEPT ![job[w].order] = "AWB_ASSIGNED"]
    /\ GoOn(w, Next1(w))
    /\ UNCHANGED << status, paymentStatus, collected, refunded, stockVars, ledger, shipment,
                    eventVars, world >>

\* Mutant: a returned parcel does not put its stock back.
ApplyWithoutReturn(scan) ==
    << "moveShipment", "moveShipping", "readStatus", "follow" >>
    \o (IF scan = "DELIVERED" THEN << "collectCash", "sellReserved" >> ELSE << >>)

\* applyShippingStatus(scan).
Apply(scan) ==
    << "moveShipment", "moveShipping", "readStatus", "follow" >>
    \o (IF scan = "DELIVERED" THEN << "collectCash", "sellReserved" >> ELSE << >>)
    \o (IF scan = "RTO_DELIVERED" THEN ReturnStock ELSE << >>)

\* POST /webhooks/delhivery: any scan the parcel has had, however late.
ScanWebhook(w, o, scan) ==
    LET e == [order |-> o, about |-> scan, attempt |-> 0] IN
    /\ scan \in Pushes \cap Range(scanned[o])
    /\ ClaimEvent(e)
    /\ Run(w, "scan", [Job(o, Apply(scan) \o << "finish" >>) EXCEPT !.event = e,
                                                                     !.verdict = scan])
    /\ UNCHANGED << orderVars, stockVars, ledger, shipment, tries, world >>

\* POST /admin/orders/:id/shipment/track: what the courier says now.
Track(w, o) ==
    /\ scanned[o] # << >> /\ Last(scanned[o]) \in Scans
    /\ Run(w, "track", [Job(o, Apply(Last(scanned[o]))) EXCEPT !.verdict = Last(scanned[o])])
    /\ UNCHANGED << orderVars, stockVars, ledger, shipment, eventVars, world >>

MoveShipment(w) ==
    LET o == job[w].order IN
    /\ At(w, "moveShipment")
    /\ shipment' = [shipment EXCEPT ![o] = IF @ = "none" THEN @ ELSE job[w].verdict]
    /\ GoOn(w, [Next1(w) EXCEPT !.flag = shipment[o] \notin {"none", job[w].verdict}])
    /\ UNCHANGED << orderVars, stockVars, ledger, eventVars, world >>

\* Neither row moved: taken for a duplicate, and nothing more is done.
MoveShipping(w) ==
    LET o == job[w].order IN
    /\ At(w, "moveShipping")
    /\ shippingStatus' = [shippingStatus EXCEPT ![o] = job[w].verdict]
    /\ GoOn(w, IF job[w].flag \/ shippingStatus[o] # job[w].verdict THEN Next1(w)
               ELSE [job[w] EXCEPT !.todo = IF job[w].event = None THEN << >>
                                                                   ELSE << "finish" >>])
    /\ UNCHANGED << status, paymentStatus, collected, refunded, stockVars, ledger, shipment,
                    eventVars, world >>

ReadStatus(w) ==
    LET current == canonicalOrderStatus(status[job[w].order]) IN
    /\ At(w, "readStatus")
    /\ GoOn(w, IF current \in TERMINAL THEN Skipping(w, 1) ELSE Next1(w))
    /\ UNCHANGED << orderVars, stockVars, ledger, shipment, eventVars, world >>

\* transitionOrderStatus without a from.
Follow(w) ==
    /\ At(w, "follow")
    /\ status' = [status EXCEPT ![job[w].order] = SHIPPING_TO_ORDER_STATUS[job[w].verdict]]
    /\ GoOn(w, Next1(w))
    /\ UNCHANGED << paymentStatus, shippingStatus, collected, refunded, stockVars, ledger,
                    shipment, eventVars, world >>

\* Mutant: the UPDATE expects the status of an online payment.
CollectCashPending(w) ==
    LET o == job[w].order IN
    /\ At(w, "collectCash")
    /\ paymentStatus' = [paymentStatus EXCEPT ![o] = IF @ = "PENDING" THEN "PAID" ELSE @]
    /\ GoOn(w, Next1(w))
    /\ UNCHANGED << status, shippingStatus, collected, refunded, stockVars, ledger, shipment,
                    eventVars, world >>

CollectCash(w) ==
    LET o == job[w].order IN
    /\ At(w, "collectCash")
    /\ IF Method[o] = "cod" /\ paymentStatus[o] = "COD_PENDING"
       THEN /\ paymentStatus' = [paymentStatus EXCEPT ![o] = "PAID"]
            /\ collected' = collected \cup {o}
       ELSE UNCHANGED << paymentStatus, collected >>
    /\ GoOn(w, Next1(w))
    /\ UNCHANGED << status, shippingStatus, refunded, stockVars, ledger, shipment,
                    eventVars, world >>

\* commitOrderReservations, as one step: Inventory.tla has the others.
SellReserved(w) ==
    /\ At(w, "sellReserved")
    /\ held' = held \ {job[w].order}
    /\ GoOn(w, Next1(w))
    /\ UNCHANGED << orderVars, committed, restored, shelf, stockLock, ledger, shipment,
                    eventVars, world >>

-----------------------------------------------------------------------------
(* The event ledger, the sweep, failures.                                  *)

Counted(e) == [tries EXCEPT ![e] = IF @ < ReplayLimit THEN @ + 1 ELSE @]

Finish(w) ==
    LET e == job[w].event IN
    /\ At(w, "finish")
    /\ events' = [events EXCEPT ![e] = "PROCESSED"]
    /\ tries' = Counted(e)
    /\ GoOn(w, Next1(w))
    /\ UNCHANGED << orderVars, stockVars, ledger, shipment, world >>

Stuck(e) == events[e] \in {"RECEIVED", "FAILED"} /\ tries[e] < ReplayLimit

\* reconcileStuckWebhookEvents: a captured payment or a scan is run again, from
\* the order's side only; any other event is given up.
Replay(w, e) ==
    /\ Stuck(e)
    /\ IF e.about = "failed"
       THEN /\ "replay" \in Requests
            /\ events' = [events EXCEPT ![e] = "IGNORED"]
            /\ tries' = Counted(e)
            /\ UNCHANGED job
       ELSE /\ LET todo == IF e.about = "captured" THEN Pay ELSE Apply(e.about) IN
               Run(w, "replay", [Job(e.order, todo \o << "finish" >>) EXCEPT !.event = e,
                                                                    !.verdict = e.about])
            /\ UNCHANGED eventVars
    /\ UNCHANGED << orderVars, stockVars, ledger, shipment, world >>

\* What is still done after the statement at the head has thrown: /checkout
\* catches a failed release, and a cancellation does not wait for its refund.
AfterThrow(w) ==
    IF At(w, "refundIfPaid") THEN Next1(w)
    ELSE [job[w] EXCEPT !.todo = IF "voidOrder" \in Range(Tail(@)) THEN << "voidOrder" >>
                                                                    ELSE << >>]

\* A statement throws: withStockLock's finally runs, a webhook's catch records
\* the event as FAILED, a route answers 500.
StatementFails(w) ==
    LET e == job[w].event IN
    /\ MayFail /\ ~Idle(w)
    /\ GoOn(w, AfterThrow(w))
    /\ stockLock' = IF stockLock = w THEN None ELSE stockLock
    /\ events' = IF e = None THEN events ELSE [events EXCEPT ![e] = "FAILED"]
    /\ tries' = IF e = None THEN tries ELSE Counted(e)
    /\ UNCHANGED << orderVars, committed, restored, shelf, held, ledger, shipment, world >>

\* The process dies and is started again.
Crash ==
    /\ MayFail /\ \E w \in Workers : ~Idle(w)
    /\ job' = [w \in Workers |-> NoJob]
    /\ stockLock' = None
    /\ UNCHANGED << orderVars, committed, restored, shelf, held, ledger, shipment, eventVars, world >>

-----------------------------------------------------------------------------
(* The gateway and the courier.                                            *)

\* A gateway order may see declined attempts before the one that succeeds.
GatewayMoves(o, k) ==
    /\ gateway[o][k] # {} /\ "captured" \notin gateway[o][k]
    /\ \E outcome \in {"failed", "captured"} :
          /\ outcome \notin gateway[o][k]
          /\ gateway' = [gateway EXCEPT ![o][k] = @ \cup {outcome}]
    /\ UNCHANGED << orderVars, stockVars, ledger, shipment, eventVars, job, scanned >>

NextScan(scan) ==
    CASE scan = "AWB_ASSIGNED"     -> {"PICKED_UP"}
      [] scan = "PICKED_UP"        -> {"IN_TRANSIT"}
      [] scan = "IN_TRANSIT"       -> {"OUT_FOR_DELIVERY", "RTO_INITIATED"}
      [] scan = "OUT_FOR_DELIVERY" -> {"DELIVERED", "RTO_INITIATED"}
      [] scan = "RTO_INITIATED"    -> {"RTO_DELIVERED"}
      [] OTHER                     -> {}

CourierMoves(o) ==
    /\ scanned[o] # << >>
    /\ \E scan \in NextScan(Last(scanned[o])) :
          scanned' = [scanned EXCEPT ![o] = Append(@, scan)]
    /\ UNCHANGED << orderVars, stockVars, ledger, shipment, eventVars, job, gateway >>

-----------------------------------------------------------------------------
Step(w) ==
    \/ Deduct(w) \/ InsertOrder(w) \/ OpenPayment(w) \/ VoidOrder(w)
    \/ Fetch(w) \/ RecordPayment(w) \/ InsertAttempt(w)
    \/ ClaimPaid(w) \/ CommitStock(w) \/ Confirm(w)
    \/ FailPayment(w) \/ CancelUnpaid(w) \/ ClaimRestore(w) \/ Restock(w)
    \/ SetIfSame(w) \/ RefundIfPaid(w) \/ RecallShipment(w) \/ RecallOrder(w)
    \/ OpenShipment(w) \/ AssignAwb(w) \/ NoteAwb(w)
    \/ MoveShipment(w) \/ MoveShipping(w) \/ ReadStatus(w) \/ Follow(w)
    \/ CollectCash(w) \/ SellReserved(w) \/ Finish(w)

Request(w, o) ==
    \/ Checkout(w, o) \/ Retry(w, o) \/ CancelPayment(w, o) \/ CancelOrder(w, o)
    \/ Book(w, o) \/ Unbook(w, o) \/ Track(w, o)
    \/ \E k \in Attempts : Verify(w, o, k)
    \/ \E k \in Attempts, about \in {"captured", "failed"} : PaymentWebhook(w, o, k, about)
    \/ \E scan \in Scans : ScanWebhook(w, o, scan)
    \/ \E to \in OrderStatuses : SetStatus(w, o, to)

Sweep(w) == (\E o \in Orders : Expire(w, o)) \/ (\E e \in Event : Replay(w, e))

Next ==
    \/ \E w \in Workers : Step(w) \/ Sweep(w) \/ StatementFails(w)
    \/ \E w \in Workers, o \in Orders : Request(w, o)
    \/ \E o \in Orders, extent \in {"part", "full"} : AdminRefund(o, extent)
    \/ \E o \in Orders, k \in Attempts : GatewayMoves(o, k)
    \/ \E o \in Orders : CourierMoves(o)
    \/ Crash

Spec == Init /\ [][Next]_vars

\* A handler that was begun goes on (withStockLock hands its lock on in the
\* order of arrival), and server.ts calls the sweeps every ten minutes for ever.
\* No customer, admin, gateway or courier has to do anything.
FairSpec ==
    /\ Spec
    /\ \A w \in Workers : SF_vars(Step(w))
    /\ SF_vars(\E w \in Workers, o \in Orders : Expire(w, o))
    /\ SF_vars(\E w \in Workers, e \in Event : Replay(w, e))

-----------------------------------------------------------------------------
(* Properties.                                                             *)

\* Nothing but a capture at the gateway makes a prepaid order PAID, whichever
\* of verify, webhook and sweep gets there and whatever they have read before.
PaidMeansCaptured ==
    \A o \in Orders : Method[o] = "online" /\ paymentStatus[o] \in Settled =>
        \E k \in Attempts : "captured" \in gateway[o][k]

\* 'A paid order would sit unconfirmed until someone noticed by hand': once the
\* handlers of a PAID order are over, it has left PENDING_PAYMENT.
PaidOrderAdvances ==
    \A o \in Orders : Quiet(o) /\ Method[o] = "online" /\ paymentStatus[o] = "PAID" =>
        status[o] # "PENDING_PAYMENT"

\* markOrderPaymentFailed: 'no scenario where an unpaid online order should sit
\* in the fulfilment queue'.
UnpaidNeverFulfilled ==
    \A o \in Orders : Method[o] = "online" /\ paymentStatus[o] \notin Settled =>
        status[o] \in {"none", "PENDING_PAYMENT", "CANCELLED"}

\* Units taken off the shelf by a checkout that has not inserted its order yet,
\* or given up by an order and not yet back on the shelf.
InTransit == {w \in Workers : At(w, "insertOrder") \/ At(w, "restock")}

UnitsAccountedFor == shelf + Cardinality(committed \ restored) + Cardinality(InTransit)

\* Two shoppers never hold the same unit, and cancelling, failing, expiring and
\* refunding an order, at once or again, put its unit back exactly once.
StockBalance == UnitsAccountedFor = Supply

\* The same when a statement may fail and the process may die at any point: a
\* unit may be lost, never invented.
NothingSoldTwice == UnitsAccountedFor <= Supply

\* 'Every caller that ends an order's life pairs the two': an order that ended
\* without reaching the customer has given its unit back.
EndedOrderReturnsStock ==
    \A o \in Orders : Quiet(o) /\ status[o] \in {"CANCELLED", "RETURNED"} => o \in restored

\* An order that is still to be packed, shipped or kept by the customer has its
\* unit: nothing has put it back on sale.
LiveOrderHoldsStock ==
    \A o \in Orders : Quiet(o) /\ status[o] \notin CLOSED \cup {"none"} =>
        o \in committed \ restored

\* CLOSED_ORDER_STATUSES: 'no transition of any kind is legal', whichever
\* handler had read the order while it was still open.  It is about customers, admins
\* and sweeps: a scan may still move a closed order, and no run that checks this has scans.
ClosedIsFinal ==
    [][\A o \in Orders : status[o] \in CLOSED => status'[o] = status[o]]_vars

\* markOrderPaid is 'conditional on the order still being unpaid': an order
\* whose money went back does not become a paid one.
RefundStands ==
    [][\A o \in Orders : paymentStatus[o] \in {"REFUNDED", "PARTIALLY_REFUNDED"} =>
          paymentStatus'[o] # "PAID"]_vars

\* TERMINAL_ORDER_STATUSES: 'nothing should un-deliver a delivered order'.
PostDelivery == {"DELIVERED", "RETURN_REQUESTED", "RETURNED"}
NeverUndelivered ==
    [][\A o \in Orders : status[o] \in PostDelivery => status'[o] \in PostDelivery]_vars

\* What an event marked PROCESSED must have left behind.
Applied(e) ==
    CASE e.about = "captured"  -> /\ paymentStatus[e.order] \in Settled
                                  /\ status[e.order] # "PENDING_PAYMENT"
      [] e.about = "failed"    -> status[e.order] # "PENDING_PAYMENT"
      [] e.about = "DELIVERED" -> paymentStatus[e.order] # "COD_PENDING"
      [] e.about = "RTO_DELIVERED" -> e.order \in restored
      [] OTHER                 -> shippingStatus[e.order] # "NOT_SHIPPED"

\* An event is reported as processed only when all its effects are in place,
\* not when some of them are and the rest can no longer happen.
ProcessedMeansApplied ==
    \A e \in Event : Quiet(e.order) /\ events[e] = "PROCESSED" => Applied(e)

\* 'A prepaid order that is cancelled owes the customer their money back.'
CancelledPaidIsRefunded ==
    \A o \in Orders : Quiet(o) /\ status[o] = "CANCELLED" => paymentStatus[o] # "PAID"

\* The customer who cancels an order that is PAID at that moment is cancelling
\* with a handler that knows it, and will give the money back.
CancellationSeesPayment ==
    [][\A o \in Orders :
          paymentStatus[o] = "PAID" /\ status[o] # "CANCELLED" /\ status'[o] = "CANCELLED" =>
              \E w \in Workers : job[w].order = o /\ At(w, "setIfSame") /\ job[w].flag]_vars

\* The payments row of a PAID order says PAID, so that a refund can be made.
LedgerKnowsPayment ==
    \A o \in Orders : Quiet(o) /\ Method[o] = "online" /\ paymentStatus[o] = "PAID" =>
        \E k \in Attempts : ledger[o][k] = "PAID"

\* 'Cash collected on delivery is the moment a COD order is actually paid.'
DeliveredCodIsPaid ==
    \A o \in Orders : Quiet(o) /\ Method[o] = "cod" /\ status[o] = "DELIVERED" =>
        paymentStatus[o] # "COD_PENDING"

\* An abandoned checkout does not hold the last unit for ever: the payment
\* arrives, fails, is cancelled, or the sweep ends the order.
PendingPaymentEnds ==
    \A o \in Orders : status[o] = "PENDING_PAYMENT" ~> status[o] # "PENDING_PAYMENT"

===============================================================================
