# Glamirk: a verification of the order, payment and stock protocols

Glamirk is a beauty shop: an Express backend over PostgreSQL (`src/backend`), a storefront
and an admin console (`src/frontend`, `src/admin`), shared types (`src/shared`), SQL
migrations (`src/database/migrations`) and a separate face-recommendation service
(`src/ai-face-recommendation`). What is hard in it is not any one function. It is that an
order, its payment, its refunds, its stock and its parcel are rows that a dozen request
handlers, two webhook endpoints and several periodic sweeps all write, almost never inside
one transaction, while three outside parties (payment gateway, courier, message providers)
answer late, twice or not at all. This directory models that part in TLA+, checks it with TLC
and proves parts of it with TLAPS.

## 1. Inventory of the system

Paths are under `src/backend/src` unless they begin with `src/`.

| Component | State it keeps | Operations | What makes it correct |
|---|---|---|---|
| SQL inventory, `services/inventory.service.ts` | `inventory` (available, reserved, sold), `inventory_reservations` (ACTIVE, COMMITTED, RELEASED), `inventory_transactions` (audit) | reserve, release, commit, restock, expire lapsed holds, adjust, ensure | units are conserved; counters equal the reservation rows; a basket is held whole or not at all; every transaction ends |
| Stock claims, `commitOrderStock` / `restoreOrderStock` in `services/fulfillment.service.ts` | `orders.stock_committed`, `orders.stock_restored` | claim, call the inventory, undo the claim | stock is taken and given back at most once per order; a finished order holds nothing |
| Checkout and payment routes, `routes/customer.routes.ts` | `orders`, `payments`, the catalogue document | checkout, verify, retry, cancel payment, cancel order | no unit sold twice; a refused gateway leaves no held stock |
| Payment outcomes, `markOrderPaid`, `markOrderPaymentFailed`, `transitionOrderStatus` | `orders.status`, `payment_status`, `amount_paid` | conditional UPDATEs | PAID only after a capture; a paid order is confirmed; an unpaid one never is |
| Webhook ledger, `routes/webhooks.routes.ts` | `webhook_events` (RECEIVED, PROCESSED, FAILED, IGNORED, `attempt_count`) | claim, finish, reconcile stuck events, expire unpaid orders | an event's effects happen once, and PROCESSED means they all did; abandoned checkouts end |
| Admin order actions, `routes/admin.routes.ts` | the same rows | status ladder, refund, book, recall, track | a closed order stays closed, its stock is returned |
| Shipments, `createShipmentForOrder` ... `applyShippingStatus` | `shipments`, `shipment_pickup_requests`, `orders.shipping_status` | book, ask for the day's pickup, recall, apply a scan | one parcel per order and one van per day; scans in any order never undo what they did before |
| Refunds, `refundOrderPayment`, `recordProviderRefund`, `reconcileRefund` | `refunds`, `payments.refunded_minor`, `orders.amount_refunded` | claim a row, ask the gateway, record what it says | never more than was paid; an ambiguous answer is never asked twice; the columns agree with the rows |
| Locks, `db/db.ts` | session advisory locks, an in-process FIFO chain, the connection pool | `withStockLock`, `withOrderShipmentLock`, `withOrderRefundLock` | mutual exclusion; released by `finally` or with the session |
| Catalogue document, `db/db.ts` | `cms_state`, one JSON row, and `cachedDb`, the copy in memory that every handler edits | load, save, seed | what is shown is what is stored; a save never undoes another handler's edit |
| Product types, `services/productType.service.ts` | `product_types`, a cache of it, the type ids written on products | list, create, rename, delete, reassign | every product resolves to a type that exists |
| Notification outbox, `services/notificationEngine.service.ts` | `notification_events`, `notification_deliveries` | enqueue, sweep with leases, record, retry by hand | one row per event and channel; one sender at a time; sent or given up in the end |
| One-time codes and phone sign-in, `services/otp.service.ts`, `routes/customer.routes.ts` | `customer_otp_codes`, `customers`, `customer_sessions` | issue, send, verify, purge, find / adopt / create the account | one live code, quotas hold, a code signs in once, a number has one account |
| Rewards, sessions, account deletion | ledger, session and customer rows | sign-up bonus, open and drop sessions, ask for, cancel and perform a deletion | one grant per reference; a deletion that was cancelled does not happen |
| Media, sections, reviews, e-mail, other account CRUD, sitemap, database tools, user interfaces, face recommendation | rows of their own | single-row reads and writes, pure I/O | no protocol |

How they interact: the routes and webhooks call `markOrderPaid`, `markOrderPaymentFailed`
and `applyShippingStatus`; those call the stock claims; the claims take `withStockLock`,
update the order and call the SQL inventory, which opens its own transaction on another
connection. A cancelled paid order starts a refund and the recall of its parcel without
waiting for either. Every one of these writes an event into the outbox. `server.ts`
(166-260) starts the sweeps in the same process. Nothing is shared but the rows, and, inside
the one process, the catalogue's cached object.

What is hard: every handler is a sequence of separately committed statements, so another
may run between any two of them and the process may die there; what a handler read earlier
may be stale when it writes; webhooks are repeated, late and out of order, and a sweep
retries them; a timed-out request to a provider may have been carried out; row locks are
taken one at a time by operations with different orders; a deadlock victim's failure is
reported as a value that some callers do not look at; an object in memory is edited in place
before the save that may fail.

## 2. Modules

| Module | Contents |
|---|---|
| `OrderStock` | What the SQL inventory promises: `Hold`, `Release`, `Sell`, `Restock`, `Correct`, each a single step over a whole order. |
| `Inventory`, `MCInventory` | The SQL inventory and the two stock claims, one row lock or row update per step; two baskets over a shade and two product pools. |
| `SumProofs` | Lemmas on sums over finite sets, used by the modules of proofs that count units or money. |
| `InventoryProofs` | Types, conservation, counters and claims for every value of the constants, and that `Inventory` implements `OrderStock`. |
| `OrderStatus` | The status vocabulary of `src/shared/src/types.ts` and `isValidStatusTransition`. |
| `OrderLifecycle`, `MCOrderLifecycle` | The handlers that write one order: checkout, payment, webhooks, sweeps, admin, shipping. |
| `LifecycleInvariants` | The inductive invariants of `OrderLifecycle`: `IInv` and the three that stand on it. |
| `LifecycleProofs` | Types, payments and units of `OrderLifecycle` for any orders and handlers, that nothing begun is dropped, how an order ends, and what a processed event has done. |
| `Refunds`, `MCRefunds` | The refunds of one order, statement by statement, and the payment provider. |
| `RefundProofs` | The six safety properties of `Refunds` for any rows, workers and amounts. |
| `ShipmentBooking`, `MCShipmentBooking` | Booking and recalling a parcel, the day's pickup, and the courier. |
| `BookingProofs` | The six safety properties of `ShipmentBooking` for any orders, calls and limits. |
| `MessagePromise` | What the outbox promises about one message. |
| `NotificationOutbox`, `MCNotificationOutbox` | The outbox with its callers, sweeps and channels. |
| `NotificationProofs` | Safety of the outbox, and that it implements `MessagePromise`. |
| `PhoneSignIn`, `MCPhoneSignIn` | Codes, accounts, sessions, registration and deletion of one phone number. |
| `SignInProofs` | The safety properties of `PhoneSignIn` for any requests, numbers, accounts and limits. |
| `Catalogue`, `MCCatalogue` | The catalogue document and product types in one event loop. |
| `CatalogueProofs` | The stored document is the one shown, and nothing is oversold, for any products, orders and handlers. |

`OrderLifecycle` is the composition: it has a refund, a recall and a stock movement as single
steps of an order's life. `Inventory`, `Refunds`, `ShipmentBooking` and `Catalogue` take those
steps apart, with the failures that happen inside them.

### Inventory

A transaction is a record `txn[t]`: its operation, order, the step it is at, the basket line
and the rows still to lock. `lock[u]` is the row lock of an `inventory` row, `rowLock[o]` the
lock on an order's reservation rows, `stockLock` the holder of `withStockLock`. `undo[t]`
holds the images of the rows `t` has locked: `Rollback` puts them back, and `CommittedStock`
and `CommittedRow` read them, which is how READ COMMITTED looks to everybody else.

| Action | Code |
|---|---|
| `StartReserve`, `RefuseBasket`, `Rollback` | `commitOrderStock`: the claim, its own statement under the lock, and its undoing, which happens only while SQL is authoritative |
| `UnstockedLine`, `LockGating`, `ResolveCascade`, `LockCascade`, `TakeCascade` | `reserveStockForOrder` line by line: resolve the gating row, lock it and compare, resolve again without a lock, lock gating row and pool by id, take what is there |
| `StartRestore`, `StartCommit`, `StartSweep` | the callers: `restoreOrderStock`, `applyShippingStatus(DELIVERED)`, `releaseExpiredReservations` |
| `LockRows`, `ReleaseUnit`, `CommitUnit`, `RestockUnit`, `CommitTxn` | the three row-by-row moves, in id order |
| `DeadlockVictim`, `StatementFails`, `Crash` | a lock cycle PostgreSQL breaks, a failing statement, the process dying |
| `AdjustInventory`, `EnsureProductInventory` | an admin's absolute correction, and rows added by a product save |

`Basket[o]` lists the order's items already sorted, each with its fallback chain (size, then
shade, then product pool). Quantities, ids and reasons are data and are abstracted; a
reservation row's status is told by which of `active` and `committed` is positive.

### OrderLifecycle

A worker is one running handler: `job[w].todo` is the list of SQL statements it has still to
execute and the other fields are what it read before. Each action executes the statement at
the head, with the WHERE clause of the code as its condition, and an early return drops the
rest (`Skipping`). Starting a handler (`Checkout`, `Verify`, `PaymentWebhook`, `Retry`,
`CancelPayment`, `CancelOrder`, `SetStatus`, `Book`, `Unbook`, `ScanWebhook`, `Track`,
`Expire`, `Replay`) is the read it does first. `ClaimPaid`, `CommitStock` and `Confirm` are
`markOrderPaid`; `FailPayment` and `CancelUnpaid` are `markOrderPaymentFailed`;
`ClaimRestore` and `Restock` are `restoreOrderStock`, with `withStockLock` held from the one
to the other; `MoveShipment` ... `SellReserved` are `applyShippingStatus`.

`gateway` and `scanned` are the two parties outside the code: what has happened to a gateway
order, and the scans the parcel has had. They move by themselves, and a webhook may report
anything they have done at any later time, or never. `fetchPayment` looks at `gateway`.

Abstractions: an order buys one unit of one product whose stock is the catalogue document's
number `shelf` (`Inventory` has the SQL rows, `Catalogue` the document, and `CommitStock` and
`SellReserved` stand for their operations); a refund is one step with a gateway that answers
(`GiveBack`); there is no clock, so an order may be selected by the expiry sweep, and an event
by the reconciliation sweep, at any time after it qualifies but for its age; scans that move
no order are left out; the refund and the recall that a cancellation starts without awaiting
run in the order they are started; the courier's answer and the row UPDATE that records it
are one step (`AssignAwb`). Amounts are data: the branches that compare the captured amount
with the order's (verify 2284-2290, the webhook 179-187, the replay 532) are left out, and a
refund is `part` or `full`. `RecallShipment` joins the courier's answer with the UPDATE of the
shipments row that follows it. `Restock` joins the document's unit with the release of the
SQL rows.

### Refunds

A worker is one call of `refundOrderPayment`, `reconcileRefund` or `recordProviderRefund`, and
`job[w].at` the statement it is about to execute. `refunds[a]` is the row with that id;
`known` says that the provider's refund id has been written on it; `imported` holds the
provider's refunds that `recordProviderRefund` inserted as rows of their own. `refunded` has the two
aggregate columns, `announced` the references `notifyRefund` was called with, `lock` the
try-lock of the order (a second caller is turned away, not queued). `razorpay` is the
provider, and `wire` the timed-out requests that reach it later.

`RequestRefund`, `TakeLock`, `Measure`, `Claim`, `Ask`, `Record`, `Count`, `Announce` are
`refundOrderPayment` in its order: balance under the lock, the PENDING row before the request,
three kinds of answer (refused, ambiguous, a refund), the conditional UPDATE, the two clamped
columns, the notice. `Reconcile`, `List`, `Settle` are `reconcileRefund`; `Webhook` is
`recordProviderRefund`, which takes no lock. `Fail` is a failed statement or the death of the process,
`LoseLock` a lost lock session, `ArriveLate` a request that arrives after its timeout was
reported, `AskUnnamed` one that is accepted without a refund id in the answer; these three
belong to `FaultySpec` only.

### ShipmentBooking

`Book`, `TakeLock`, `Claim`, `CountAttempt`, `Check`, `Draw`, `KeepWaybill`, `Create`,
`AssignAwb`, `NoteAwb` are `createShipmentForOrder`; `RequestPickup`, `ClaimPickup`, `AskVan`,
`ClosePickup` are `ensureWarehousePickup`; `CancelOrder`, `Unbook`, `ReadShipment`,
`AskCancel`, `Recalled`, `NoteRecall` are the cancellation and `cancelShipmentForOrder`. The
courier has `drawn`, `parcels` and `vans`; each of its calls may be refused, or be carried out with the answer
lost, and `unheard` counts the vans whose request timed out. `Scanned` is what
`applyShippingStatus` does to the two rows when the courier reports something, late reports
included: besides the status it writes the waybill into `awb_code`
(`COALESCE($3, awb_code)`, 987), the second writer of that column, if the status is news. A
push may name the order instead of the waybill and then leaves it alone. So an order whose
creation lost its answer becomes booked, and recallable, with the first scan of its parcel.
Weight, address, label and package count are data, and a booking that they stop fails
at `Check`.

### NotificationOutbox and MessagePromise

`call[c]` is the transaction of one `enqueueNotification` (`InsertEvent`,
`InsertDeliveries`, `Commit`, `Rollback`): a second insert of the same dedupe key waits until
the first transaction ends, as the unique index makes it. `lane[w]` is one of the parallel
deliveries of a sweep (`Sweep`, `Claim`, `LoseRace`, `Accept` or `Decline`, `Record`); `row[d].due` is
whether `next_attempt_at`, which is both back-off and lease, has passed (`Lapse`). `accepted`
is what the channel took and `doubt` whether the program knows. `MessagePromise` sees, of
each message, none, queued, sent or given up (`Stage`), and says that the messages of an event
are queued together and once, that a provider is told again only while the last acceptance is
in doubt, that `sent` means it was told, and that a queued message ends.

### PhoneSignIn

`ask[c]` is a request for a code (`LockPhone`, `MayIssue`, `Supersede`, `Issue`, `Sent`,
`NotSent`, `Retire`), with the rows it has locked until COMMIT; `check[v]` a submission
(`Submit`, `Miss`, `Expire`, `Consume`, then `FindExact`, `FindLegacy`, `Claim`, `Touch`,
`Create`, `GrantBonus`, `OpenSession`); `form[f]` a registration with e-mail and password.
`accounts` is in the order of `created_at`. `AskDeletion`, `CancelDeletion`, `SelectDue`,
`Close` and `DropSessions` are the account routes and the daily sweep, `Purge` the sweep of old codes. The clock `now` is
real here, because quotas, cooldown and expiry are counts over windows: a code's `created_at`
is the start of the issuing transaction (PostgreSQL's NOW()), not its end. Accounts that
predate phone sign-in (`OldAccounts`) carry a typed number only. `SMS_PROVIDERS` is empty in
this version, so a server-issued code reaches its reader only on the development console, which
sendOtpMessage answers as sent; `Sent` and `NotSent` stand for any transport added to the table.

### Catalogue

The server is one thread: `Turn(w)` lets only one handler run until it reaches a step in
`Waits`, which somebody else begins (a lock, a query, an answer). A handler is again a list
`job[w].todo`. `doc[w]` is the object a load made and `cached` whose object the process
shares, so that two handlers edit one object and a handler that loaded before a restart of
the cache edits another. `Send`, `Upsert`, `Saved` are `saveDatabase`: the document as it is at
that moment goes out, reaches PostgreSQL and is answered, or not. `TakeStock`, `PlaceOrder`,
`ClaimRestore`, `RestockItems` are the document's stock in checkout and cancellation; `FindProduct`
... `EditPage` the admin's product and content handlers, with the index they keep across an
await; `CheckName` ... `MoveProducts` the product types with their cache. An edit merges the
admin's form into its copy of the product, the stock number in it included: `Entered` are the
numbers a form may send, typed now or shown when it was opened, and without one of them the copy
keeps its own. `granted` counts what such edits have added to a product's stock.

Abstractions: an admin gives a new product an id that no other has; an await on a settled promise does not yield; a captured array of products is
the current one; a hole in a list is bounded by one entry past its end; a count and its
answer are one step; a SELECT after a crash sees the saves that were executed. Sections of products have
the shape of types and are left out, as are the form's other fields (an id or a `subCategory`
in its body) and the recomputed rating. The other sections of the content are edited by handlers of the shape of `EditPage`.

## 3. What TLC checks

Every run is a cfg of the same name; a cfg gives the constants values and nothing else.

| Run | Question | Properties |
|---|---|---|
| `inventory_crash` | two connections, failing statements and process death; holds that lapse | `TypeOK`, `Conservation`, `CountersMatchRows`, `UnclaimedHoldsNothing`, `Serializable` (Inventory implements `OrderStock`) |
| `inventory_claims` | what a standing claim guarantees when nothing fails but the victim of a lock cycle, while an admin lowers stock and adds rows; do all transactions end, those in a cycle included | `ClaimCoversEveryLine`, `EveryTransactionEnds` |
| `lifecycle_payment` | checkout, verify, both payment webhooks, retry, both cancellations and expiry of one order | `PaidMeansCaptured`, `PaidOrderAdvances`, `UnpaidNeverFulfilled`, `EndedOrderReturnsStock` |
| `lifecycle_admin` | two COD orders compete for the last unit while customers and admins move them | `StockBalance`, `LiveOrderHoldsStock`, `ClosedIsFinal` |
| `lifecycle_courier` | booking, recall and scans by webhook and by tracking, late and reordered; a COD order, so no payment events, and nothing fails | `ProcessedMeansApplied`, `DeliveredCodIsPaid` |
| `lifecycle_crash` | statements fail and the process dies anywhere in the payment handlers and sweeps | `NothingSoldTwice` |
| `lifecycle_liveness` | an abandoned checkout ends | `PendingPaymentEnds` |
| `refunds` | a refund with a key and one without race each other, reconciliation, webhooks and the dashboard; answers are lost and calls stop | `NeverPaysTwice`, `KeyPaysOnce`, `FailedMovedNothing`, `AggregatesMatchRows`, `RecordedOnce`, `ToldIsRecorded` |
| `booking` | three calls book and recall one order's parcel while scans of it arrive; the courier's answers are lost and the process dies | `TypeOK`, `OneParcelPerOrder`, `ParcelIsOnRecord`, `AwbMeansParcel`, `CancelledIsCancelled`, `OneVanPerDay` |
| `outbox` | two callers announce one event, two lanes deliver it over two channels, one dies | `EventHasDeliveries`, `OneSender`, `KeepsPromise` (NotificationOutbox implements `MessagePromise`, liveness included) |
| `signin` | two requests for a code, two submissions, a registration, a closing account, a restart | `OneLiveCode`, `DailyQuota`, `CodeSignsInOnce`, `ReplacedNeverSignsIn`, `SameAccount` |
| `catalogue` | checkout, cancellation, every admin handler of products and types; a form enters a stock number, saves overtake each other or fail, the process restarts | `NeverOversold`, `StoredIsShown` |

### Bounds

Two connections, workers or lanes: nearly every race in this code is between two actors, one
that read and one that wrote.

- `Inventory`: two orders, one basket of one line and one of two lines that share a shade, its
  pool and differ in a second pool, so that shortfall, cascade, floor at zero and lock cycles
  all occur (`NoPoolBYet` provisions the second pool late; `PlentyStock` never refuses).
  `StockLevels` bounds the absolute values an admin enters. The connections of
  `inventory_claims` are not symmetric, because it checks liveness. Both runs have the row ids
  of migration 012 (`MigrationRank`), under which a reserve locks a shade before its pool and a
  delivery the pool before the shade: the cycle forms and one of the two is the victim.
- `OrderLifecycle`: `Supply = 1` makes every second checkout a competitor. `MaxRetries` bounds
  the payment rows of one order and `ReplayLimit` the attempts of the sweep. `Requests` chooses
  the handlers of a run: all of them together are beyond TLC, so each run holds those that its
  question is about. `Pushes` are the scans whose webhooks may come: `lifecycle_courier` leaves
  PICKED_UP to the tracking poll, since it stands for the same order status as IN_TRANSIT,
  which arrives late as well.
- `Refunds`: two rows this program may insert and one refund by hand out of a payment of two
  units, so that a part and the rest, the same part twice, and all of it against a part
  compete; one key, which a retry repeats; `MaxLost = 1` handler that stops before it has counted, because each loses
  a column for good. 1.7 million states.
- `ShipmentBooking`: three calls, because the interesting case is a booking, the pickup it
  leads to and a recall at once; `Limit = 5` is the code's; three vans, so that two requests
  may time out. 1.1 million states.
- `NotificationOutbox`: two channels of one event and `MAX_ATTEMPTS = 2`, enough for a retry
  and a give-up; one crash. 71 000 states.
- `PhoneSignIn`: the windows are 1 to 3 ticks in the order of the code's (cooldown, hour, day),
  the quotas 1 and 2, and time stops at 4, so that a day passes and a quota is spent and
  renewed. A code lives for 4 ticks, longer than the day of the quota and unlike in reality:
  with a quota of 1 this is how a second code meets a first that could still be used. Accounts
  that typed the number before: none or one. 2.1 million states.
- `Catalogue`: one product with one unit and two orders for it, a second product to create,
  two types with two names, and two events among admin requests, failures and restarts, beside
  any number of checkouts, cancellations and page views; a form may enter one unit. 2.1 million states.

`CHECK_DEADLOCK FALSE` is in the runs where everything may really come to its end with nothing
left to happen: an order delivered, a refund counted, the clock at its bound. The inventory can
always be adjusted and the catalogue always read.

### Fairness

`Inventory!FairSpec`: strong fairness on a transaction's next statement, because PostgreSQL
serves the waiters of a row lock in arrival order and runs its deadlock detector for every
blocked session; no caller has to come. `OrderLifecycle!FairSpec`: strong fairness on the
statements of a handler that was begun, since `withStockLock` is a FIFO chain, and on the two
sweeps, which `server.ts` calls for ever. `NotificationOutbox!FairSpec`: weak fairness on the
lanes' work (the sweep runs for ever and every channel call has a timeout), on the passing of
time and on a transaction that was begun. No customer, admin, gateway, courier or provider is
assumed to do anything, and a crash may always come within its bound.

### Assumptions on the outside

Three runs hold under an assumption the code makes and does not enforce. Each is a constant, and
TLC finds the property violated when it is dropped.

- `outbox.cfg` with `Slow = TRUE`: a channel call that outlasts the five-minute lease lets a second lane send
  the same delivery (`OneSender`). The WhatsApp call has a timeout; `mailer.ts` 118-123 gives
  nodemailer none, whose own default for a silent connection is longer than the lease. A channel's
  2xx is taken for an acceptance: `whatsappNotifications.service.ts` counts an answer it cannot
  read as sent, and `Decline` has no refusal that looks like one.
- `refunds.cfg` with `SPECIFICATION FaultySpec`, `Asked <- AnyAmount` and
  `Faults = {"lockLost"}`: PostgreSQL ends the session that holds the refund lock, and a
  second call measures the same balance (`NeverPaysTwice`, `FailedMovedNothing`). With
  `Faults = {"unnamed"}` the provider accepts a refund and answers 2xx without its id, or with
  a body that cannot be read: `payment.service.ts` 209-211 reports an error that is not
  retryable, and the row becomes FAILED (`FailedMovedNothing`).
- `catalogue.cfg` with `ColdStart = TRUE`: the load at boot fails, the server serves all the
  same, and two first requests each load a document of their own; a sale made in one is
  overwritten from the other (`StoredIsShown`, and later `NeverOversold`).

Saves that overtake each other on their pooled connections, and product edits beside other
requests, need no assumption: both are in the run `catalogue`. Its properties say what is left of
the stock then. `StoredIsShown` speaks of rows that no overtaken save has written (`late`),
`NeverOversold` of histories in which no restart has read such a row (`undone`), and counts the
units that edits have added (`granted`), by a number entered or by a copy older than a sale.
What they leave out is `SalesSurvive` and `EditsAddNothing` below.

### Disagreements between the code and its own comments

The twelve runs pass. Writing them showed where the code does something else than its comments
say. Each such place has a property that states the sentence. For the first list there is a
configuration beside the runs in which TLC finds it violated; the second list says how to
change a run's own configuration.

| Configuration | Property | What happens |
|---|---|---|
| `inventory_lost_commit` | `FinishedHoldsNothing` | `applyShippingStatus` ignores a failed `commitOrderReservations`; the deadlock victim leaves a delivered order reserving for ever |
| `inventory_lock_order` | `NoLockCycle` | the gating row is locked before the ordered cascade (inventory.service.ts 435), so a reserve and a release wait for each other; 163-165 says a consistent order prevents that |
| `inventory_two_lines` | `PoolHoldsWholeBasket` | the second line of a product finds its pool already held by the order and takes nothing (487) |
| `inventory_claim_crash` | `ClaimedHoldsARow` | a crash between the claim and the reservation leaves a claim with nothing behind it |
| `lifecycle_expiry_race` | `LiveOrderHoldsStock` | the expiry sweep restores the stock of an order whose payment landed after it was selected, although the status change was refused |
| `lifecycle_refund_undone` | `RefundStands` | `payment_status <> 'PAID'` is also true of REFUNDED: a slow verify makes a refunded order PAID |
| `lifecycle_paid_stuck` | `ProcessedMeansApplied` | a crash between the payment claim and the confirmation: the retry finds the order PAID, does nothing and the event is PROCESSED |
| `lifecycle_late_capture` | `CancelledPaidIsRefunded` | a capture after expiry makes a cancelled order PAID, and nothing refunds it |
| `lifecycle_cancel_race` | `CancellationSeesPayment` | the cancel route decides on a refund with what it read before the payment landed |
| `refunds_late_request` | `FailedMovedNothing` | a request that arrives after reconciliation listed nothing and found it "safe to mark FAILED" (fulfillment.service.ts ~1500) |
| `refunds_webhook_first` | `OwnRefundNotImported` | the webhook beats the answer: "A refund we issued already has its row, so the webhook conflicts" (~1407), but the row has no provider id yet and a second row is inserted |
| `refunds_uncounted` | `QuietMeansCounted` | a call that stops between the row and the columns leaves them behind for ever; migration 017 (~52): PROCESSED means "aggregates have been updated" |
| `booking_cancelled` | `BookedWhileLive` | an order cancelled during its booking still gets an AWB, after the recall "of the booking, if one was already made" (customer.routes.ts 2544) has looked |
| `booking_lost_answer` | `PendingHasNotMoved` | the answer to the creation is lost: the row stays PENDING, for "nothing has moved" (604-605), and the parcel is collected |
| `outbox_lost_event` | `AnnouncedIsRecorded` | a failed enqueue is swallowed; the header (19) promises "Exactly once per business event" |
| `signin_two_typed` | `SameAccount` | two old accounts typed the number and two sign-ins race: the slower no longer sees the oldest, which the faster has adopted, and opens a session of the other; 549-550 of customer.routes.ts: "the oldest account wins" |
| `signin_undo_deletion` | `ClosedWantedIt` | the sweep closes an account whose deletion was cancelled after it was selected; account.routes.ts 565-567: the owner can undo it |
| `catalogue_lost_product` | `NothingVanishes` | PUT /products keeps an index across awaits (admin.routes.ts 2007-2023); a deletion meanwhile makes it bring the product back, or write over another one |
| `catalogue_orphan` | `EveryProductResolves` | a product is created between the DELETE of its type and the end of the cache that still lists it; "Deletion is the only operation here that can orphan, so it is the only one that is blocked outright" |
| `catalogue_undone_sale` | `SalesSurvive` | two saves overtake each other and a restart reads the older: "a restart would silently undo every checkout's stock deduction" (customer.routes.ts ~1876) |

With a run's configuration changed as said, TLC also finds these violated:

- `NeverUndelivered`, a PROPERTY, in `lifecycle_courier` with one worker,
  `Requests = {"checkout", "book", "scan", "setStatus"}` and `Pushes <- Scans`: RETURN_REQUESTED
  is not terminal, and a late scan takes the order back to SHIPPED.
- `ProcessedMeansApplied` in `lifecycle_courier` with `Method <- AllOnline`, `MaxRetries = 1` and
  `Requests = {"checkout", "captured", "retry"}`: the customer retries and pays while the
  checkout whose gateway order was refused is still giving its stock back, and its last UPDATE
  makes the paid order CANCELLED and FAILED; "the customer never got a payment screen, so there
  is nothing to reconcile later" (customer.routes.ts 1947-1948).
- `DeliveredCodIsPaid` in `lifecycle_courier` with `Requests = {"checkout", "setStatus"}`: an
  admin who sets DELIVERED by hand records no cash; "Cash collected on delivery is the moment
  a COD order is actually paid" (fulfillment.service.ts 1026).
- `LedgerKnowsPayment` in `lifecycle_payment` with one worker, `MaxRetries = 0` and
  `Requests = {"checkout", "captured", "failed"}`: a declined attempt reported late overwrites
  the `payments` row a refund needs.
- `CountedIsConfirmed` in `refunds` with `Asked <- AnyAmount`, `ByHand = {1, 2}`,
  `MaxLost = 3` and `Faults = {}`: `refund.created` announces a pending refund, and it is
  counted; "Aggregates move ONLY on a confirmed refund" (fulfillment.service.ts ~1281).
- `AnnouncedIsConfirmed` in `refunds` with `Asked <- AnyAmount` and `Faults = {}`: the same
  webhook makes `notifyRefund` tell the customer, of a refund made here too; "Announced only
  once the provider has confirmed" (the comment at fulfillment.service.ts 1310-1312).
- `NoSecondVan` in `booking`: a pickup request that times out after it was accepted is marked
  FAILED, and whoever asks next gets a second van; "A retried pickup booking is a second van,
  and the duplicate guard lives in the database" (delhivery.service.ts 569-570). That this is
  the only way to one is `OneVanPerDay`.
- `OpenMeansVan` in `booking` with `Limit = 2`: a crash after the OPEN row "would block every
  retry for the rest of the day behind a booking that does not exist" (~860), and it does.
- `SignedInIsWelcomed` in `signin` with `OldAccounts <- Nobody`: a restart between the account
  and its bonus; "what makes this endpoint safe to retry" (customer.routes.ts 623), but no
  retry grants it.
- `SameAccount` in `signin` with `OldAccounts <- Nobody` and `FormNumbers = {p1}`: the
  registration form stores a number nobody has proven (customer.routes.ts 210-213). Of two
  sign-ins of its owner, one has searched before the registration and creates an account, the
  other searches after it and adopts the form's: "the oldest account wins" (549-550) for one of
  them only.
- `EveryProductResolves` in `catalogue` with one worker, `Seed <- OneLegacyProduct`,
  `Requests = {"rename", "content"}` and no SYMMETRY: a rename that fails after the table's
  UPDATE leaves legacy products on the old name; "it is an invariant of renaming, not of one
  HTTP handler".
- `EditsAddNothing` in `catalogue` with `Entered = {}`: an edit of anything else, begun before a
  sale and finished after it, puts the copy with the sold unit back; "concurrent
  checkout requests never race on reading/decrementing the same product's stock" (db.ts 201-202),
  but the edit of a product takes no lock.

The proof that `Inventory` implements `OrderStock` found one more. Take a line with three
levels, size, shade and product, whose size has no `inventory` row yet. `reserveStockForOrder`
checks and locks the shade. If an admin's save now provisions the size with nothing in stock,
the second resolution finds the size first. It takes nothing from the size, nothing from the
shade, which is no longer in the cascade, and from the product's pool only what that may still
have: an order is accepted whose line is not held. The comment at inventory.service.ts 499-505
says "The gating unit is already known to have enough, so this clamp can only ever affect a
product-level pool". With two levels the row that was checked is always in the second
resolution, which is why `OwnRows` in section 4 stops there.

Three more were seen while modelling: `PendingPaymentEnds` fails when statements may fail
(`MayFail = TRUE` in `lifecycle_liveness.cfg`), because an order marked EXPIRED is never
selected again; `saveDatabase` refuses an empty product list, so the deletion of the last
product fails although its message says "Delete products individually if that is genuinely
intended"; and the dedupe key of PAYMENT_FAILED suppresses the notice of a second failure.

## 4. What TLAPS proves

Each module of proofs is about the same definitions that TLC runs, for every value of their
constants that meets the module's named assumption. Sets that are counted or added up over
(orders, refund rows, and the workers of `OrderLifecycle`) are assumed finite, as rows of a
table and running handlers are; all others may be infinite.

`SumProofs` has no theorem about the system. It proves of the library's `MapThenSumSet` that a
sum does not depend on the order in which its recursive function takes the elements, and how
it changes with a summand or an element. The induction theorems of the library cannot be
instantiated, so each of these is proved from a counterexample of least size, whose existence
is a fact about sets of numbers.

`InventoryProofs`, of `Inventory!Spec`, from `ConstantsAssumption`:

- `TypeCorrect` (`[]TypeOK`): no counter goes below zero. `StockIsConserved`
  (`[]Conservation`): available, reserved and sold add up to what was supplied, through
  rollbacks, deadlock victims and crashes.
- `CountersAddUp` (`[]CountersMatchRows`) and `UnclaimedIsFree` (`[]UnclaimedHoldsNothing`).
- `Serialized` (`Spec => Serializable`, the refinement of `OrderStock`), under
  `Authoritative => OwnRows`.
- `ClaimsAreCovered` (`[]ClaimCoversEveryLine`), under `Authoritative`, `OwnRows`,
  `MayFail = FALSE` and `TRUE \notin Lapses`.

Conservation is not inductive: a rollback restores an image taken earlier, so conservation
after it depends on the image. The invariant `IInv` adds `ImagesBalance` (only existing rows
are locked, and the image behind every row lock balances against `supplied`) and
`PointsAtLine`. `supplied` cannot change under a held lock, because `AdjustInventory` needs
the row free, so an image stays right until it is used. `Books` says that a row's counters
equal the sums over its reservations twice, for the current rows and for the rows as they
would be if every open transaction rolled back, and that a
reservation works on a claimed order that nobody else works on and that holds nothing yet. `Progress` says how far a transaction has got, row by
row and line by line, which is what its COMMIT shows to the others at once; `Invisible` is
the lemma that every other step is a stutter of `OrderStock`. `NothingLapses` and
`ClaimsStand` are what a claim keeps while others work. `OwnRows` (no two lines of a basket
share a row, no line has more than two levels) is no technical convenience:
`inventory_two_lines` and the three-level line of section 3 break the refinement without it.
A claim is not covered after a crash (`inventory_claim_crash`) and after its hold has lapsed,
so both are excluded from `ClaimsAreCovered` and from nothing else.

`RefundProofs`, of `Refunds!Spec`, from `RefundConstants`:

- `FailedRowsAreFree` (`[]FailedMovedNothing`), `KeysPayOnce` (`[]KeyPaysOnce`),
  `RefundsRecordedOnce` (`[]RecordedOnce`), `PaysBackOnce` (`[]NeverPaysTwice`),
  `AggregatesCountOnce` (`[]AggregatesMatchRows`) and `ToldOfWhatIsRecorded`
  (`[]ToldIsRecorded`). `Spec` leaves out late requests, acceptances without a refund id and
  lost lock sessions, each of which makes the first false.

The invariant has three layers. `IInv` holds no arithmetic: the lock makes one call at a time
the owner of its row (`Alone`); a request under way is about a fresh PENDING row (`Asking`); a
final answer of the provider's list stays true (`Reconciling`); what is counted or announced
is on record under the name it is told by (`Counting`); each row's status agrees with the
provider (`Truthful`). `Money` bounds the sum: the rows that have not FAILED ask together for
no more than was paid, and what the lock's holder has measured is still free when it claims
it. `Tally` relates the rows to the two columns: each processed refund is counted, lost by a
stopped call, or in the hands of exactly one call that will count it, and only then announce
it.

`BookingProofs`, of `ShipmentBooking!Spec`, from `BookingConstants`:

- `TypeCorrect` (`[]TypeOK`), `OnRecord` (`[]ParcelIsOnRecord`), `OneParcel`
  (`[]OneParcelPerOrder`), `AwbTrue` (`[]AwbMeansParcel`), `CancelledTrue`
  (`[]CancelledIsCancelled`) and `OneVan` (`[]OneVanPerDay`), with every fault of the module.

One parcel per order follows from a stronger fact: whatever the courier has of an order is
filed under the waybill in the order's row, and a waybill, once stored, never changes
(`Filed`). `Owner` and `Booking` say that from the lock to the AWB a booking works on its own
row, which a scan may still give its AWB and its status; the recall, which has no lock, holds
a waybill that is there to stay (`Recalling`). `OneAsks` says that a day without an OPEN row
has no van but those whose request timed out.

`LifecycleProofs`, of `OrderLifecycle!Spec`, from `LifecycleConstants`:

- `TypeCorrect` (`[]TypeOK`), `PaidIsCaptured` (`[]PaidMeansCaptured`) and `NeverSoldTwice`
  (`[]NothingSoldTwice`), whatever fails.
- `EveryUnitIsAccountedFor` (`[]StockBalance`), `NothingIsStranded` (`[]OnItsWay`),
  `PaidAdvances` (`[]PaidOrderAdvances`) and `EndedReturnsStock` (`[]EndedOrderReturnsStock`)
  under `MayFail = FALSE`, as in the runs that check them: a crash between a claim and what
  follows it breaks each (`lifecycle_paid_stuck`).

A handler is the list of statements it has still to execute, so its invariant is about lists:
in which order statements come (`InOrder`), what they carry (`Equipped`), and what is true of
the rows when one is at the head (`Ready`). With `Types`, `Inserted`, `Money` (what a row says
of a payment is true at the gateway) and `Balance` (units, those in a handler's hands
included) this is inductive. `OnItsWay` adds that a payment claimed but not confirmed, and an
order ended but not restored, has a handler with the follow-up next on its list.

How an order ends, the third part of `LifecycleProofs`, all under `NoScans`
(`Requests \cap {"scan", "track"} = {}`):

- `ClosedStaysClosed` (`Spec => ClosedIsFinal`, an action property): no closed order changes
  status, failures and crashes included, if no order is prepaid or nobody sets a status by
  hand.
- `UnpaidIsNotFulfilled` (`[]UnpaidNeverFulfilled`) if nobody sets a status by hand.
- `LiveOrdersHoldStock` (`[]LiveOrderHoldsStock`) if every order is paid on delivery.

The assumptions are those of the runs or weaker, and the code needs each. `follow` writes an
order's status without looking at it again, so a scan reopens a closed order. An
admin may confirm an unpaid order by hand. `voidOrder` cancels a prepaid order whose gateway
order was refused without looking at its status, which somebody may have moved meanwhile, and the
expiry sweep takes the stock of an order paid after it was selected (`lifecycle_expiry_race`).
The invariant `Closing` has four parts for the four restrictions: no statement of
`applyShippingStatus` is on a list (`Unscanned`); a handler that is to move an order has read
it open (`ReadOpen`); past the payment claim an order is paid or cancelled (`Ungraded`); a
restoring handler works on a closed order (`CashOnly`).

What a processed event has done, the last part, under `MayFail = FALSE` like the run
`lifecycle_courier`:

- `CashOfADeliveryIsRecorded` (`[]DeliveredCodIsPaid`) if nobody sets a status by hand: one who
  does can make an order DELIVERED and nobody collects (section 3).
- `ProcessedEventsAreApplied` (`[]ProcessedMeansApplied`) if no payment is retried: a retried
  one can be paid while the refused checkout is about to void the order
  (section 3). The run has orders paid on delivery only; the theorem covers the
  payment events too.

Neither is inductive, for an event is processed by one handler on the strength of what another
does. `applyShippingStatus` stops when both rows already show the scan's status, and the event
is marked PROCESSED although the handler that wrote them has not collected the cash yet. The
invariant `InEffect` therefore says of every effect that it is there or `Underway`: on the list
of a handler that has nothing before it but statements that cannot stop it. Its parts: the
handlers' lists as they are written in the code (`Scripts`); a shipping status stands for what
follows from it (`Shown`); a captured payment that does not show in the order's status is
about to (`Charged`); a processed event, or one whose deciding statement its handler has left
behind, has its effect (`Worked`); a DELIVERED order has its cash in or under way
(`HandedOver`); and a checkout that will void its order has no attempt at the gateway
(`Voided`). That a step keeps it is shown once, from what no step undoes (`Steady`), what it
does to the handlers (`Minds`) and to the rows (`Outcome`); a lemma for each statement and
each request then gives these three.

`NotificationProofs`, of `NotificationOutbox!Spec`, from `OutboxConstants`:

- `TypeCorrect` and `EventAndRows` (`[]EventHasDeliveries`). The invariant `EventInv` adds
  `OpenKeys` (two open transactions never hold one key, and none a key on record) and
  `RowsExist`.
- `LeaseExcludes` (`[]OneSender`) and `OutboxKeepsPromise` (`Spec => Promise!Safety`, the
  refinement's safety half) under `Slow = FALSE`. The invariant `LeaseInv` adds `Leases` (a
  busy lane's row is PENDING and not due), `Alone` (no two busy lanes share a row), `Heard`
  and `Known` (what the channel has for certain is SENT, or in the hands of the one lane that
  heard so). The refinement proof maps each action to its step of `MessagePromise` or to a
  stutter.

`SignInProofs`, of `PhoneSignIn!Spec`, from `SignInConstants`:

- `OneCodeLives` (`[]OneLiveCode`), `SignsInOnce` (`[]CodeSignsInOnce`), `NewestSignsIn`
  (`ReplacedNeverSignsIn`, an action property) and `QuotaHolds` (`[]DailyQuota`), for every
  quota, window and number of restarts.
- `SignsIntoOwner` (`[]SameOrTyped`), whatever was typed where: of two open accounts that
  proofs of one number have signed into, if they are not the same, one has no verified number
  and merely had this one typed in, and the other has it too. This is as much as the code
  gives: `signin_two_typed` and the changed `signin` of section 3 have two such accounts.
- `OneAccount` (`[]SameAccount`) in the case without ambiguity, that of the run: no two old
  accounts typed the same number and the registration form carries none.

`Issuing` says what a transaction knows while it holds its number's lock: it is alone there,
and when about to insert it has every live row of the number locked. `Proving` says that a code
that was accepted is not live again, and accepted once. `Posting` counts the codes on the books,
that is sent, being sent or still in the table, in every window of a day: a row that is gone
while its code may be on a handset is older than any window the next request looks back on, for
which the two days of retention must exceed one by what a transaction may take (`Retention >=
Window + MaxWait - 1`). `Belonging` says that the account a request has found, or a session is
of, is closed or owns the number: has it verified, or typed and none verified. `OneHolder` is
the unique index. `Owning` adds, for `OneAccount`, that a number has one owner in all; each
writer of accounts keeps owners or closes them.

`CatalogueProofs`, of `Catalogue!Spec`, from `CatalogueConstants`, all under `~ColdStart`:

- `HandlersInControl` (`[]ControlInv`), whatever else fails and in whatever order saves arrive.
- `StoredDocumentIsShown` (`[]StoredIsShown`), in whatever order the saves are executed.
- `NothingOversold` (`[]NeverOversold`), for any numbers a form may enter and edits beside any
  other request. The two histories the properties except, `late` and `undone`, are those of
  `SalesSurvive`.

A handler is again a list of steps, and `ControlInv` says of every list that the document is
loaded before it is used, that what edits it is followed by a save, that stock is moved after
the lock was taken, and of every handler that it works on the shared document (`Ctl`); that only the boot
runs while there is none (`BootInv`); and that a save under way has its handler waiting for it
or was given up (`SentInv`). It is inductive by itself, with a lemma for each step and request.
`ShownInv` adds that the last save under way, or the row when there is none, is the shared
document, but while a handler is between its edit and its save, or after a save has failed
(`Pending`, `Matches`), and that saves older than an executed one stand before all others
(`AgeInv`).

For the stock it is not enough that each version of the document that may still be read (the row
and each save under way, unless they are old, and the shared one) has no more of a product than
the orders that stand leave of what there was and was added (`VersionInv`). The order
is written only after the save, so a checkout that has taken its unit needs room for one order
more: in the shared document, in its own save and every later one, and once its save was
answered in the row and in all saves (`Reserved`). A cancellation that has claimed
the order but not returned its unit has that room in the shared document alone (`Claimed`),
and a crash between the two loses the unit but sells none twice. Both hold the stock lock, so one handler has
a unit in hand (`Holders`). An edit, whatever it writes, grants what it adds (`DocKeeps`).

Only model-checked:

- `EveryTransactionEnds`, `PendingPaymentEnds` and the liveness half of `KeepsPromise`:
  liveness under fairness is out of the prover's reach.

## 5. What is left

1. `Locks`: advisory locks that each keep a pooled connection while their callback asks for
   another one.
2. `WebhookLedger`: events of unknown orders and the attempt limit on its own.
3. Sections and ratings in `Catalogue`.

## 6. Not modelled, and why

The user interfaces and the face-recommendation service share no state with the order path.
The courier, gateway and message clients are HTTP and parsing; what they may answer is the
environment of the modules above. Media, review, address, wish-list and profile routes are
single-row CRUD, and the sitemap is a query. Tokens expire and do nothing else; the cache of
their version is not modelled. Migrations and command-line tools run with the program
stopped; the rows migration 012 leaves are `Inventory`'s initial states.

Within modelled components these are left out: labels, weights and the package count
(`ShipmentBooking`); the provider that verifies codes on the client, the change of a number,
the burst limiter in memory and the uniqueness of e-mail addresses (`PhoneSignIn`); what
happens inside a channel, the in-app tables and the order in which a pass takes its 50 rows
(`NotificationOutbox`); the pooled connections the locks hold.
