------------------------------- MODULE Refunds -------------------------------
(***************************************************************************)
(* The refunds of one paid online order (services/fulfillment,             *)
(* refundOrderPayment, reconcileRefund and recordProviderRefund).          *)
(*                                                                         *)
(* Money leaves through a request to the payment provider that may be      *)
(* refused, accepted, or time out with either of the two having happened.  *)
(* A refund is therefore a row claimed before the request, under a lock of *)
(* the order that turns a second caller away; the row keeps its share of   *)
(* the balance until the provider has been asked.  Webhooks report the     *)
(* same refunds, and those made in the provider's dashboard, without any   *)
(* lock.  One action is one SQL statement or one call of the provider.     *)
(***************************************************************************)
EXTENDS Integers, FiniteSets, FiniteSetsExt

CONSTANTS
    Attempts,   \* ids of the refunds rows this program may insert
    Dashboard,  \* refunds somebody makes in the provider's dashboard
    Workers,    \* calls of the three functions that may run at the same time
    Keys,       \* idempotency keys
    None,       \* no key, no worker, no row
    Paid,       \* orders.amount_paid, in the smallest unit worth telling apart
    Asked,      \* bound: the amounts a refund is asked for with each key, or none
    ByHand,     \* bound: the amounts refunded in the dashboard
    MaxLost,    \* bound: rows whose call stops before it has counted them
    Faults      \* what may go wrong besides timeouts: see the ASSUME

ASSUME RefundConstants ==
    /\ Paid \in Nat \ {0}
    /\ Asked \in [Keys \cup {None} -> SUBSET (1 .. Paid)]
    /\ ByHand \subseteq 1 .. Paid /\ MaxLost \in Nat
    /\ Faults \subseteq {"fail", "late", "unnamed", "lockLost"}
    /\ IsFiniteSet(Attempts) /\ IsFiniteSet(Dashboard) /\ Attempts \cap Dashboard = {}
    /\ None \notin Keys \cup Workers \cup Attempts \cup Dashboard

\* The provider's refund ids.  A request carries its row's id in notes, so the
\* refund it makes is named after the row.
Handles == Attempts \cup Dashboard

VARIABLES
    refunds,    \* the rows inserted by refundOrderPayment
    imported,   \* provider refunds with a row inserted by recordProviderRefund
    refunded,   \* payments.refunded_minor and orders.amount_refunded
    announced,  \* refund references notifyRefund was called with
    lock,       \* holder of withOrderRefundLock
    job,        \* the call each worker is running
    razorpay,   \* external: the provider's refunds
    wire,       \* external: timed-out requests that have yet to arrive
    lost        \* history: rows whose handler stopped before counting them

rowVars == << refunds, imported >>
outside == << razorpay, wire >>
vars == << refunds, imported, refunded, announced, lock, job, razorpay, wire, lost >>

Aggregates == {"payment", "order"}
NoRow == [status |-> "none", amount |-> 0, key |-> None, known |-> FALSE]
NoJob == [call |-> "none", at |-> "idle", key |-> None, amount |-> 0, row |-> None,
          answer |-> "none"]
States == {"none", "pending", "processed", "failed"}

\* A row as notifyRefund and the aggregates see it.
Refs == {"row", "handle"} \X Handles

TypeOK ==
    /\ refunds \in [Attempts ->
          [status : {"none", "PENDING", "UNRESOLVED", "PROCESSED", "FAILED"},
           amount : 0 .. Paid, key : Keys \cup {None}, known : BOOLEAN]]
    /\ imported \subseteq Handles
    /\ refunded \in [Aggregates -> 0 .. Paid]
    /\ announced \subseteq Refs
    /\ lock \in Workers \cup {None}
    /\ job \in [Workers ->
          [call : {"none", "refund", "reconcile", "webhook"},
           at : {"idle", "lock", "measure", "claim", "ask", "record", "list", "settle",
                 "payment", "order", "announce"},
           key : Keys \cup {None}, amount : 0 .. Paid, row : Handles \cup {None},
           answer : States \cup {"refused", "ambiguous"}]]
    /\ razorpay \in [Handles -> [state : States, amount : 0 .. Paid]]
    /\ wire \subseteq Attempts
    /\ lost \in [Aggregates -> SUBSET Refs]

Init ==
    /\ refunds = [a \in Attempts |-> NoRow] /\ imported = {}
    /\ refunded = [g \in Aggregates |-> 0]
    /\ announced = {} /\ lock = None
    /\ job = [w \in Workers |-> NoJob]
    /\ razorpay = [h \in Handles |-> [state |-> "none", amount |-> 0]]
    /\ wire = {} /\ lost = [g \in Aggregates |-> {}]

-----------------------------------------------------------------------------
(* What the rows say.                                                      *)

Total(amount, S) == MapThenSumSet(LAMBDA x : amount[x], S)

\* SUM(amount_minor) of every row that is not FAILED; S: the imported ones.
Held(S) ==
    Total([a \in Attempts |-> refunds[a].amount],
          {a \in Attempts : refunds[a].status \notin {"none", "FAILED"}})
    + Total([h \in Handles |-> razorpay[h].amount], S)

\* Mutant: a request whose outcome is unknown does not keep its key.
KeyRowsResolved(k) ==
    {a \in Attempts : refunds[a].key = k /\ refunds[a].status # "UNRESOLVED"}

\* The row of an idempotency key; there is at most one (idx_refunds_idempotency).
KeyRows(k) == {a \in Attempts : refunds[a].status # "none" /\ refunds[a].key = k}
KeyTaken(k) == k # None /\ KeyRows(k) # {}

\* Mutant: a webhook looks only for the rows of earlier webhooks.
IdImported(h) == h \in imported

\* Some row has provider_refund_id h (idx_refunds_provider_refund).
IdTaken(h) == h \in imported \/ (h \in Attempts /\ refunds[h].known)

\* Mutant: a refund the provider has accepted is taken for one that has been paid.
LocalStatusHopeful(state) ==
    IF state = "failed" THEN "FAILED" ELSE "PROCESSED"

LocalStatus(state) ==
    CASE state = "processed" -> "PROCESSED"
      [] state = "failed"    -> "FAILED"
      [] OTHER               -> "PENDING"

-----------------------------------------------------------------------------
(* Running a call.                                                         *)

Start(w, call, at, j) ==
    /\ job[w] = NoJob
    /\ job' = [job EXCEPT ![w] = [j EXCEPT !.call = call, !.at = at]]

Go(w, at) == job' = [job EXCEPT ![w].at = at]

\* The call has got a confirmed refund and goes on to count it.
GoCount(w, call, row, amount) ==
    job' = [job EXCEPT ![w] = [NoJob EXCEPT !.call = call, !.at = "payment",
                                            !.row = row, !.amount = amount]]

\* The call returns or throws; the lock it holds is released (finally).
Leave(w) ==
    /\ job' = [job EXCEPT ![w] = NoJob]
    /\ lock' = IF lock = w THEN None ELSE lock

\* A refund is asked for.  A key that already has a row is answered from it.
RequestRefund(w, k, m) ==
    /\ ~KeyTaken(k)
    /\ Start(w, "refund", "lock", [NoJob EXCEPT !.key = k, !.amount = m])
    /\ UNCHANGED << rowVars, refunded, announced, lock, outside, lost >>

\* An admin asks for the outcome of a row that is not settled.
Reconcile(w, a) ==
    /\ refunds[a].status \in {"PENDING", "UNRESOLVED"}
    /\ Start(w, "reconcile", "lock", [NoJob EXCEPT !.row = a])
    /\ UNCHANGED << rowVars, refunded, announced, lock, outside, lost >>

\* Mutant: a second caller is not turned away.
TakeLockAnyway(w) ==
    /\ job[w].at = "lock"
    /\ lock' = w
    /\ Go(w, IF job[w].call = "refund" THEN "measure" ELSE "list")
    /\ UNCHANGED << rowVars, refunded, announced, outside, lost >>

\* pg_try_advisory_lock.  A busy lock ends the call, and so does a key that has
\* got its row meanwhile.
TakeLock(w) ==
    /\ job[w].at = "lock"
    /\ IF lock # None \/ (job[w].call = "refund" /\ KeyTaken(job[w].key))
       THEN Leave(w)
       ELSE /\ lock' = w
            /\ Go(w, IF job[w].call = "refund" THEN "measure" ELSE "list")
    /\ UNCHANGED << rowVars, refunded, announced, outside, lost >>

-----------------------------------------------------------------------------
(* refundOrderPayment, under the lock.                                     *)

Measure(w) ==
    LET refundable == Paid - Held(imported) IN
    /\ job[w].at = "measure"
    /\ IF refundable <= 0
       THEN Leave(w)
       ELSE /\ job' = [job EXCEPT ![w].at = "claim",
                                  ![w].amount = IF @ < refundable THEN @ ELSE refundable]
            /\ UNCHANGED lock
    /\ UNCHANGED << rowVars, refunded, announced, outside, lost >>

\* The durable claim: the row is there before any money moves.
Claim(w) ==
    /\ job[w].at = "claim"
    /\ IF KeyTaken(job[w].key)
       THEN Leave(w) /\ UNCHANGED refunds
       ELSE \E a \in Attempts :
              /\ refunds[a] = NoRow
              /\ refunds' = [refunds EXCEPT ![a] =
                   [NoRow EXCEPT !.status = "PENDING", !.amount = job[w].amount,
                                 !.key = job[w].key]]
              /\ job' = [job EXCEPT ![w].at = "ask", ![w].row = a, ![w].key = None]
              /\ UNCHANGED lock
    /\ UNCHANGED << imported, refunded, announced, outside, lost >>

\* The request to the provider and its answer: it arrives and is accepted in
\* some state, or it is refused or lost; and the answer may get lost as well.
Ask(w) ==
    LET a == job[w].row IN
    /\ job[w].at = "ask"
    /\ \/ \E s \in States \ {"none"}, answer \in States \cup {"ambiguous"} :
             /\ answer \in {s, "ambiguous"}
             /\ razorpay' = [razorpay EXCEPT ![a] = [state |-> s, amount |-> job[w].amount]]
             /\ job' = [job EXCEPT ![w].at = "record", ![w].answer = answer]
             /\ UNCHANGED wire
       \/ \E answer \in {"refused", "ambiguous"} :
             /\ job' = [job EXCEPT ![w].at = "record", ![w].answer = answer]
             /\ wire' = IF answer = "ambiguous" /\ "late" \in Faults
                        THEN wire \cup {a} ELSE wire
             /\ UNCHANGED razorpay
    /\ UNCHANGED << rowVars, refunded, announced, lock, lost >>

\* Mutant: every answer that is not a success is a failure.
RefusedStatusPlain(answer) == "FAILED"

\* The row's status after an answer that was not a success.
RefusedStatus(answer) == IF answer = "ambiguous" THEN "UNRESOLVED" ELSE "FAILED"

\* The answer is written to the row.  A provider id that already has another
\* row makes the UPDATE throw.
Record(w) ==
    LET a == job[w].row
        answer == job[w].answer IN
    /\ job[w].at = "record"
    /\ \/ /\ answer \in {"refused", "ambiguous"}
          /\ refunds' = [refunds EXCEPT ![a].status = RefusedStatus(answer)]
          /\ Leave(w)
       \/ /\ answer \in States /\ a \in imported
          /\ Leave(w) /\ UNCHANGED refunds
       \/ /\ answer \in States /\ a \notin imported
          /\ refunds' = [refunds EXCEPT ![a].status = LocalStatus(answer), ![a].known = TRUE]
          /\ IF LocalStatus(answer) = "PROCESSED"
             THEN GoCount(w, "refund", a, job[w].amount) /\ UNCHANGED lock
             ELSE Leave(w)
    /\ UNCHANGED << imported, refunded, announced, outside, lost >>

-----------------------------------------------------------------------------
(* reconcileRefund, under the lock.                                        *)

\* The provider lists its refunds, or cannot be reached.
List(w) ==
    /\ job[w].at = "list"
    /\ \/ /\ job' = [job EXCEPT ![w].at = "settle",
                                ![w].answer = razorpay[job[w].row].state]
          /\ UNCHANGED lock
       \/ Leave(w)
    /\ UNCHANGED << rowVars, refunded, announced, outside, lost >>

\* Mutant: the confirmation does not look whether the row was counted before.
SettleAgain(w) ==
    LET a == job[w].row IN
    /\ job[w].at = "settle" /\ job[w].answer # "none"
    /\ refunds' = [refunds EXCEPT ![a].status = LocalStatus(job[w].answer), ![a].known = TRUE]
    /\ job' = [job EXCEPT ![w].at = IF LocalStatus(job[w].answer) = "PROCESSED"
                                    THEN "payment" ELSE "announce",
                          ![w].amount = refunds[a].amount]
    /\ UNCHANGED << imported, refunded, announced, lock, outside, lost >>

\* What the list says is written to the row; no match means the request never
\* arrived.
Settle(w) ==
    LET a == job[w].row
        answer == job[w].answer
        counts == answer = "processed" /\ refunds[a].status # "PROCESSED" IN
    /\ job[w].at = "settle"
    /\ \/ /\ answer = "none"
          /\ refunds' = [refunds EXCEPT ![a].status =
                           IF @ \in {"PENDING", "UNRESOLVED"} THEN "FAILED" ELSE @]
          /\ Leave(w)
       \/ /\ answer # "none" /\ a \in imported
          /\ Leave(w) /\ UNCHANGED refunds
       \/ /\ answer # "none" /\ a \notin imported
          /\ refunds' = [refunds EXCEPT ![a].status = LocalStatus(answer), ![a].known = TRUE]
          /\ IF counts
             THEN GoCount(w, "reconcile", a, refunds[a].amount) /\ UNCHANGED lock
             ELSE Leave(w)
    /\ UNCHANGED << imported, refunded, announced, outside, lost >>

-----------------------------------------------------------------------------
(* recordProviderRefund: refund.created and refund.processed, as often and *)
(* as late as the provider sends them.                                     *)

Webhook(w, h) ==
    /\ razorpay[h].state # "none"
    /\ ~IdTaken(h)
    /\ imported' = imported \cup {h}
    /\ job[w] = NoJob
    /\ GoCount(w, "webhook", h, razorpay[h].amount)
    /\ UNCHANGED << refunds, refunded, announced, lock, outside, lost >>

-----------------------------------------------------------------------------
(* What all three end with.                                                *)

Ref(w) == << IF job[w].call = "webhook" THEN "handle" ELSE "row", job[w].row >>

\* LEAST(amount, refunded + $2)
Raised(old, amount) == IF old + amount > Paid THEN Paid ELSE old + amount

\* The UPDATE of the payments row, then recordRefund's UPDATE of the order.
Count(w) ==
    /\ job[w].at \in Aggregates
    /\ refunded' = [refunded EXCEPT ![job[w].at] = Raised(@, job[w].amount)]
    /\ Go(w, IF job[w].at = "payment" THEN "order" ELSE "announce")
    /\ UNCHANGED << rowVars, announced, lock, outside, lost >>

\* notifyRefund; its event is keyed on the row, or on the provider's id.
Announce(w) ==
    /\ job[w].at = "announce"
    /\ announced' = announced \cup {Ref(w)}
    /\ Leave(w)
    /\ UNCHANGED << rowVars, refunded, outside, lost >>

-----------------------------------------------------------------------------
(* Faults and the provider.                                                *)

\* A statement of the call fails, or the process dies: the rest is never run.
Fail(w) ==
    /\ "fail" \in Faults
    /\ job[w] # NoJob
    /\ Leave(w)
    /\ lost' = [g \in Aggregates |->
                  IF job[w].at = "payment" \/ job[w].at = g THEN lost[g] \cup {Ref(w)}
                  ELSE lost[g]]
    /\ Cardinality(lost'["payment"] \cup lost'["order"]) <= MaxLost
    /\ UNCHANGED << rowVars, refunded, announced, outside >>

\* The session that holds the lock is cut off, and its holder goes on.
LoseLock ==
    /\ "lockLost" \in Faults
    /\ lock # None
    /\ lock' = None
    /\ UNCHANGED << rowVars, refunded, announced, job, outside, lost >>

\* A request arrives after its timeout.
ArriveLate(a) ==
    /\ a \in wire
    /\ wire' = wire \ {a}
    /\ razorpay' = [razorpay EXCEPT ![a] = [state |-> "pending", amount |-> refunds[a].amount]]
    /\ UNCHANGED << rowVars, refunded, announced, lock, job, lost >>

\* The provider accepts the request and answers without a refund id, or with a
\* body nobody can read: not a retryable error, hence taken for a refusal.
AskUnnamed(w) ==
    /\ "unnamed" \in Faults
    /\ job[w].at = "ask"
    /\ razorpay' = [razorpay EXCEPT ![job[w].row] = [state |-> "pending", amount |-> job[w].amount]]
    /\ job' = [job EXCEPT ![w].at = "record", ![w].answer = "refused"]
    /\ UNCHANGED << rowVars, refunded, announced, lock, wire, lost >>

RefundByHand(d, m) ==
    /\ razorpay[d].state = "none"
    /\ \E s \in {"pending", "processed"} :
         razorpay' = [razorpay EXCEPT ![d] = [state |-> s, amount |-> m]]
    /\ UNCHANGED << rowVars, refunded, announced, lock, job, wire, lost >>

ProviderSettles(h) ==
    /\ razorpay[h].state = "pending"
    /\ \E s \in {"processed", "failed"} :
         razorpay' = [razorpay EXCEPT ![h].state = s]
    /\ UNCHANGED << rowVars, refunded, announced, lock, job, wire, lost >>

Next ==
    \/ \E w \in Workers :
         \/ \E k \in Keys \cup {None} : \E m \in Asked[k] : RequestRefund(w, k, m)
         \/ \E a \in Attempts : Reconcile(w, a)
         \/ \E h \in Handles : Webhook(w, h)
         \/ TakeLock(w) \/ Measure(w) \/ Claim(w) \/ Ask(w) \/ Record(w)
         \/ List(w) \/ Settle(w) \/ Count(w) \/ Announce(w) \/ Fail(w)
    \/ \E d \in Dashboard, m \in ByHand : RefundByHand(d, m)
    \/ \E h \in Handles : ProviderSettles(h)

Spec == Init /\ [][Next]_vars

\* With the faults the code has no answer to.
FaultyNext ==
    \/ Next \/ LoseLock
    \/ \E a \in Attempts : ArriveLate(a)
    \/ \E w \in Workers : AskUnnamed(w)

FaultySpec == Init /\ [][FaultyNext]_vars

-----------------------------------------------------------------------------
(* Properties.                                                             *)

\* The provider has, or will have, sent this money.
Moved(h) == razorpay[h].state \in {"pending", "processed"}

\* However many refunds are asked for, time out, are reconciled and asked for
\* again, the requests of this program never send back more than was paid.
NeverPaysTwice ==
    Total([a \in Attempts |-> razorpay[a].amount], {a \in Attempts : Moved(a)}) <= Paid

\* A retried HTTP request, with the key of the first, never sends money again,
\* whatever became of the first.
KeyPaysOnce ==
    \A k \in Keys : Cardinality({a \in KeyRows(k) : Moved(a)}) <= 1

\* A row is FAILED, and its share of the balance free again, only when the
\* provider has not moved that money and is not going to.
FailedMovedNothing == \A a \in Attempts : refunds[a].status = "FAILED" => ~Moved(a)

Processed ==
    {<< "row", a >> : a \in {b \in Attempts : refunds[b].status = "PROCESSED"}}
    \cup {<< "handle", h >> : h \in imported}

\* Rows whose handler has yet to count them in g.
Underway(g) ==
    {Ref(w) : w \in {v \in Workers : job[v].at = "payment" \/ job[v].at = g}}

AmountOf ==
    [ref \in ({"row"} \X Attempts) \cup ({"handle"} \X Handles) |->
        IF ref[1] = "row" THEN refunds[ref[2]].amount ELSE razorpay[ref[2]].amount]

\* Both aggregates are the sum of the confirmed rows, each counted once, capped
\* at what was paid; only rows whose handler died before counting are missing.
AggregatesMatchRows ==
    \A g \in Aggregates :
        refunded[g] =
            Raised(0, Total(AmountOf, (Processed \ lost[g]) \ Underway(g)))

\* One refund of the provider is recorded and announced once, as a row of ours
\* or as the provider's, however the answer, the webhooks and a reconciliation
\* race.
RecordedOnce ==
    \A a \in Attempts :
        /\ ~(<< "row", a >> \in Processed /\ << "handle", a >> \in Processed)
        /\ ~(<< "row", a >> \in announced /\ << "handle", a >> \in announced)

\* Who is told of a refund is told of one that is PROCESSED and in both
\* aggregates.  One that is told under the number of our row has been paid by the
\* provider; one that is told under the provider's id, because a webhook came
\* first, the provider at least has (AnnouncedIsConfirmed asks for more).
ToldIsRecorded ==
    /\ announced \subseteq Processed
    /\ \A g \in Aggregates : announced \cap (lost[g] \cup Underway(g)) = {}
    /\ \A a \in Attempts : << "row", a >> \in announced => razorpay[a].state = "processed"
    /\ \A h \in Handles : << "handle", h >> \in announced => razorpay[h].state # "none"

-----------------------------------------------------------------------------
(* What the documentation says and the code does not do.                   *)

\* "A refund we issued already has its row, so the webhook conflicts and does
\* nothing": the webhook may be faster than the answer or the reconciliation.
OwnRefundNotImported == imported \cap Attempts = {}

\* "Aggregates move ONLY on a confirmed refund": refund.created announces one
\* that is still pending.
CountedIsConfirmed ==
    \A ref \in Processed : razorpay[ref[2]].state = "processed"

\* "Announced only once the provider has confirmed": refund.created announces a
\* refund, one made here included, that is pending and may yet fail.
AnnouncedIsConfirmed ==
    \A ref \in announced : razorpay[ref[2]].state = "processed"

\* "'PROCESSED' gateway confirmed; aggregates have been updated": a call that
\* stops after the row's UPDATE leaves them behind, and nothing repeats it.
QuietMeansCounted ==
    (\A w \in Workers : job[w] = NoJob) =>
        refunded["order"] = Raised(0, Total(AmountOf, Processed))
==============================================================================
