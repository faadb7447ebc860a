----------------------------- MODULE RefundProofs ------------------------------
(***************************************************************************)
(* Theorems about Refunds for every set of rows, dashboard refunds,        *)
(* workers and keys, every amount and every number of stopped calls.       *)
(*                                                                         *)
(* The inductive invariant has three layers, each resting on the one       *)
(* before.  IInv is what rows, requests and announcements say of each      *)
(* other and holds no arithmetic: its heart is that the order's lock makes *)
(* one call at a time the owner of its row, from the claim to the recorded *)
(* answer, and that what such a call believes of the provider can only     *)
(* have become truer since it learnt it.  Money bounds the sums: the rows  *)
(* that have not FAILED ask for no more, together, than was paid.          *)
(* Tally relates the rows to the two columns that count them and to who    *)
(* has been told.                                                          *)
(***************************************************************************)
EXTENDS Refunds, SumProofs, FiniteSetTheorems, TLAPS

Shape ==
    /\ DOMAIN refunds = Attempts
    /\ \A a \in Attempts : DOMAIN refunds[a] = {"status", "amount", "key", "known"}
    /\ DOMAIN job = Workers
    /\ \A w \in Workers : DOMAIN job[w] = {"call", "at", "key", "amount", "row", "answer"}
    /\ DOMAIN razorpay = Handles
    /\ \A h \in Handles : DOMAIN razorpay[h] = {"state", "amount"} /\ razorpay[h].state \in States
    /\ imported \subseteq Handles

Critical == {"measure", "claim", "ask", "record", "list", "settle"}

\* Only the holder of the lock is between taking it and recording an answer.
Alone == \A w \in Workers : job[w].at \in Critical => lock = w

\* A request under way is about a fresh row, and nobody has heard of it before.
Asking(w) ==
    /\ job[w].at \in {"ask", "record"} =>
          /\ job[w].row \in Attempts
          /\ refunds[job[w].row].status = "PENDING"
    /\ job[w].at = "ask" => razorpay[job[w].row].state = "none"
    /\ job[w].at = "record" =>
          /\ job[w].answer \in (States \cup {"refused", "ambiguous"}) \ {"none"}
          /\ job[w].answer = "refused" => razorpay[job[w].row].state = "none"
          /\ job[w].answer \in {"failed", "processed"} =>
                razorpay[job[w].row].state = job[w].answer

\* A final answer of the provider's list, and that it has no such refund, stay true.
Reconciling(w) ==
    /\ job[w].at = "lock" => job[w].call \in {"refund", "reconcile"}
    /\ (job[w].at = "lock" /\ job[w].call = "reconcile") \/ job[w].at \in {"list", "settle"} =>
          /\ job[w].row \in Attempts
          /\ refunds[job[w].row].status # "none"
    /\ job[w].at = "settle" =>
          /\ job[w].answer \in States
          /\ job[w].answer # "pending" => razorpay[job[w].row].state = job[w].answer

\* What is counted and announced is a refund on record under the name it is told by.
Counting(w) ==
    job[w].at \in Aggregates \cup {"announce"} =>
        IF job[w].call = "webhook" THEN job[w].row \in imported
        ELSE /\ job[w].row \in Attempts
             /\ refunds[job[w].row].known
             /\ razorpay[job[w].row].state = "processed"

Truthful(a) ==
    /\ refunds[a].status \in {"none", "PENDING", "UNRESOLVED", "PROCESSED", "FAILED"}
    /\ refunds[a].status = "none" => razorpay[a].state = "none"
    /\ refunds[a].status = "FAILED" => razorpay[a].state \in {"none", "failed"}
    /\ refunds[a].status = "PROCESSED" => refunds[a].known /\ razorpay[a].state = "processed"
    /\ refunds[a].known => refunds[a].status # "none" /\ a \notin imported

\* The unique index on the key.
KeysOnce ==
    \A a, b \in Attempts :
        /\ refunds[a].status # "none" /\ refunds[b].status # "none"
        /\ refunds[a].key = refunds[b].key /\ refunds[a].key # None
        => a = b

Told ==
    \A h \in Handles :
        /\ << "row", h >> \in announced =>
              h \in Attempts /\ refunds[h].known /\ razorpay[h].state = "processed"
        /\ << "handle", h >> \in announced => h \in imported

IInv ==
    /\ Shape /\ Alone /\ KeysOnce /\ Told
    /\ \A w \in Workers : Asking(w) /\ Reconciling(w) /\ Counting(w)
    /\ \A a \in Attempts : Truthful(a)

-----------------------------------------------------------------------------
LEMMA InitEstablishes == Init => IInv
  <1> SUFFICES ASSUME Init PROVE IInv
    OBVIOUS
  <1> USE DEF Init, NoRow, NoJob
  <1>1. Shape
    BY DEF Shape, States
  <1>2. Alone /\ KeysOnce /\ Told
    BY DEF Alone, KeysOnce, Told, Critical
  <1>3. \A w \in Workers : Asking(w) /\ Reconciling(w) /\ Counting(w)
    BY DEF Asking, Reconciling, Counting, Aggregates
  <1>4. \A a \in Attempts : Truthful(a)
    BY DEF Truthful, Handles
  <1> QED
    BY <1>1, <1>2, <1>3, <1>4 DEF IInv

\* What a worker does is no business of the others, as long as rows and provider stay.
LEMMA JobStep ==
    ASSUME IInv, NEW w \in Workers, UNCHANGED << rowVars, announced, razorpay >>,
           DOMAIN job' = Workers, DOMAIN job'[w] = DOMAIN job[w],
           \A v \in Workers \ {w} : job'[v] = job[v],
           \A v \in Workers \ {w} : job[v].at \in Critical => lock' = v,
           job'[w].at \in Critical => lock' = w,
           Asking(w)', Reconciling(w)', Counting(w)'
    PROVE  IInv'
  <1>1. Shape'
    BY DEF IInv, Shape, rowVars
  <1>2. Alone'
    BY DEF IInv, Alone
  <1>3. KeysOnce' /\ Told'
    BY DEF IInv, KeysOnce, Told, rowVars
  <1>4. \A v \in Workers : (Asking(v) /\ Reconciling(v) /\ Counting(v))'
    BY DEF IInv, Asking, Reconciling, Counting, rowVars
  <1>5. \A a \in Attempts : Truthful(a)'
    BY DEF IInv, Truthful, rowVars
  <1> QED
    BY <1>1, <1>2, <1>3, <1>4, <1>5 DEF IInv

LEMMA LeaveReleases ==
    ASSUME IInv, NEW w \in Workers, Leave(w)
    PROVE  /\ DOMAIN job' = Workers /\ DOMAIN job'[w] = DOMAIN job[w]
           /\ job'[w].at = "idle"
           /\ \A v \in Workers \ {w} : job'[v] = job[v]
           /\ \A v \in Workers \ {w} : job[v].at \in Critical => lock' = v
  BY DEF IInv, Shape, Alone, Leave, NoJob

LEMMA LeaveStep ==
    ASSUME IInv, NEW w \in Workers, Leave(w), UNCHANGED << rowVars, announced, razorpay >>
    PROVE  IInv'
  BY LeaveReleases, JobStep DEF Critical, Asking, Reconciling, Counting, Aggregates

-----------------------------------------------------------------------------
(* Steps that write no row.                                                *)

LEMMA QuietStep ==
    ASSUME IInv, NEW w \in Workers,
           \/ \E k \in Keys \cup {None} : \E m \in Asked[k] : RequestRefund(w, k, m)
           \/ \E a \in Attempts : Reconcile(w, a)
           \/ TakeLock(w) \/ Measure(w) \/ List(w) \/ Count(w) \/ Fail(w)
    PROVE  IInv'
  <1> USE DEF Aggregates
  <1>1. ASSUME NEW k \in Keys \cup {None}, NEW m \in Asked[k], RequestRefund(w, k, m)
        PROVE  IInv'
    <2>1. /\ job'[w].at = "lock" /\ job'[w].call = "refund"
          /\ DOMAIN job'[w] = DOMAIN job[w] /\ DOMAIN job' = Workers
          /\ \A v \in Workers \ {w} : job'[v] = job[v]
      BY <1>1 DEF IInv, Shape, RequestRefund, Start, NoJob
    <2>2. UNCHANGED << rowVars, announced, razorpay, lock >>
      BY <1>1 DEF RequestRefund, outside
    <2>3. (Asking(w) /\ Reconciling(w) /\ Counting(w))'
      BY <2>1 DEF Asking, Reconciling, Counting
    <2> QED
      BY <2>1, <2>2, <2>3, JobStep DEF IInv, Alone, Critical
  <1>2. ASSUME NEW a \in Attempts, Reconcile(w, a) PROVE IInv'
    <2>1. /\ job'[w].at = "lock" /\ job'[w].call = "reconcile" /\ job'[w].row = a
          /\ DOMAIN job'[w] = DOMAIN job[w] /\ DOMAIN job' = Workers
          /\ \A v \in Workers \ {w} : job'[v] = job[v]
      BY <1>2 DEF IInv, Shape, Reconcile, Start, NoJob
    <2>2. UNCHANGED << rowVars, announced, razorpay, lock >> /\ refunds'[a].status # "none"
      BY <1>2 DEF Reconcile, rowVars, outside
    <2>3. (Asking(w) /\ Reconciling(w) /\ Counting(w))'
      BY <2>1, <2>2 DEF Asking, Reconciling, Counting
    <2> QED
      BY <2>1, <2>2, <2>3, JobStep DEF IInv, Alone, Critical
  <1>3. CASE TakeLock(w)
    <2>1. CASE Leave(w)
      BY <1>3, <2>1, LeaveStep DEF TakeLock, outside
    <2>2. CASE ~Leave(w)
      <3>1. /\ lock = None /\ lock' = w /\ UNCHANGED << rowVars, announced, razorpay >>
            /\ Go(w, IF job[w].call = "refund" THEN "measure" ELSE "list")
        BY <1>3, <2>2 DEF TakeLock, outside
      <3>2. /\ job'[w].at = (IF job[w].call = "refund" THEN "measure" ELSE "list")
            /\ job'[w].row = job[w].row
            /\ DOMAIN job'[w] = DOMAIN job[w] /\ DOMAIN job' = Workers
            /\ \A v \in Workers \ {w} : job'[v] = job[v]
        BY <3>1 DEF IInv, Shape, Go
      <3>3. \A v \in Workers : job[v].at \notin Critical
        BY <3>1, RefundConstants DEF IInv, Alone
      <3>4. (Asking(w) /\ Reconciling(w) /\ Counting(w))'
        BY <1>3, <3>1, <3>2 DEF TakeLock, IInv, Asking, Reconciling, Counting, rowVars
      <3> QED
        BY <3>1, <3>2, <3>3, <3>4, JobStep
    <2> QED
      BY <2>1, <2>2
  <1>4. CASE Measure(w)
    <2>1. CASE Leave(w)
      BY <1>4, <2>1, LeaveStep DEF Measure, outside
    <2>2. CASE ~Leave(w)
      <3>1. /\ UNCHANGED << rowVars, announced, razorpay, lock >>
            /\ \E m : job' = [job EXCEPT ![w].at = "claim", ![w].amount = m]
        BY <1>4, <2>2, Zenon DEF Measure, outside
      <3>2. /\ job'[w].at = "claim"
            /\ DOMAIN job'[w] = DOMAIN job[w] /\ DOMAIN job' = Workers
            /\ \A v \in Workers \ {w} : job'[v] = job[v]
        BY <3>1 DEF IInv, Shape
      <3>3. (Asking(w) /\ Reconciling(w) /\ Counting(w))'
        BY <3>2 DEF Asking, Reconciling, Counting
      <3>4. lock = w
        BY <1>4 DEF Measure, IInv, Alone, Critical
      <3> QED
        BY <3>1, <3>2, <3>3, <3>4, JobStep DEF IInv, Alone
    <2> QED
      BY <2>1, <2>2
  <1>5. CASE List(w)
    <2>1. CASE Leave(w)
      BY <1>5, <2>1, LeaveStep DEF List, outside
    <2>2. CASE ~Leave(w)
      <3>1. /\ UNCHANGED << rowVars, announced, razorpay, lock >>
            /\ job' = [job EXCEPT ![w].at = "settle", ![w].answer = razorpay[job[w].row].state]
        BY <1>5, <2>2 DEF List, outside
      <3>2. /\ job'[w].at = "settle" /\ job'[w].row = job[w].row
            /\ job'[w].answer = razorpay[job[w].row].state
            /\ DOMAIN job'[w] = DOMAIN job[w] /\ DOMAIN job' = Workers
            /\ \A v \in Workers \ {w} : job'[v] = job[v]
        BY <3>1 DEF IInv, Shape
      <3>3. (Asking(w) /\ Reconciling(w) /\ Counting(w))'
        BY <1>5, <3>1, <3>2
        DEF List, IInv, Shape, Handles, Asking, Reconciling, Counting, rowVars, States
      <3>4. lock = w
        BY <1>5 DEF List, IInv, Alone, Critical
      <3> QED
        BY <3>1, <3>2, <3>3, <3>4, JobStep DEF IInv, Alone
    <2> QED
      BY <2>1, <2>2
  <1>6. CASE Count(w)
    <2>1. /\ job'[w].at \in {"order", "announce"} /\ job'[w].row = job[w].row
          /\ job'[w].call = job[w].call
          /\ DOMAIN job'[w] = DOMAIN job[w] /\ DOMAIN job' = Workers
          /\ \A v \in Workers \ {w} : job'[v] = job[v]
      BY <1>6 DEF IInv, Shape, Count, Go
    <2>2. UNCHANGED << rowVars, announced, razorpay, lock >>
      BY <1>6 DEF Count, outside
    <2>3. (Asking(w) /\ Reconciling(w) /\ Counting(w))'
      BY <1>6, <2>1, <2>2 DEF Count, IInv, Asking, Reconciling, Counting, rowVars
    <2> QED
      BY <2>1, <2>2, <2>3, JobStep DEF IInv, Alone, Critical
  <1>7. CASE Fail(w)
    BY <1>7, LeaveStep DEF Fail, outside
  <1> QED
    BY <1>1, <1>2, <1>3, <1>4, <1>5, <1>6, <1>7

-----------------------------------------------------------------------------
(* Steps that write a row, tell somebody, or move money.                   *)

LEMMA ClaimStep == ASSUME IInv, NEW w \in Workers, Claim(w) PROVE IInv'
  <1>1. CASE KeyTaken(job[w].key)
    BY <1>1, LeaveStep DEF Claim, rowVars, outside
  <1>2. CASE ~KeyTaken(job[w].key)
    <2>1. PICK a \in Attempts :
             /\ refunds[a] = NoRow
             /\ refunds' = [refunds EXCEPT ![a] =
                  [NoRow EXCEPT !.status = "PENDING", !.amount = job[w].amount,
                                !.key = job[w].key]]
             /\ job' = [job EXCEPT ![w].at = "ask", ![w].row = a, ![w].key = None]
      BY <1>2 DEF Claim
    <2>2. UNCHANGED << imported, announced, razorpay, lock >> /\ lock = w
      BY <1>2 DEF Claim, outside, IInv, Alone, Critical
    <2>3. /\ refunds'[a].status = "PENDING" /\ ~refunds'[a].known
          /\ refunds'[a].key = job[w].key
          /\ refunds[a].status = "none" /\ ~refunds[a].known
          /\ \A b \in Attempts \ {a} : refunds'[b] = refunds[b]
      BY <2>1 DEF IInv, Shape, NoRow
    <2>4. /\ job'[w].at = "ask" /\ job'[w].row = a
          /\ \A v \in Workers \ {w} : job'[v] = job[v]
      BY <2>1 DEF IInv, Shape
    <2>5. Shape'
      BY <2>1, <2>2 DEF IInv, Shape, NoRow
    <2>6. Alone' /\ Told'
      BY <2>2, <2>3, <2>4 DEF IInv, Alone, Told
    <2>7. KeysOnce'
      BY <1>2, <2>3 DEF IInv, KeysOnce, KeyTaken, KeyRows
    <2>8. ASSUME NEW v \in Workers PROVE (Asking(v) /\ Reconciling(v) /\ Counting(v))'
      <3>1. CASE v = w
        BY <2>2, <2>3, <2>4, <3>1
        DEF IInv, Asking, Reconciling, Counting, Truthful, Aggregates
      <3>2. CASE v # w
        BY <2>2, <2>3, <2>4, <3>2 DEF IInv, Asking, Reconciling, Counting
      <3> QED
        BY <3>1, <3>2
    <2>9. \A b \in Attempts : Truthful(b)'
      BY <2>2, <2>3 DEF IInv, Truthful
    <2> QED
      BY <2>5, <2>6, <2>7, <2>8, <2>9 DEF IInv
  <1> QED
    BY <1>1, <1>2

\* The provider makes one refund, or one that it has not settled goes on.
LEMMA MoneyMoves ==
    ASSUME IInv, NEW h \in Handles, UNCHANGED << rowVars, announced >>,
           DOMAIN razorpay' = Handles,
           DOMAIN razorpay'[h] = {"state", "amount"}, razorpay'[h].state \in States,
           \A g \in Handles \ {h} : razorpay'[g] = razorpay[g],
           razorpay[h].state \notin {"processed", "failed"},
           h \in Attempts => refunds[h].status \notin {"none", "FAILED"},
           DOMAIN job' = Workers, \A w \in Workers : DOMAIN job'[w] = DOMAIN job[w]
    PROVE  (Shape /\ KeysOnce /\ Told /\ \A a \in Attempts : Truthful(a))'
  <1>1. Shape'
    BY DEF IInv, Shape, rowVars
  <1>2. KeysOnce' /\ Told'
    BY DEF IInv, KeysOnce, Told, rowVars
  <1>3. \A a \in Attempts : Truthful(a)'
    BY DEF IInv, Truthful, rowVars, Handles
  <1> QED
    BY <1>1, <1>2, <1>3

LEMMA AskStep == ASSUME IInv, NEW w \in Workers, Ask(w) PROVE IInv'
  <1> DEFINE a == job[w].row
  <1>1. /\ a \in Attempts /\ a \in Handles /\ lock = w
        /\ refunds[a].status = "PENDING" /\ razorpay[a].state = "none"
        /\ UNCHANGED << rowVars, announced, lock >>
    BY DEF Ask, IInv, Asking, Alone, Critical, Handles
  <1>2. ASSUME NEW s \in States \ {"none"}, NEW answer \in {s, "ambiguous"},
               razorpay' = [razorpay EXCEPT ![a] = [state |-> s, amount |-> job[w].amount]],
               job' = [job EXCEPT ![w].at = "record", ![w].answer = answer]
        PROVE  IInv'
    <2>1. /\ job'[w].at = "record" /\ job'[w].row = a /\ job'[w].answer = answer
          /\ DOMAIN job' = Workers /\ \A v \in Workers : DOMAIN job'[v] = DOMAIN job[v]
          /\ \A v \in Workers \ {w} : job'[v] = job[v]
      BY <1>2 DEF IInv, Shape
    <2>2. /\ DOMAIN razorpay' = Handles /\ DOMAIN razorpay'[a] = {"state", "amount"}
          /\ razorpay'[a].state = s
          /\ \A g \in Handles \ {a} : razorpay'[g] = razorpay[g]
      BY <1>1, <1>2 DEF IInv, Shape
    <2>3. (Shape /\ KeysOnce /\ Told /\ \A b \in Attempts : Truthful(b))'
      BY <1>1, <2>1, <2>2, MoneyMoves
    <2>4. Alone'
      BY <1>1, <2>1 DEF IInv, Alone
    <2>5. Asking(w)' /\ Reconciling(w)' /\ Counting(w)'
      BY <1>1, <2>1, <2>2 DEF Asking, Reconciling, Counting, Aggregates, rowVars, States
    <2>6. ASSUME NEW v \in Workers \ {w} PROVE Asking(v)' /\ Reconciling(v)' /\ Counting(v)'
      <3>1. job[v].at \notin Critical
        BY <1>1 DEF IInv, Alone
      <3> QED
        BY <1>1, <2>1, <2>2, <3>1
        DEF IInv, Shape, Handles, Critical, Asking, Reconciling, Counting, rowVars
    <2> QED
      BY <2>3, <2>4, <2>5, <2>6 DEF IInv
  <1>3. ASSUME NEW answer \in {"refused", "ambiguous"}, UNCHANGED razorpay,
               job' = [job EXCEPT ![w].at = "record", ![w].answer = answer]
        PROVE  IInv'
    <2>1. /\ job'[w].at = "record" /\ job'[w].row = a /\ job'[w].answer = answer
          /\ DOMAIN job' = Workers /\ DOMAIN job'[w] = DOMAIN job[w]
          /\ \A v \in Workers \ {w} : job'[v] = job[v]
      BY <1>3 DEF IInv, Shape
    <2>2. Asking(w)' /\ Reconciling(w)' /\ Counting(w)'
      BY <1>1, <1>3, <2>1 DEF Asking, Reconciling, Counting, Aggregates, rowVars
    <2> QED
      BY <1>1, <1>3, <2>1, <2>2, JobStep DEF IInv, Alone
  <1> QED
    BY <1>2, <1>3 DEF Ask

\* The answer of a request, or of the list, is written to the row of a call that holds
\* the lock, and the call goes on to count it or leaves.
LEMMA AnswerStep ==
    ASSUME IInv, NEW w \in Workers, job[w].at \in {"record", "settle"},
           UNCHANGED << imported, announced, razorpay >>,
           NEW a, a = job[w].row, NEW status, NEW heard \in BOOLEAN,
           refunds' = IF heard
                      THEN [refunds EXCEPT ![a].status = status, ![a].known = TRUE]
                      ELSE [refunds EXCEPT ![a].status = status],
           heard => a \notin imported,
           status \in {"PENDING", "UNRESOLVED", "PROCESSED", "FAILED"},
           status = "FAILED" => razorpay[a].state \in {"none", "failed"},
           status = "PROCESSED" => heard /\ razorpay[a].state = "processed",
           \/ Leave(w)
           \/ /\ status = "PROCESSED"
              /\ \E call \in {"refund", "reconcile"} : \E amount : GoCount(w, call, a, amount)
              /\ UNCHANGED lock
    PROVE  IInv'
  <1>1. a \in Attempts /\ lock = w /\ refunds[a].status # "none"
    BY DEF IInv, Asking, Reconciling, Alone, Critical
  <1>2. /\ refunds'[a].status = status /\ refunds'[a].key = refunds[a].key
        /\ refunds'[a].known <=> refunds[a].known \/ heard
        /\ \A b \in Attempts \ {a} : refunds'[b] = refunds[b]
    <2>1. CASE heard
      BY <1>1, <2>1 DEF IInv, Shape
    <2>2. CASE ~heard
      BY <1>1, <2>2 DEF IInv, Shape
    <2> QED
      BY <2>1, <2>2
  <1>3. /\ job'[w].at \in {"idle", "payment"}
        /\ job'[w].at = "payment" => /\ job'[w].row = a /\ status = "PROCESSED"
                                     /\ job'[w].call \in {"refund", "reconcile"}
        /\ DOMAIN job' = Workers /\ DOMAIN job'[w] = DOMAIN job[w]
        /\ \A v \in Workers \ {w} : job'[v] = job[v]
    <2>1. CASE Leave(w)
      BY <2>1, LeaveReleases
    <2>2. CASE /\ status = "PROCESSED"
               /\ \E call \in {"refund", "reconcile"} : \E amount : GoCount(w, call, a, amount)
      <3>1. PICK call \in {"refund", "reconcile"} : \E amount : GoCount(w, call, a, amount)
        BY <2>2
      <3>2. PICK amount : GoCount(w, call, a, amount)
        BY <3>1
      <3> QED
        BY <2>2, <3>1, <3>2 DEF IInv, Shape, GoCount, NoJob
    <2> QED
      BY <2>1, <2>2
  <1>4. Shape'
    <2>1. /\ DOMAIN refunds' = Attempts
          /\ \A b \in Attempts : DOMAIN refunds'[b] = {"status", "amount", "key", "known"}
      BY <1>1 DEF IInv, Shape
    <2> QED
      BY <1>3, <2>1 DEF IInv, Shape
  <1>5. \A v \in Workers \ {w} : job[v].at \notin Critical
    BY <1>1 DEF IInv, Alone
  <1>6. Alone'
    BY <1>3, <1>5 DEF Alone, Critical
  <1>7. KeysOnce' /\ Told'
    <2>1. KeysOnce'
      <3>1. \A b \in Attempts :
               /\ refunds'[b].key = refunds[b].key
               /\ refunds'[b].status # "none" => refunds[b].status # "none"
        BY <1>1, <1>2
      <3> QED
        BY <3>1, ZenonT(60) DEF IInv, KeysOnce
    <2>2. Told'
      BY <1>1, <1>2 DEF IInv, Told
    <2> QED
      BY <2>1, <2>2
  <1>8. ASSUME NEW b \in Attempts PROVE Truthful(b)'
    <2>0. Truthful(b)
      BY DEF IInv
    <2>1. CASE b = a
      BY <1>2, <2>0, <2>1 DEF Truthful
    <2>2. CASE b # a
      BY <1>2, <2>0, <2>2 DEF Truthful
    <2> QED
      BY <2>1, <2>2
  <1>9. ASSUME NEW v \in Workers PROVE Asking(v)' /\ Reconciling(v)' /\ Counting(v)'
    <2>1. CASE v = w
      BY <1>1, <1>2, <1>3, <2>1 DEF Asking, Reconciling, Counting, Aggregates
    <2>2. CASE v # w
      <3>1. job'[v] = job[v] /\ job[v].at \notin Critical
        BY <1>3, <1>5, <2>2
      <3>2. \A b \in Attempts :
               /\ refunds[b].known => refunds'[b].known
               /\ refunds[b].status # "none" => refunds'[b].status # "none"
        BY <1>1, <1>2
      <3>3. Asking(v)'
        BY <3>1 DEF Critical, Asking
      <3>4. Reconciling(v)'
        BY <3>1, <3>2, ZenonT(60) DEF IInv, Critical, Reconciling
      <3>5. Counting(v)'
        BY <3>1, <3>2 DEF IInv, Counting
      <3> QED
        BY <3>3, <3>4, <3>5
    <2> QED
      BY <2>1, <2>2
  <1> QED
    BY <1>4, <1>6, <1>7, <1>8, <1>9 DEF IInv

LEMMA RecordStep == ASSUME IInv, NEW w \in Workers, Record(w) PROVE IInv'
  <1> DEFINE a == job[w].row
             answer == job[w].answer
  <1>1. /\ UNCHANGED << imported, announced, razorpay >> /\ job[w].at = "record"
        /\ a \in Attempts /\ answer \in (States \cup {"refused", "ambiguous"}) \ {"none"}
        /\ answer = "refused" => razorpay[a].state = "none"
        /\ answer \in {"failed", "processed"} => razorpay[a].state = answer
    BY DEF Record, outside, IInv, Asking
  <1>2. CASE /\ answer \in {"refused", "ambiguous"}
             /\ refunds' = [refunds EXCEPT ![a].status = RefusedStatus(answer)]
             /\ Leave(w)
    <2>1. /\ RefusedStatus(answer) \in {"UNRESOLVED", "FAILED"}
          /\ RefusedStatus(answer) = "FAILED" => razorpay[a].state = "none"
      BY <1>1, <1>2 DEF RefusedStatus
    <2> QED
      BY <1>1, <1>2, <2>1, AnswerStep
  <1>3. CASE Leave(w) /\ UNCHANGED refunds
    BY <1>1, <1>3, LeaveStep DEF rowVars
  <1>4. CASE /\ answer \in States /\ a \notin imported
             /\ refunds' = [refunds EXCEPT ![a].status = LocalStatus(answer), ![a].known = TRUE]
             /\ IF LocalStatus(answer) = "PROCESSED"
                THEN GoCount(w, "refund", a, job[w].amount) /\ UNCHANGED lock
                ELSE Leave(w)
    <2>1. /\ LocalStatus(answer) \in {"PENDING", "PROCESSED", "FAILED"}
          /\ LocalStatus(answer) = "FAILED" => razorpay[a].state = "failed"
          /\ LocalStatus(answer) = "PROCESSED" => razorpay[a].state = "processed"
      BY <1>1 DEF LocalStatus
    <2> QED
      BY <1>1, <1>4, <2>1, AnswerStep, ZenonT(60)
  <1> QED
    BY <1>2, <1>3, <1>4 DEF Record

LEMMA SettleStep == ASSUME IInv, NEW w \in Workers, Settle(w) PROVE IInv'
  <1> DEFINE a == job[w].row
             answer == job[w].answer
             settled == IF refunds[a].status \in {"PENDING", "UNRESOLVED"} THEN "FAILED"
                        ELSE refunds[a].status
  <1>1. /\ UNCHANGED << imported, announced, razorpay >> /\ job[w].at = "settle"
        /\ a \in Attempts /\ refunds[a].status # "none" /\ answer \in States
        /\ answer # "pending" => razorpay[a].state = answer
        /\ Truthful(a)
    BY DEF Settle, outside, IInv, Reconciling
  <1>2. CASE /\ answer = "none"
             /\ refunds' = [refunds EXCEPT ![a].status = settled]
             /\ Leave(w)
    <2>1. settled = "FAILED" /\ razorpay[a].state = "none"
      BY <1>1, <1>2 DEF Truthful
    <2> QED
      BY <1>1, <1>2, <2>1, AnswerStep
  <1>3. CASE Leave(w) /\ UNCHANGED refunds
    BY <1>1, <1>3, LeaveStep DEF rowVars
  <1>4. CASE /\ answer # "none" /\ a \notin imported
             /\ refunds' = [refunds EXCEPT ![a].status = LocalStatus(answer), ![a].known = TRUE]
             /\ IF answer = "processed" /\ refunds[a].status # "PROCESSED"
                THEN GoCount(w, "reconcile", a, refunds[a].amount) /\ UNCHANGED lock
                ELSE Leave(w)
    <2>1. /\ LocalStatus(answer) \in {"PENDING", "PROCESSED", "FAILED"}
          /\ LocalStatus(answer) = "FAILED" => razorpay[a].state = "failed"
          /\ LocalStatus(answer) = "PROCESSED" <=> answer = "processed"
      BY <1>1 DEF LocalStatus
    <2> QED
      BY <1>1, <1>4, <2>1, AnswerStep, ZenonT(60)
  <1> QED
    BY <1>2, <1>3, <1>4 DEF Settle

LEMMA WebhookStep == ASSUME IInv, NEW w \in Workers, NEW h \in Handles, Webhook(w, h)
                     PROVE IInv'
  <1>1. /\ UNCHANGED << refunds, announced, razorpay, lock >>
        /\ imported' = imported \cup {h} /\ h \notin imported
        /\ h \in Attempts => ~refunds[h].known
        /\ razorpay[h].state # "none" /\ job[w] = NoJob
    BY DEF Webhook, IdTaken, outside
  <1>2. /\ job'[w].at = "payment" /\ job'[w].row = h /\ job'[w].call = "webhook"
        /\ DOMAIN job' = Workers /\ DOMAIN job'[w] = DOMAIN job[w]
        /\ \A v \in Workers \ {w} : job'[v] = job[v]
    BY DEF IInv, Shape, Webhook, GoCount, NoJob
  <1>3. Shape'
    BY <1>1, <1>2 DEF IInv, Shape
  <1>4. Alone' /\ KeysOnce' /\ Told'
    BY <1>1, <1>2 DEF IInv, Alone, KeysOnce, Told, Critical
  <1>5. ASSUME NEW v \in Workers PROVE Asking(v)' /\ Reconciling(v)' /\ Counting(v)'
    <2>1. CASE v = w
      BY <1>1, <1>2, <2>1 DEF Asking, Reconciling, Counting
    <2>2. CASE v # w
      BY <1>1, <1>2, <2>2 DEF IInv, Asking, Reconciling, Counting
    <2> QED
      BY <2>1, <2>2
  <1>6. \A a \in Attempts : Truthful(a)'
    BY <1>1 DEF IInv, Truthful
  <1> QED
    BY <1>3, <1>4, <1>5, <1>6 DEF IInv

LEMMA AnnounceStep == ASSUME IInv, NEW w \in Workers, Announce(w) PROVE IInv'
  <1> DEFINE h == job[w].row
  <1>1. UNCHANGED << rowVars, razorpay >> /\ job[w].at = "announce" /\ Leave(w)
    BY DEF Announce, outside
  <1>2. announced' = announced \cup
           {<< IF job[w].call = "webhook" THEN "handle" ELSE "row", h >>}
    BY DEF Announce, Ref
  <1>3. IF job[w].call = "webhook" THEN h \in imported
        ELSE h \in Attempts /\ refunds[h].known /\ razorpay[h].state = "processed"
    BY <1>1 DEF IInv, Counting
  <1>4. Told'
    BY <1>1, <1>2, <1>3 DEF IInv, Told, rowVars
  <1>5. /\ DOMAIN job' = Workers /\ DOMAIN job'[w] = DOMAIN job[w] /\ job'[w].at = "idle"
        /\ \A v \in Workers \ {w} : job'[v] = job[v]
        /\ \A v \in Workers \ {w} : job[v].at \in Critical => lock' = v
    BY <1>1, LeaveReleases
  <1>6. Shape' /\ KeysOnce'
    BY <1>1, <1>5 DEF IInv, Shape, KeysOnce, rowVars
  <1>7. Alone'
    BY <1>5 DEF Alone, Critical
  <1>8. ASSUME NEW v \in Workers PROVE Asking(v)' /\ Reconciling(v)' /\ Counting(v)'
    <2>1. CASE v = w
      BY <1>5, <2>1 DEF Asking, Reconciling, Counting, Aggregates
    <2>2. CASE v # w
      BY <1>1, <1>5, <2>2 DEF IInv, Asking, Reconciling, Counting, rowVars
    <2> QED
      BY <2>1, <2>2
  <1>9. \A a \in Attempts : Truthful(a)'
    BY <1>1 DEF IInv, Truthful, rowVars
  <1> QED
    BY <1>4, <1>6, <1>7, <1>8, <1>9 DEF IInv

\* The provider on its own: what a call holds to be final it does not change.
LEMMA OutsideStep ==
    ASSUME IInv, \/ \E d \in Dashboard, m \in ByHand : RefundByHand(d, m)
                 \/ \E h \in Handles : ProviderSettles(h)
    PROVE  IInv'
  <1>1. PICK h \in Handles :
           /\ DOMAIN razorpay' = Handles
           /\ DOMAIN razorpay'[h] = {"state", "amount"} /\ razorpay'[h].state \in States
           /\ \A g \in Handles \ {h} : razorpay'[g] = razorpay[g]
           /\ razorpay[h].state = "pending" \/ (razorpay[h].state = "none" /\ h \notin Attempts)
    <2>1. ASSUME NEW d \in Dashboard, NEW m \in ByHand, RefundByHand(d, m)
          PROVE  /\ d \in Handles /\ d \notin Attempts
                 /\ DOMAIN razorpay' = Handles
                 /\ DOMAIN razorpay'[d] = {"state", "amount"} /\ razorpay'[d].state \in States
                 /\ \A g \in Handles \ {d} : razorpay'[g] = razorpay[g]
                 /\ razorpay[d].state = "none"
      BY <2>1, RefundConstants DEF RefundByHand, IInv, Shape, Handles, States
    <2>2. ASSUME NEW h \in Handles, ProviderSettles(h)
          PROVE  /\ DOMAIN razorpay' = Handles
                 /\ DOMAIN razorpay'[h] = {"state", "amount"} /\ razorpay'[h].state \in States
                 /\ \A g \in Handles \ {h} : razorpay'[g] = razorpay[g]
                 /\ razorpay[h].state = "pending"
      BY <2>2 DEF ProviderSettles, IInv, Shape, States
    <2> QED
      BY <2>1, <2>2
  <1>2. UNCHANGED << rowVars, announced, lock, job >>
    BY DEF RefundByHand, ProviderSettles
  <1>3. h \in Attempts => refunds[h].status \notin {"none", "FAILED"}
    BY <1>1 DEF IInv, Truthful
  <1>4. (Shape /\ KeysOnce /\ Told /\ \A a \in Attempts : Truthful(a))'
    <2>1. DOMAIN job' = Workers /\ \A w \in Workers : DOMAIN job'[w] = DOMAIN job[w]
      BY <1>2 DEF IInv, Shape
    <2> QED
      BY <1>1, <1>2, <1>3, <2>1, MoneyMoves
  <1>5. Alone'
    BY <1>2 DEF IInv, Alone
  <1>6. ASSUME NEW w \in Workers PROVE Asking(w)' /\ Reconciling(w)' /\ Counting(w)'
    <2>1. \A a \in Attempts : razorpay[a].state \in {"none", "failed", "processed"} =>
                               razorpay'[a] = razorpay[a]
      BY <1>1 DEF Handles
    <2>2. Asking(w)'
      BY <1>2, <2>1 DEF IInv, Asking, rowVars
    <2>3. Reconciling(w)'
      BY <1>2, <2>1 DEF IInv, Reconciling, rowVars, States
    <2>4. Counting(w)'
      BY <1>2, <2>1 DEF IInv, Counting, rowVars
    <2> QED
      BY <2>2, <2>3, <2>4
  <1> QED
    BY <1>4, <1>5, <1>6 DEF IInv

LEMMA NextPreserves == IInv /\ [Next]_vars => IInv'
  <1> SUFFICES ASSUME IInv, [Next]_vars PROVE IInv'
    OBVIOUS
  <1>1. CASE UNCHANGED vars
    BY <1>1 DEF vars, rowVars, outside, IInv, Shape, Alone, KeysOnce, Told, Asking,
                Reconciling, Counting, Truthful
  <1>2. CASE Next
    BY <1>2, QuietStep, ClaimStep, AskStep, RecordStep, SettleStep, WebhookStep,
       AnnounceStep, OutsideStep DEF Next
  <1> QED
    BY <1>1, <1>2

-----------------------------------------------------------------------------
\* A refund that is marked FAILED, its share of the balance free to be refunded again,
\* has moved no money and is not going to: whatever timed out, crashed, was reconciled or
\* was retried, as long as no request arrives after its row was reconciled and no lock is
\* lost (refundOrderPayment and reconcileRefund write FAILED in three places).
THEOREM FailedRowsAreFree == Spec => []FailedMovedNothing
  <1>1. IInv => FailedMovedNothing
    BY DEF IInv, Truthful, FailedMovedNothing, Moved
  <1> QED
    BY InitEstablishes, NextPreserves, <1>1, PTL DEF Spec

\* One idempotency key has one row and sends money once, however often the request is
\* repeated and however the first attempt ended.
THEOREM KeysPayOnce == Spec => []KeyPaysOnce
  <1>1. IInv => KeyPaysOnce
    <2> SUFFICES ASSUME IInv, NEW k \in Keys
                 PROVE  Cardinality({a \in KeyRows(k) : Moved(a)}) <= 1
      BY DEF KeyPaysOnce
    <2> DEFINE S == {a \in KeyRows(k) : Moved(a)}
    <2>1. CASE S = {}
      BY <2>1, FS_EmptySet
    <2>2. CASE S # {}
      <3>1. PICK a : a \in S
        BY <2>2
      <3>2. S = {a}
        BY <3>1, RefundConstants DEF IInv, KeysOnce, KeyRows
      <3>3. Cardinality({a}) = 1
        BY FS_Singleton
      <3> QED
        BY <3>2, <3>3
    <2> QED
      BY <2>1, <2>2
  <1> QED
    BY InitEstablishes, NextPreserves, <1>1, PTL DEF Spec

\* One refund of the provider is on record and announced under one name, the row's or the
\* provider's, however the answer, webhooks and reconciliations race for it: the unique
\* index on provider_refund_id is enough.
THEOREM RefundsRecordedOnce == Spec => []RecordedOnce
  <1>1. IInv => RecordedOnce
    <2> SUFFICES ASSUME IInv, NEW a \in Attempts
                 PROVE  /\ ~(<< "row", a >> \in Processed /\ << "handle", a >> \in Processed)
                        /\ ~(<< "row", a >> \in announced /\ << "handle", a >> \in announced)
      BY DEF RecordedOnce
    <2>1. << "row", a >> \in Processed => refunds[a].status = "PROCESSED"
      BY DEF Processed
    <2>2. << "handle", a >> \in Processed => a \in imported
      BY DEF Processed
    <2> QED
      BY <2>1, <2>2 DEF IInv, Truthful, Told, Handles
  <1> QED
    BY InitEstablishes, NextPreserves, <1>1, PTL DEF Spec

-----------------------------------------------------------------------------
(* The money.  The lock makes one call at a time the only one that adds a   *)
(* row, so what it has measured is still free when it claims it; no row     *)
(* that has given its share back takes it again.                            *)

Amounts ==
    /\ \A a \in Attempts : refunds[a].amount \in Nat
    /\ \A h \in Handles : razorpay[h].amount \in Nat
    /\ \A w \in Workers : job[w].amount \in Nat

\* What the row a holds of the balance, and all rows.
LiveAmount ==
    [a \in Attempts |-> IF refunds[a].status \in {"none", "FAILED"} THEN 0 ELSE refunds[a].amount]
Own == SumOver(LiveAmount, Attempts)

\* The provider has been asked for what the row says.
SentAsClaimed(a) == razorpay[a].state # "none" => razorpay[a].amount = refunds[a].amount

Fits(w) ==
    /\ job[w].at = "claim" => Own + job[w].amount <= Paid
    /\ job[w].at \in {"ask", "record"} => job[w].amount = refunds[job[w].row].amount
    /\ job[w].at = "settle" /\ job[w].answer = "pending" =>
          refunds[job[w].row].status \notin {"FAILED", "PROCESSED"}

Money ==
    /\ Amounts
    /\ \A a \in Attempts : SentAsClaimed(a)
    /\ Own <= Paid
    /\ \A w \in Workers : Fits(w)

\* Where a call is that has got a confirmed refund.
Stages == Aggregates \cup {"announce"}

\* What a call is about to count and announce is on record, under its amount, not yet
\* told, and nobody else's.
Owed(w) ==
    job[w].at \in Stages =>
        /\ job[w].call \in {"refund", "reconcile", "webhook"}
        /\ Ref(w) \in Processed \ announced
        /\ job[w].amount = AmountOf[Ref(w)]
        /\ \A g \in Aggregates : Ref(w) \notin lost[g]

OneCounts ==
    \A v, w \in Workers :
        job[v].at \in Stages /\ job[w].at \in Stages /\ Ref(v) = Ref(w) => v = w

Tally ==
    /\ DOMAIN refunded = Aggregates
    /\ \A h \in imported : razorpay[h].state # "none"
    /\ announced \subseteq Processed
    /\ \A g \in Aggregates : lost[g] \subseteq Processed \ announced
    /\ \A w \in Workers : Owed(w)
    /\ OneCounts
    /\ AggregatesMatchRows

-----------------------------------------------------------------------------
LEMMA MoneyInit == Init => Money
  <1> SUFFICES ASSUME Init PROVE Money
    OBVIOUS
  <1>1. \A a \in Attempts : LiveAmount[a] = 0
    BY DEF Init, NoRow, LiveAmount
  <1>2. Own = 0
    <2>1. IsFiniteSet(Attempts) /\ {} \in SUBSET Attempts
      BY RefundConstants
    <2> QED
      BY <1>1, <2>1, SumSubset, SumEmpty DEF Own
  <1> QED
    BY <1>2, RefundConstants DEF Init, NoRow, NoJob, Money, Amounts, SentAsClaimed, Fits, Handles

LEMMA OwnType ==
    ASSUME Amounts
    PROVE  Own \in Nat /\ \A a \in Attempts : LiveAmount[a] \in Nat
  <1>1. \A a \in Attempts : LiveAmount[a] \in Nat
    BY DEF Amounts, LiveAmount
  <1> QED
    BY <1>1, SumType, RefundConstants DEF Own

\* As long as no row takes a share of the balance, the shares do not grow.
LEMMA OwnFalls ==
    ASSUME Amounts,
           \A a \in Attempts :
              refunds'[a].status \notin {"none", "FAILED"} =>
                 /\ refunds[a].status \notin {"none", "FAILED"}
                 /\ refunds'[a].amount = refunds[a].amount
    PROVE  Own \in Nat /\ Own' \in Nat /\ Own' <= Own
  <1>1. \A a \in Attempts : LiveAmount'[a] \in Nat /\ LiveAmount'[a] <= LiveAmount[a]
    BY DEF Amounts, LiveAmount
  <1>2. Own \in Nat /\ \A a \in Attempts : LiveAmount[a] \in Nat
    BY OwnType
  <1>3. SumOver(LiveAmount', Attempts) \in Nat
    BY <1>1, SumType, RefundConstants
  <1>4. SumOver(LiveAmount', Attempts) <= SumOver(LiveAmount, Attempts)
    BY <1>1, <1>2, SumLess, RefundConstants
  <1> QED
    BY <1>2, <1>3, <1>4 DEF Own

\* What is measured covers the rows, and what the provider's own refunds add.
LEMMA HeldCovers ==
    ASSUME IInv, Amounts
    PROVE  Held(imported) \in Nat /\ Own <= Held(imported)
  <1> DEFINE live == {a \in Attempts : refunds[a].status \notin {"none", "FAILED"}}
             amount == [a \in Attempts |-> refunds[a].amount]
             sent == [h \in Handles |-> razorpay[h].amount]
  <1>1. IsFiniteSet(Attempts) /\ IsFiniteSet(live) /\ IsFiniteSet(imported)
    <2>1. IsFiniteSet(Handles)
      BY RefundConstants, FS_Union DEF Handles
    <2> QED
      BY <2>1, RefundConstants, FS_Subset DEF IInv, Shape
  <1>2. Own \in Nat /\ \A a \in Attempts : LiveAmount[a] \in Nat
    BY OwnType
  <1>3. SumOver(LiveAmount, live) = Own
    BY <1>1, <1>2, SumSubset DEF Own, LiveAmount
  <1>4. SumOver(LiveAmount, live) = SumOver(amount, live)
    BY <1>1, SumAgree DEF LiveAmount
  <1>5. SumOver(sent, imported) \in Nat
    BY <1>1, SumType DEF Amounts, IInv, Shape
  <1>6. Held(imported) = SumOver(amount, live) + SumOver(sent, imported)
    BY DEF Held, Total, SumOver
  <1> HIDE DEF live, amount, sent
  <1>7. SumOver(amount, live) = Own
    BY <1>3, <1>4
  <1> QED
    BY <1>2, <1>5, <1>6, <1>7

\* A step of one call that measures and claims nothing and writes no row.
LEMMA MoneyJobStep ==
    ASSUME Money, NEW w \in Workers, UNCHANGED << refunds, razorpay >>,
           \A v \in Workers \ {w} : job'[v] = job[v],
           job'[w].amount \in Nat, job'[w].at # "claim", Fits(w)'
    PROVE  Money'
  <1>1. Amounts'
    BY DEF Money, Amounts
  <1>2. Own' = Own
    BY DEF Own, LiveAmount
  <1>3. \A v \in Workers \ {w} : Fits(v)'
    BY <1>2 DEF Money, Fits
  <1> QED
    BY <1>1, <1>2, <1>3 DEF Money, SentAsClaimed

LEMMA MoneyLeaves ==
    ASSUME IInv, Money, NEW w \in Workers, Leave(w), UNCHANGED << refunds, razorpay >>
    PROVE  Money'
  <1>1. job'[w].at = "idle" /\ job'[w].amount = 0 /\ \A v \in Workers \ {w} : job'[v] = job[v]
    BY DEF IInv, Shape, Leave, NoJob
  <1> QED
    BY <1>1, MoneyJobStep DEF Fits

LEMMA MoneyQuiet ==
    ASSUME IInv, Money, NEW w \in Workers,
           \/ \E k \in Keys \cup {None} : \E m \in Asked[k] : RequestRefund(w, k, m)
           \/ \E a \in Attempts : Reconcile(w, a)
           \/ \E h \in Handles : Webhook(w, h)
           \/ TakeLock(w) \/ Count(w) \/ Announce(w) \/ Fail(w)
    PROVE  Money'
  <1>1. UNCHANGED << refunds, razorpay >>
    BY DEF RequestRefund, Reconcile, Webhook, TakeLock, Count, Announce, Fail, rowVars, outside
  <1>2. ASSUME NEW k \in Keys \cup {None}, NEW m \in Asked[k], RequestRefund(w, k, m)
        PROVE  Money'
    <2>1. m \in Nat
      BY RefundConstants
    <2>2. /\ job'[w].at = "lock" /\ job'[w].amount = m
          /\ \A v \in Workers \ {w} : job'[v] = job[v]
      BY <1>2 DEF IInv, Shape, RequestRefund, Start, NoJob
    <2> QED
      BY <1>1, <2>1, <2>2, MoneyJobStep DEF Fits
  <1>3. ASSUME NEW a \in Attempts, Reconcile(w, a) PROVE Money'
    <2>1. /\ job'[w].at = "lock" /\ job'[w].amount = 0
          /\ \A v \in Workers \ {w} : job'[v] = job[v]
      BY <1>3 DEF IInv, Shape, Reconcile, Start, NoJob
    <2> QED
      BY <1>1, <2>1, MoneyJobStep DEF Fits
  <1>4. ASSUME NEW h \in Handles, Webhook(w, h) PROVE Money'
    <2>1. /\ job'[w].at = "payment" /\ job'[w].amount = razorpay[h].amount
          /\ \A v \in Workers \ {w} : job'[v] = job[v]
      BY <1>4 DEF IInv, Shape, Webhook, GoCount, NoJob
    <2> QED
      BY <1>1, <2>1, MoneyJobStep DEF Fits, Money, Amounts
  <1>5. CASE Leave(w)
    BY <1>1, <1>5, MoneyLeaves
  <1>6. ASSUME NEW at \in {"measure", "list", "order", "announce"}, Go(w, at) PROVE Money'
    <2>1. /\ job'[w].at = at /\ job'[w].amount = job[w].amount
          /\ \A v \in Workers \ {w} : job'[v] = job[v]
      BY <1>6 DEF IInv, Shape, Go
    <2> QED
      BY <1>1, <2>1, MoneyJobStep DEF Fits, Money, Amounts
  <1> QED
    BY <1>2, <1>3, <1>4, <1>5, <1>6 DEF TakeLock, Count, Announce, Fail

LEMMA MoneyMeasured == ASSUME IInv, Money, NEW w \in Workers, Measure(w) PROVE Money'
  <1>1. UNCHANGED << refunds, razorpay >>
    BY DEF Measure, rowVars, outside
  <1>2. CASE Leave(w)
    BY <1>1, <1>2, MoneyLeaves
  <1>3. CASE ~Leave(w)
    <2> DEFINE free == Paid - Held(imported)
    <2>1. /\ ~(free <= 0)
          /\ job' = [job EXCEPT ![w].at = "claim",
                                ![w].amount = IF @ < free THEN @ ELSE free]
      BY <1>3 DEF Measure
    <2>2. Held(imported) \in Nat /\ Own <= Held(imported) /\ Own \in Nat /\ Paid \in Nat
      BY HeldCovers, OwnType, RefundConstants DEF Money
    <2>3. job[w].amount \in Nat
      BY DEF Money, Amounts
    <2>4. /\ job'[w].at = "claim"
          /\ job'[w].amount = (IF job[w].amount < free THEN job[w].amount ELSE free)
          /\ \A v \in Workers \ {w} : job'[v] = job[v]
      BY <2>1 DEF IInv, Shape
    <2>5. job'[w].amount \in Nat /\ Own + job'[w].amount <= Paid
      BY <2>1, <2>2, <2>3, <2>4
    <2>6. Own' = Own
      BY <1>1 DEF Own, LiveAmount
    <2>7. Amounts'
      BY <1>1, <2>4, <2>5 DEF Money, Amounts
    <2>8. \A v \in Workers : Fits(v)'
      BY <1>1, <2>4, <2>5, <2>6 DEF Money, Fits
    <2> QED
      BY <1>1, <2>6, <2>7, <2>8 DEF Money, SentAsClaimed
  <1> QED
    BY <1>2, <1>3

LEMMA MoneyClaimed == ASSUME IInv, Money, NEW w \in Workers, Claim(w) PROVE Money'
  <1>1. CASE KeyTaken(job[w].key)
    BY <1>1, MoneyLeaves DEF Claim, rowVars, outside
  <1>2. CASE ~KeyTaken(job[w].key)
    <2>1. PICK a \in Attempts :
             /\ refunds[a] = NoRow
             /\ refunds' = [refunds EXCEPT ![a] =
                  [NoRow EXCEPT !.status = "PENDING", !.amount = job[w].amount,
                                !.key = job[w].key]]
             /\ job' = [job EXCEPT ![w].at = "ask", ![w].row = a, ![w].key = None]
      BY <1>2 DEF Claim
    <2>2. UNCHANGED razorpay /\ lock = w /\ job[w].at = "claim"
      BY <1>2 DEF Claim, outside, IInv, Alone, Critical
    <2>3. /\ refunds'[a].status = "PENDING" /\ refunds'[a].amount = job[w].amount
          /\ refunds[a].status = "none" /\ razorpay[a].state = "none"
          /\ \A b \in Attempts \ {a} : refunds'[b] = refunds[b]
      BY <2>1 DEF IInv, Shape, NoRow, Truthful
    <2>4. /\ job'[w].at = "ask" /\ job'[w].row = a /\ job'[w].amount = job[w].amount
          /\ \A v \in Workers \ {w} : job'[v] = job[v] /\ job[v].at \notin Critical
      BY <2>1, <2>2 DEF IInv, Shape, Alone
    <2>5. /\ Own \in Nat /\ job[w].amount \in Nat /\ Own + job[w].amount <= Paid
          /\ \A b \in Attempts : LiveAmount[b] \in Nat
      BY <2>2, OwnType DEF Money, Amounts, Fits
    <2>6. /\ LiveAmount[a] = 0 /\ LiveAmount'[a] = job[w].amount
          /\ \A b \in Attempts \ {a} : LiveAmount'[b] = LiveAmount[b]
      BY <2>3 DEF LiveAmount
    <2>7. Own' = Own + job[w].amount
      <3>1. \A b \in Attempts : LiveAmount[b] \in Int /\ LiveAmount'[b] \in Int
        BY <2>5, <2>6
      <3>2. PICK f, g : f = LiveAmount /\ g = LiveAmount'
        OBVIOUS
      <3>3. SumOver(g, Attempts) = SumOver(f, Attempts) + (g[a] - f[a])
        BY <2>6, <3>1, <3>2, SumChange, RefundConstants
      <3> QED
        BY <2>5, <2>6, <3>2, <3>3 DEF Own
    <2>8. Amounts'
      BY <2>2, <2>3, <2>4 DEF Money, Amounts
    <2>9. \A b \in Attempts : SentAsClaimed(b)'
      BY <2>2, <2>3 DEF Money, SentAsClaimed
    <2>10. \A v \in Workers : Fits(v)'
      BY <2>3, <2>4 DEF Fits, Critical
    <2> QED
      BY <2>5, <2>7, <2>8, <2>9, <2>10 DEF Money
  <1> QED
    BY <1>1, <1>2

LEMMA MoneyAsked == ASSUME IInv, Money, NEW w \in Workers, Ask(w) PROVE Money'
  <1> DEFINE a == job[w].row
  <1>1. /\ a \in Attempts /\ a \in Handles /\ lock = w /\ job[w].at = "ask"
        /\ job[w].amount = refunds[a].amount /\ job[w].amount \in Nat
        /\ UNCHANGED refunds
    BY DEF Ask, rowVars, IInv, Asking, Alone, Critical, Handles, Money, Amounts, Fits
  <1>2. \E answer :
           /\ job' = [job EXCEPT ![w].at = "record", ![w].answer = answer]
           /\ \/ UNCHANGED razorpay
              \/ \E s : razorpay' = [razorpay EXCEPT ![a] =
                                       [state |-> s, amount |-> job[w].amount]]
    BY DEF Ask
  <1>3. /\ job'[w].at = "record" /\ job'[w].amount = job[w].amount
        /\ job'[w].row = job[w].row
        /\ \A v \in Workers \ {w} : job'[v] = job[v] /\ job[v].at \notin Critical
    BY <1>1, <1>2 DEF IInv, Shape, Alone
  <1>4. \A h \in Handles : razorpay'[h] = razorpay[h]
                           \/ (h = a /\ razorpay'[h].amount = job[w].amount)
    <2>1. CASE UNCHANGED razorpay
      BY <2>1
    <2>2. ASSUME NEW s,
                 razorpay' = [razorpay EXCEPT ![a] = [state |-> s, amount |-> job[w].amount]]
          PROVE  \A h \in Handles : razorpay'[h] = razorpay[h]
                                    \/ (h = a /\ razorpay'[h].amount = job[w].amount)
      BY <1>1, <2>2 DEF IInv, Shape
    <2> QED
      BY <1>2, <2>1, <2>2
  <1>5. Own' = Own
    BY <1>1 DEF Own, LiveAmount
  <1>6. Amounts'
    BY <1>1, <1>3, <1>4 DEF Money, Amounts
  <1>7. \A b \in Attempts : SentAsClaimed(b)'
    BY <1>1, <1>4 DEF Money, SentAsClaimed, Handles
  <1>8. \A v \in Workers : Fits(v)'
    BY <1>1, <1>3 DEF Fits, Critical
  <1> QED
    BY <1>5, <1>6, <1>7, <1>8 DEF Money

\* The answer to a request or of the list is written to the row of the lock's holder.
LEMMA MoneyAnswered ==
    ASSUME IInv, Money, NEW w \in Workers, job[w].at \in {"record", "settle"},
           UNCHANGED razorpay, NEW a \in Attempts, a = job[w].row,
           \A b \in Attempts \ {a} : refunds'[b] = refunds[b],
           refunds'[a].amount = refunds[a].amount,
           refunds'[a].status \notin {"none", "FAILED"} =>
              refunds[a].status \notin {"none", "FAILED"},
           job'[w].at \in {"idle", "payment"}, job'[w].amount \in Nat,
           \A v \in Workers \ {w} : job'[v] = job[v]
    PROVE  Money'
  <1>1. \A v \in Workers \ {w} : job[v].at \notin Critical
    BY DEF IInv, Alone, Critical
  <1>2. Own \in Nat /\ Own' \in Nat /\ Own' <= Own
    BY OwnFalls DEF Money
  <1>3. Amounts'
    BY DEF Money, Amounts
  <1>4. \A v \in Workers : Fits(v)'
    BY <1>1 DEF Fits, Critical
  <1>5. \A b \in Attempts : SentAsClaimed(b)'
    BY DEF Money, SentAsClaimed
  <1> QED
    BY <1>2, <1>3, <1>4, <1>5, RefundConstants DEF Money

LEMMA CallEnds ==
    ASSUME IInv, NEW w \in Workers,
           Leave(w) \/ \E call, row : \E amount \in Nat : GoCount(w, call, row, amount)
    PROVE  /\ job'[w].at \in {"idle", "payment"} /\ job'[w].amount \in Nat
           /\ \A v \in Workers \ {w} : job'[v] = job[v]
  <1>1. CASE Leave(w)
    BY <1>1 DEF Leave, NoJob, IInv, Shape
  <1>2. ASSUME NEW call, NEW row, NEW amount \in Nat, GoCount(w, call, row, amount)
        PROVE  /\ job'[w].at = "payment" /\ job'[w].amount \in Nat
               /\ \A v \in Workers \ {w} : job'[v] = job[v]
    BY <1>2 DEF GoCount, NoJob, IInv, Shape
  <1> QED
    BY <1>1, <1>2

LEMMA NotBoth ==
    ASSUME IInv, NEW w \in Workers, NEW call, NEW row, NEW amount
    PROVE  ~(Leave(w) /\ GoCount(w, call, row, amount))
  <1>1. Leave(w) => job'[w].at = "idle"
    BY DEF Leave, NoJob, IInv, Shape
  <1>2. GoCount(w, call, row, amount) => job'[w].at = "payment"
    BY DEF GoCount, NoJob, IInv, Shape
  <1> QED
    BY <1>1, <1>2

LEMMA MoneyRecorded == ASSUME IInv, Money, NEW w \in Workers, Record(w) PROVE Money'
  <1>1. PICK a \in Attempts : a = job[w].row
    BY DEF Record, IInv, Asking
  <1>2. /\ UNCHANGED razorpay /\ job[w].at = "record"
        /\ refunds[a].status = "PENDING" /\ job[w].amount \in Nat
    BY <1>1 DEF Record, outside, IInv, Asking, Money, Amounts
  <1>3. /\ refunds'[a].amount = refunds[a].amount
        /\ \A b \in Attempts \ {a} : refunds'[b] = refunds[b]
    BY <1>1 DEF Record, IInv, Shape
  <1>4. /\ job'[w].at \in {"idle", "payment"} /\ job'[w].amount \in Nat
        /\ \A v \in Workers \ {w} : job'[v] = job[v]
    <2>1. Leave(w) \/ GoCount(w, "refund", a, job[w].amount)
      BY <1>1 DEF Record
    <2> QED
      BY <1>2, <2>1, CallEnds
  <1> QED
    BY <1>1, <1>2, <1>3, <1>4, MoneyAnswered

LEMMA MoneySettled == ASSUME IInv, Money, NEW w \in Workers, Settle(w) PROVE Money'
  <1>1. PICK a \in Attempts : a = job[w].row
    BY DEF Settle, IInv, Reconciling
  <1>2. /\ UNCHANGED razorpay /\ job[w].at = "settle" /\ Truthful(a)
        /\ refunds[a].status # "none" /\ refunds[a].amount \in Nat
        /\ job[w].answer \in States
        /\ job[w].answer # "pending" => razorpay[a].state = job[w].answer
        /\ job[w].answer = "pending" => refunds[a].status \notin {"FAILED", "PROCESSED"}
    BY <1>1 DEF Settle, outside, IInv, Reconciling, Money, Amounts, Fits
  <1>3. /\ refunds'[a].amount = refunds[a].amount
        /\ \A b \in Attempts \ {a} : refunds'[b] = refunds[b]
    BY <1>1 DEF Settle, IInv, Shape
  <1>4. refunds'[a].status \notin {"none", "FAILED"} =>
           refunds[a].status \notin {"none", "FAILED"}
    BY <1>1, <1>2 DEF Settle, LocalStatus, IInv, Shape, Truthful, States
  <1>5. /\ job'[w].at \in {"idle", "payment"} /\ job'[w].amount \in Nat
        /\ \A v \in Workers \ {w} : job'[v] = job[v]
    <2>1. Leave(w) \/ GoCount(w, "reconcile", a, refunds[a].amount)
      BY <1>1 DEF Settle
    <2> QED
      BY <1>2, <2>1, CallEnds
  <1> QED
    BY <1>1, <1>2, <1>3, <1>4, <1>5, MoneyAnswered

LEMMA MoneyListed == ASSUME IInv, Money, NEW w \in Workers, List(w) PROVE Money'
  <1>1. UNCHANGED << refunds, razorpay >> /\ job[w].at = "list"
    BY DEF List, rowVars, outside
  <1>2. CASE Leave(w)
    BY <1>1, <1>2, MoneyLeaves
  <1>3. CASE job' = [job EXCEPT ![w].at = "settle", ![w].answer = razorpay[job[w].row].state]
    <2>1. PICK a \in Attempts : a = job[w].row /\ Truthful(a)
      BY <1>1 DEF IInv, Reconciling
    <2>2. /\ job'[w].at = "settle" /\ job'[w].answer = razorpay[a].state
          /\ job'[w].row = a /\ job'[w].amount = job[w].amount
          /\ \A v \in Workers \ {w} : job'[v] = job[v]
      BY <1>3, <2>1 DEF IInv, Shape
    <2>3. Fits(w)'
      BY <1>1, <2>1, <2>2 DEF Fits, Truthful
    <2> QED
      BY <1>1, <2>2, <2>3, MoneyJobStep DEF Money, Amounts
  <1> QED
    BY <1>2, <1>3 DEF List

LEMMA MoneyOutside ==
    ASSUME IInv, Money, \/ \E d \in Dashboard, m \in ByHand : RefundByHand(d, m)
                        \/ \E h \in Handles : ProviderSettles(h)
    PROVE  Money'
  <1>1. UNCHANGED << refunds, job >>
    BY DEF RefundByHand, ProviderSettles, rowVars
  <1>2. \A h \in Handles : razorpay'[h].amount \in Nat
    <2>1. ASSUME NEW d \in Dashboard, NEW m \in ByHand, RefundByHand(d, m)
          PROVE  \A h \in Handles : razorpay'[h].amount \in Nat
      <3>1. m \in Nat
        BY RefundConstants
      <3> QED
        BY <2>1, <3>1 DEF RefundByHand, IInv, Shape, Money, Amounts
    <2>2. ASSUME NEW h \in Handles, ProviderSettles(h)
          PROVE  \A g \in Handles : razorpay'[g].amount \in Nat
      BY <2>2 DEF ProviderSettles, IInv, Shape, Money, Amounts
    <2> QED
      BY <2>1, <2>2
  <1>3. \A a \in Attempts :
           /\ razorpay'[a].amount = razorpay[a].amount
           /\ razorpay'[a].state # "none" => razorpay[a].state # "none"
    <2>1. ASSUME NEW d \in Dashboard, NEW m \in ByHand, RefundByHand(d, m), NEW a \in Attempts
          PROVE  razorpay'[a] = razorpay[a]
      BY <2>1, RefundConstants DEF RefundByHand, IInv, Shape, Handles
    <2>2. ASSUME NEW h \in Handles, ProviderSettles(h), NEW a \in Attempts
          PROVE  /\ razorpay'[a].amount = razorpay[a].amount
                 /\ razorpay'[a].state # "none" => razorpay[a].state # "none"
      BY <2>2 DEF ProviderSettles, IInv, Shape, Handles
    <2> QED
      BY <2>1, <2>2
  <1>4. Own' = Own
    BY <1>1 DEF Own, LiveAmount
  <1>5. Amounts' /\ \A w \in Workers : Fits(w)'
    BY <1>1, <1>2, <1>4 DEF Money, Amounts, Fits
  <1> QED
    BY <1>1, <1>3, <1>4, <1>5 DEF Money, SentAsClaimed

LEMMA MoneyPreserved == IInv /\ Money /\ [Next]_vars => Money'
  <1> SUFFICES ASSUME IInv, Money, [Next]_vars PROVE Money'
    OBVIOUS
  <1>1. CASE UNCHANGED vars
    BY <1>1 DEF vars, rowVars, outside, Money, Amounts, SentAsClaimed, Fits, Own, LiveAmount
  <1>2. CASE Next
    BY <1>2, MoneyQuiet, MoneyMeasured, MoneyClaimed, MoneyAsked, MoneyRecorded, MoneySettled,
       MoneyListed, MoneyOutside DEF Next
  <1> QED
    BY <1>1, <1>2

\* However many refunds are asked for, time out, are reconciled and asked for again, the
\* requests of this program never send back more than was paid: refundOrderPayment claims
\* a row for what it has measured under the lock, and a row's share is free again only
\* when its money has not moved.
THEOREM PaysBackOnce == Spec => []NeverPaysTwice
  <1>1. IInv /\ Money => NeverPaysTwice
    <2> SUFFICES ASSUME IInv, Money PROVE NeverPaysTwice
      OBVIOUS
    <2> DEFINE sent == [a \in Attempts |-> razorpay[a].amount]
               S == {a \in Attempts : Moved(a)}
    <2>1. \A a \in S : sent[a] = LiveAmount[a]
      BY DEF IInv, Truthful, Money, SentAsClaimed, LiveAmount, Moved
    <2>2. IsFiniteSet(Attempts) /\ IsFiniteSet(S)
      BY RefundConstants, FS_Subset
    <2>3. Own \in Nat /\ \A a \in Attempts : LiveAmount[a] \in Nat
      BY OwnType DEF Money
    <2>4. SumOver(sent, S) = SumOver(LiveAmount, S)
      BY <2>1, <2>2, SumAgree
    <2>5. SumOver(LiveAmount, S) <= Own /\ SumOver(LiveAmount, S) \in Nat
      BY <2>2, <2>3, SumSubset, SumType DEF Own
    <2>6. SumOver(sent, S) <= Paid
      BY <2>3, <2>4, <2>5, RefundConstants DEF Money
    <2> QED
      BY <2>6 DEF NeverPaysTwice, Total, SumOver
  <1> QED
    BY InitEstablishes, NextPreserves, MoneyInit, MoneyPreserved, <1>1, PTL DEF Spec

-----------------------------------------------------------------------------
(* The aggregates.  A row enters the sum with the UPDATE that counts it; its *)
(* own call is the only one that can do so, and its amount is fixed by then. *)

Due(g) == (Processed \ lost[g]) \ Underway(g)

LEMMA ProcessedRefs ==
    ASSUME IInv, Amounts
    PROVE  /\ IsFiniteSet(Processed) /\ \A r \in Processed : AmountOf[r] \in Nat
           /\ \A a \in Attempts : << "row", a >> \in Processed <=> refunds[a].status = "PROCESSED"
           /\ \A h \in Handles : << "handle", h >> \in Processed <=> h \in imported
  <1>1. imported \subseteq Handles
    BY DEF IInv, Shape
  <1>2. IsFiniteSet(Handles)
    BY RefundConstants, FS_Union DEF Handles
  <1>3. \A r \in Processed : r \in {"row", "handle"} \X Handles
    BY <1>1 DEF Processed, Handles
  <1>4. IsFiniteSet({"row", "handle"} \X Handles)
    <2>1. IsFiniteSet({"row", "handle"})
      <3>1. IsFiniteSet({"row"}) /\ IsFiniteSet({"handle"})
        BY FS_Singleton
      <3>2. IsFiniteSet({"row"} \cup {"handle"})
        BY <3>1, FS_Union
      <3>3. {"row", "handle"} = {"row"} \cup {"handle"}
        OBVIOUS
      <3> QED
        BY <3>2, <3>3
    <2> QED
      BY <1>2, <2>1, FS_Product
  <1>5. IsFiniteSet(Processed)
    BY <1>3, <1>4, FS_Subset
  <1>6. \A r \in Processed : AmountOf[r] \in Nat
    BY <1>1 DEF Processed, AmountOf, Amounts
  <1>7. /\ \A a \in Attempts : << "row", a >> \in Processed <=> refunds[a].status = "PROCESSED"
        /\ \A h \in Handles : << "handle", h >> \in Processed <=> h \in imported
    BY DEF Processed
  <1> QED
    BY <1>5, <1>6, <1>7

LEMMA AmountsStay ==
    ASSUME imported \subseteq Handles,
           \A a \in Attempts : refunds[a].status = "PROCESSED" =>
                                  refunds'[a].amount = refunds[a].amount,
           \A h \in imported : razorpay'[h].amount = razorpay[h].amount
    PROVE  \A r \in Processed : AmountOf'[r] = AmountOf[r]
  BY DEF Processed, AmountOf

LEMMA TallyInit == Init => Tally
  <1> SUFFICES ASSUME Init PROVE Tally
    OBVIOUS
  <1>1. Processed = {}
    BY DEF Init, NoRow, Processed
  <1>2. \A w \in Workers : job[w].at \notin Stages
    BY DEF Init, NoJob, Stages, Aggregates
  <1>3. AggregatesMatchRows
    <2>1. ASSUME NEW g \in Aggregates
          PROVE  refunded[g] = Raised(0, Total(AmountOf, (Processed \ lost[g]) \ Underway(g)))
      <3>1. (Processed \ lost[g]) \ Underway(g) = {}
        BY <1>1
      <3>2. SumOver(AmountOf, {}) = 0
        BY SumEmpty
      <3>3. Total(AmountOf, {}) = SumOver(AmountOf, {})
        BY DEF Total, SumOver
      <3>4. Raised(0, 0) = 0 /\ refunded[g] = 0
        BY RefundConstants DEF Init, Raised
      <3> QED
        BY <3>1, <3>2, <3>3, <3>4
    <2> QED
      BY <2>1 DEF AggregatesMatchRows
  <1> QED
    BY <1>1, <1>2, <1>3 DEF Init, Tally, Owed, OneCounts

\* Nothing is counted in this step.
LEMMA TallySame ==
    ASSUME IInv, Money, Tally, UNCHANGED refunded,
           \A r \in Processed : AmountOf'[r] = AmountOf[r],
           \A h \in imported' : razorpay'[h].state # "none",
           announced' \subseteq Processed',
           \A g \in Aggregates : lost'[g] \subseteq Processed' \ announced',
           \A w \in Workers : Owed(w)', OneCounts',
           \A g \in Aggregates : Due(g)' = Due(g)
    PROVE  Tally'
  <1>1. ASSUME NEW g \in Aggregates
        PROVE  refunded'[g] = Raised(0, Total(AmountOf', Due(g)'))
    <2>1. IsFiniteSet(Due(g)) /\ \A r \in Due(g) : AmountOf'[r] = AmountOf[r]
      BY ProcessedRefs, FS_Subset DEF Money, Due
    <2>2. SumOver(AmountOf', Due(g)) = SumOver(AmountOf, Due(g))
      BY <2>1, SumAgree
    <2>3. refunded[g] = Raised(0, Total(AmountOf, Due(g)))
      BY DEF Tally, AggregatesMatchRows, Due
    <2> QED
      BY <2>2, <2>3 DEF Total, SumOver
  <1>2. AggregatesMatchRows'
    BY <1>1 DEF AggregatesMatchRows, Due
  <1> QED
    BY <1>2 DEF Tally

\* No call starts, goes on or stops counting.
LEMMA TallyQuiet ==
    ASSUME IInv, Money, Tally, UNCHANGED << refunded, lost, announced >>, Processed' = Processed,
           \A r \in Processed : AmountOf'[r] = AmountOf[r],
           \A h \in imported' : razorpay'[h].state # "none",
           \A v \in Workers : job'[v].at \in Stages \/ job[v].at \in Stages =>
                                 job'[v] = job[v]
    PROVE  Tally'
  <1>1. \A v \in Workers : job'[v].at \in Stages => Ref(v)' = Ref(v)
    BY DEF Ref
  <1>2. \A v \in Workers : Owed(v)'
    <2> SUFFICES ASSUME NEW v \in Workers, job'[v].at \in Stages PROVE Owed(v)'
      BY DEF Owed
    <2>1. Owed(v) /\ job'[v] = job[v] /\ Ref(v)' = Ref(v)
      BY <1>1 DEF Tally
    <2> QED
      BY <2>1 DEF Owed
  <1>3. OneCounts'
    BY <1>1 DEF Tally, OneCounts
  <1>4. \A g \in Aggregates : Underway(g)' = Underway(g)
    BY DEF Underway, Ref, Aggregates, Stages
  <1>5. \A g \in Aggregates : Due(g)' = Due(g)
    BY <1>4 DEF Due
  <1> QED
    BY <1>2, <1>3, <1>5, TallySame DEF Tally

\* A call has got a confirmed refund on record.
LEMMA TallyNew ==
    ASSUME IInv, Money, Tally, UNCHANGED << refunded, lost, announced >>,
           NEW w \in Workers, NEW r, r \notin Processed, Processed' = Processed \cup {r},
           \A q \in Processed : AmountOf'[q] = AmountOf[q],
           \A h \in imported' : razorpay'[h].state # "none",
           \A v \in Workers \ {w} : job'[v] = job[v],
           job[w].at \notin Stages, job'[w].at = "payment",
           job'[w].call \in {"refund", "reconcile", "webhook"},
           Ref(w)' = r, job'[w].amount = AmountOf'[r]
    PROVE  Tally'
  <1>1. \A v \in Workers \ {w} : Ref(v)' = Ref(v)
    BY DEF Ref
  <1>2. \A v \in Workers : Owed(v)'
    <2>1. Owed(w)'
      BY DEF Owed, Tally, Aggregates, Stages
    <2>2. ASSUME NEW v \in Workers \ {w}, job'[v].at \in Stages PROVE Owed(v)'
      <3>1. Owed(v) /\ job'[v] = job[v] /\ Ref(v)' = Ref(v)
        BY <1>1 DEF Tally
      <3> QED
        BY <3>1 DEF Owed
    <2>3. \A v \in Workers \ {w} : Owed(v)'
      BY <2>2 DEF Owed
    <2> QED
      BY <2>1, <2>3
  <1>3. OneCounts'
    <2>1. \A v \in Workers \ {w} : job'[v].at \in Stages => Ref(v)' # r
      BY <1>1 DEF Tally, Owed
    <2>2. ASSUME NEW u \in Workers, NEW v \in Workers, job'[u].at \in Stages,
                 job'[v].at \in Stages, Ref(u)' = Ref(v)'
          PROVE  u = v
      <3>1. CASE u = w \/ v = w
        BY <2>1, <2>2, <3>1
      <3>2. CASE u # w /\ v # w
        BY <1>1, <2>2, <3>2 DEF Tally, OneCounts
      <3> QED
        BY <3>1, <3>2
    <2> QED
      BY <2>2 DEF OneCounts
  <1>4. ASSUME NEW g \in Aggregates PROVE Underway(g)' = Underway(g) \cup {r}
    <2>1. job[w].at # "payment" /\ job[w].at # g
      BY DEF Aggregates, Stages
    <2> QED
      BY <1>1, <2>1 DEF Underway
  <1>5. \A g \in Aggregates : Due(g)' = Due(g)
    BY <1>4 DEF Due
  <1> QED
    BY <1>2, <1>3, <1>5, TallySame DEF Tally

LEMMA TallyFails == ASSUME IInv, Money, Tally, NEW w \in Workers, Fail(w) PROVE Tally'
  <1>1. /\ UNCHANGED << refunds, imported, refunded, razorpay, announced >>
        /\ job'[w].at = "idle" /\ \A v \in Workers \ {w} : job'[v] = job[v]
        /\ lost' = [g \in Aggregates |->
                      IF job[w].at = "payment" \/ job[w].at = g THEN lost[g] \cup {Ref(w)}
                      ELSE lost[g]]
    BY DEF Fail, rowVars, outside, Leave, NoJob, IInv, Shape
  <1>2. Processed' = Processed /\ AmountOf' = AmountOf
    BY <1>1 DEF Processed, AmountOf
  <1>3. \A v \in Workers \ {w} : Ref(v)' = Ref(v)
    BY <1>1 DEF Ref
  <1>4. \A v \in Workers \ {w} : job[w].at \in Stages /\ job[v].at \in Stages =>
                                    Ref(v) # Ref(w)
    BY DEF Tally, OneCounts
  <1>5. job[w].at \in Aggregates => Ref(w) \in Processed \ announced
    BY DEF Tally, Owed, Stages
  <1>6. \A g \in Aggregates : lost'[g] \subseteq Processed' \ announced'
    BY <1>1, <1>2, <1>5 DEF Tally, Aggregates
  <1>7. \A v \in Workers : Owed(v)'
    <2>1. Owed(w)'
      BY <1>1 DEF Owed, Stages, Aggregates
    <2>2. ASSUME NEW v \in Workers \ {w}, job'[v].at \in Stages PROVE Owed(v)'
      <3>1. Owed(v) /\ job'[v] = job[v] /\ Ref(v)' = Ref(v)
        BY <1>1, <1>3 DEF Tally
      <3>2. \A g \in Aggregates : Ref(v) \notin lost[g] => Ref(v) \notin lost'[g]
        BY <1>1, <1>4, <2>2 DEF Aggregates, Stages
      <3> QED
        BY <1>1, <1>2, <3>1, <3>2 DEF Owed, Aggregates
    <2>3. \A v \in Workers \ {w} : Owed(v)'
      BY <2>2 DEF Owed
    <2> QED
      BY <2>1, <2>3
  <1>8. OneCounts'
    BY <1>1, <1>3 DEF Tally, OneCounts, Stages, Aggregates
  <1>9. ASSUME NEW g \in Aggregates PROVE Due(g)' = Due(g)
    <2>1. CASE job[w].at = "payment" \/ job[w].at = g
      <3>1. Underway(g) = Underway(g)' \cup {Ref(w)}
        BY <1>1, <1>3, <2>1 DEF Underway, Aggregates
      <3>2. lost'[g] = lost[g] \cup {Ref(w)}
        BY <1>1, <2>1
      <3> QED
        BY <1>2, <3>1, <3>2 DEF Due
    <2>2. CASE ~(job[w].at = "payment" \/ job[w].at = g)
      <3>1. Underway(g) = Underway(g)'
        BY <1>1, <1>3, <2>2 DEF Underway, Aggregates
      <3>2. lost'[g] = lost[g]
        BY <1>1, <2>2
      <3> QED
        BY <1>2, <3>1, <3>2 DEF Due
    <2> QED
      BY <2>1, <2>2
  <1> QED
    BY <1>1, <1>2, <1>6, <1>7, <1>8, <1>9, TallySame DEF Tally

LEMMA TallyCounts == ASSUME IInv, Money, Tally, NEW w \in Workers, Count(w) PROVE Tally'
  <1>1. PICK g \in Aggregates : g = job[w].at
    BY DEF Count
  <1>2. PICK r : r = Ref(w)
    OBVIOUS
  <1>3. /\ UNCHANGED << refunds, imported, razorpay, lost, announced >>
        /\ job'[w].at = (IF g = "payment" THEN "order" ELSE "announce")
        /\ job'[w].call = job[w].call /\ job'[w].row = job[w].row
        /\ job'[w].amount = job[w].amount
        /\ \A v \in Workers \ {w} : job'[v] = job[v]
        /\ refunded'[g] = Raised(refunded[g], job[w].amount)
        /\ \A f \in Aggregates \ {g} : refunded'[f] = refunded[f]
        /\ DOMAIN refunded' = Aggregates
    BY <1>1 DEF Count, rowVars, outside, Go, IInv, Shape, Tally
  <1>4. Processed' = Processed /\ AmountOf' = AmountOf
    BY <1>3 DEF Processed, AmountOf
  <1>5. \A v \in Workers : Ref(v)' = Ref(v)
    BY <1>3 DEF Ref
  <1>6. /\ r \in Processed \ announced /\ job[w].amount = AmountOf[r]
        /\ \A f \in Aggregates : r \notin lost[f]
        /\ job[w].call \in {"refund", "reconcile", "webhook"}
    BY <1>1, <1>2 DEF Tally, Owed, Stages
  <1>7. \A v \in Workers \ {w} : job[v].at \in Stages => Ref(v) # r
    BY <1>1, <1>2 DEF Tally, OneCounts, Stages
  <1>8. \A v \in Workers : Owed(v)'
    <2>1. Owed(w)'
      BY <1>2, <1>3, <1>4, <1>5, <1>6 DEF Owed
    <2>2. \A v \in Workers \ {w} : Owed(v)'
      BY <1>3, <1>4, <1>5 DEF Tally, Owed
    <2> QED
      BY <2>1, <2>2
  <1>9. OneCounts'
    BY <1>1, <1>3, <1>5 DEF Tally, OneCounts, Stages
  <1>10. Underway(g) = Underway(g)' \cup {r} /\ r \notin Underway(g)'
    <2>1. job[w].at = g /\ job'[w].at # "payment" /\ job'[w].at # g
      BY <1>1, <1>3 DEF Aggregates
    <2> QED
      BY <1>1, <1>2, <1>3, <1>5, <1>7, <2>1 DEF Underway, Aggregates, Stages
  <1>11. Due(g)' = Due(g) \cup {r} /\ r \notin Due(g)
    BY <1>3, <1>4, <1>6, <1>10 DEF Due
  <1>12. ASSUME NEW f \in Aggregates \ {g} PROVE Due(f)' = Due(f)
    <2>1. (job'[w].at = "payment" \/ job'[w].at = f) <=> (job[w].at = "payment" \/ job[w].at = f)
      BY <1>1, <1>3 DEF Aggregates
    <2>2. Underway(f)' = Underway(f)
      BY <1>3, <1>5, <2>1 DEF Underway
    <2> QED
      BY <1>3, <1>4, <2>2 DEF Due
  <1>13. refunded'[g] = Raised(0, Total(AmountOf', Due(g)'))
    <2>1. /\ IsFiniteSet(Due(g)) /\ \A q \in Processed : AmountOf[q] \in Nat
          /\ Due(g) \subseteq Processed
      BY ProcessedRefs, FS_Subset DEF Money, Due
    <2>2. SumOver(AmountOf, Due(g) \cup {r}) = SumOver(AmountOf, Due(g)) + AmountOf[r]
      BY <1>6, <1>11, <2>1, SumAdd
    <2>3. SumOver(AmountOf, Due(g)) \in Nat /\ AmountOf[r] \in Nat
      BY <1>6, <2>1, SumType
    <2>4. refunded[g] = Raised(0, SumOver(AmountOf, Due(g)))
      BY DEF Tally, AggregatesMatchRows, Due, Total, SumOver
    <2>5. \A t, m \in Nat : Raised(Raised(0, t), m) = Raised(0, t + m)
      BY RefundConstants DEF Raised
    <2>6. refunded'[g] = Raised(0, SumOver(AmountOf, Due(g) \cup {r}))
      BY <1>3, <1>6, <2>2, <2>3, <2>4, <2>5
    <2> QED
      BY <1>4, <1>11, <2>6 DEF Total, SumOver
  <1>14. ASSUME NEW f \in Aggregates \ {g} PROVE refunded'[f] = Raised(0, Total(AmountOf', Due(f)'))
    BY <1>3, <1>4, <1>12 DEF Tally, AggregatesMatchRows, Due
  <1>15. AggregatesMatchRows'
    BY <1>13, <1>14 DEF AggregatesMatchRows, Due
  <1> QED
    BY <1>3, <1>4, <1>8, <1>9, <1>15 DEF Tally

\* A step of the other kinds: no counting begins or ends.
LEMMA TallyRest ==
    ASSUME IInv, Money, Tally, NEW w \in Workers,
           \/ \E k \in Keys \cup {None} : \E m \in Asked[k] : RequestRefund(w, k, m)
           \/ \E a \in Attempts : Reconcile(w, a)
           \/ TakeLock(w) \/ Measure(w) \/ List(w)
    PROVE  Tally'
  <1>1. UNCHANGED << refunds, imported, refunded, razorpay, lost, announced >>
    BY DEF RequestRefund, Reconcile, TakeLock, Measure, List, rowVars, outside
  <1>2. /\ job[w].at \notin Stages /\ job'[w].at \notin Stages
        /\ \A v \in Workers \ {w} : job'[v] = job[v]
    <2>1. job[w].at \notin Stages
      <3>1. CASE job[w] = NoJob
        BY <3>1 DEF NoJob, Stages, Aggregates
      <3>2. CASE job[w].at \in {"lock", "measure", "list"}
        BY <3>2 DEF Stages, Aggregates
      <3>3. job[w] = NoJob \/ job[w].at \in {"lock", "measure", "list"}
        BY DEF RequestRefund, Reconcile, TakeLock, Measure, List, Start
      <3> QED
        BY <3>1, <3>2, <3>3
    <2>2. \/ Leave(w) \/ Go(w, "measure") \/ Go(w, "list")
          \/ \E n : job' = [job EXCEPT ![w].at = "claim", ![w].amount = n]
          \/ \E n : job' = [job EXCEPT ![w].at = "settle", ![w].answer = n]
          \/ \E k, m : Start(w, "refund", "lock", [NoJob EXCEPT !.key = k, !.amount = m])
          \/ \E a : Start(w, "reconcile", "lock", [NoJob EXCEPT !.row = a])
      BY DEF RequestRefund, Reconcile, TakeLock, Measure, List
    <2>3. CASE Leave(w) \/ Go(w, "measure") \/ Go(w, "list")
      BY <2>1, <2>3 DEF Leave, Go, NoJob, IInv, Shape, Stages, Aggregates
    <2>4. ASSUME NEW n, \/ job' = [job EXCEPT ![w].at = "claim", ![w].amount = n]
                        \/ job' = [job EXCEPT ![w].at = "settle", ![w].answer = n]
          PROVE  job'[w].at \in {"claim", "settle"} /\ \A v \in Workers \ {w} : job'[v] = job[v]
      BY <2>4 DEF IInv, Shape
    <2>5. ASSUME NEW k, NEW m, Start(w, "refund", "lock", [NoJob EXCEPT !.key = k, !.amount = m])
          PROVE  job'[w].at = "lock" /\ \A v \in Workers \ {w} : job'[v] = job[v]
      BY <2>5 DEF Start, NoJob, IInv, Shape
    <2>6. ASSUME NEW a, Start(w, "reconcile", "lock", [NoJob EXCEPT !.row = a])
          PROVE  job'[w].at = "lock" /\ \A v \in Workers \ {w} : job'[v] = job[v]
      BY <2>6 DEF Start, NoJob, IInv, Shape
    <2> QED
      BY <2>1, <2>2, <2>3, <2>4, <2>5, <2>6 DEF Stages, Aggregates
  <1>3. Processed' = Processed /\ AmountOf' = AmountOf
    BY <1>1 DEF Processed, AmountOf
  <1> QED
    BY <1>1, <1>2, <1>3, TallyQuiet DEF Tally

\* A row is claimed, or asked for: it is not a confirmed one.
LEMMA TallyClaims ==
    ASSUME IInv, Money, Tally, NEW w \in Workers, Claim(w) \/ Ask(w)
    PROVE  Tally'
  <1>1. UNCHANGED << imported, refunded, lost, announced >> /\ imported \subseteq Handles
    BY DEF Claim, Ask, rowVars, outside, IInv, Shape
  <1>2. \A v \in Workers : job'[v].at \in Stages \/ job[v].at \in Stages =>
                              job'[v] = job[v]
    <2>1. job[w].at \in {"claim", "ask"}
      BY DEF Claim, Ask
    <2>2. \/ Leave(w)
          \/ \E a : job' = [job EXCEPT ![w].at = "ask", ![w].row = a, ![w].key = None]
          \/ \E n : job' = [job EXCEPT ![w].at = "record", ![w].answer = n]
      BY DEF Claim, Ask
    <2>3. CASE Leave(w)
      BY <2>1, <2>3 DEF Leave, NoJob, IInv, Shape, Stages, Aggregates
    <2>4. ASSUME NEW n, \/ job' = [job EXCEPT ![w].at = "ask", ![w].row = n, ![w].key = None]
                        \/ job' = [job EXCEPT ![w].at = "record", ![w].answer = n]
          PROVE  job'[w].at \in {"ask", "record"} /\ \A v \in Workers \ {w} : job'[v] = job[v]
      BY <2>4 DEF IInv, Shape
    <2> QED
      BY <2>1, <2>2, <2>3, <2>4 DEF Stages, Aggregates
  <1>3. CASE Claim(w)
    <2>1. UNCHANGED razorpay
      BY <1>3 DEF Claim, outside
    <2>2. \A a \in Attempts : \/ refunds'[a] = refunds[a]
                              \/ /\ refunds[a].status = "none"
                                 /\ refunds'[a].status = "PENDING"
      <3>1. CASE UNCHANGED refunds
        BY <3>1
      <3>2. CASE ~KeyTaken(job[w].key)
        <4>1. PICK b \in Attempts :
                 /\ refunds[b] = NoRow
                 /\ refunds' = [refunds EXCEPT ![b] =
                      [NoRow EXCEPT !.status = "PENDING", !.amount = job[w].amount,
                                    !.key = job[w].key]]
          BY <1>3, <3>2 DEF Claim
        <4>2. /\ refunds[b].status = "none" /\ refunds'[b].status = "PENDING"
              /\ \A c \in Attempts \ {b} : refunds'[c] = refunds[c]
          BY <4>1 DEF NoRow, IInv, Shape
        <4> QED
          BY <4>2
      <3>3. KeyTaken(job[w].key) => UNCHANGED refunds
        BY <1>3 DEF Claim
      <3> QED
        BY <3>1, <3>2, <3>3
    <2>3. Processed' = Processed
      BY <1>1, <2>2 DEF Processed
    <2>4. \A r \in Processed : AmountOf'[r] = AmountOf[r]
      BY <1>1, <2>1, <2>2, AmountsStay
    <2> QED
      BY <1>1, <1>2, <2>1, <2>3, <2>4, TallyQuiet DEF Tally
  <1>4. CASE Ask(w)
    <2>1. /\ UNCHANGED refunds /\ job[w].row \in Attempts
          /\ razorpay[job[w].row].state = "none"
      BY <1>4 DEF Ask, rowVars, IInv, Asking
    <2>2. job[w].row \notin imported
      BY <2>1 DEF Tally
    <2>3. UNCHANGED razorpay \/ \E r : razorpay' = [razorpay EXCEPT ![job[w].row] = r]
      BY <1>4 DEF Ask
    <2>4. \A h \in imported : razorpay'[h] = razorpay[h]
      BY <1>1, <2>1, <2>2, <2>3 DEF IInv, Shape
    <2>5. Processed' = Processed
      BY <1>1, <2>1 DEF Processed
    <2>6. \A r \in Processed : AmountOf'[r] = AmountOf[r]
      BY <1>1, <2>1, <2>4, AmountsStay
    <2> QED
      BY <1>1, <1>2, <2>4, <2>5, <2>6, TallyQuiet DEF Tally
  <1> QED
    BY <1>3, <1>4

\* An answer is written to a row: it becomes a confirmed one, or stays what it is.
LEMMA TallyAnswers ==
    ASSUME IInv, Money, Tally, NEW w \in Workers, Record(w) \/ Settle(w)
    PROVE  Tally'
  <1>1. PICK a \in Attempts : a = job[w].row
    BY DEF Record, Settle, IInv, Asking, Reconciling
  <1>2. /\ UNCHANGED << imported, refunded, razorpay, lost, announced >> /\ imported \subseteq Handles
        /\ job[w].at \in {"record", "settle"} /\ Truthful(a)
        /\ \A b \in Attempts \ {a} : refunds'[b] = refunds[b]
        /\ refunds'[a].amount = refunds[a].amount
    BY <1>1 DEF Record, Settle, outside, IInv, Shape
  <1>3. \A r \in Processed : AmountOf'[r] = AmountOf[r]
    BY <1>2, AmountsStay
  <1>4. CASE Leave(w) /\ (refunds'[a].status = "PROCESSED" <=> refunds[a].status = "PROCESSED")
    <2>1. job'[w].at = "idle" /\ \A v \in Workers \ {w} : job'[v] = job[v]
      BY <1>4 DEF Leave, NoJob, IInv, Shape
    <2>2. Processed' = Processed
      <3>1. \A b \in Attempts : refunds'[b].status = "PROCESSED" <=>
                                refunds[b].status = "PROCESSED"
        BY <1>2, <1>4
      <3> QED
        BY <1>2, <3>1 DEF Processed
    <2> QED
      BY <1>2, <1>3, <2>1, <2>2, TallyQuiet DEF Tally, Stages, Aggregates
  <1>5. ASSUME refunds[a].status # "PROCESSED", refunds'[a].status = "PROCESSED",
               NEW call \in {"refund", "reconcile"}, GoCount(w, call, a, refunds[a].amount)
        PROVE  Tally'
    <2>1. /\ job'[w].at = "payment" /\ job'[w].call = call /\ job'[w].row = a
          /\ job'[w].amount = refunds[a].amount
          /\ \A v \in Workers \ {w} : job'[v] = job[v]
      BY <1>5 DEF GoCount, NoJob, IInv, Shape
    <2>2. PICK r : r = << "row", a >>
      OBVIOUS
    <2>3. r \notin Processed
      BY <1>5, <2>2, ProcessedRefs DEF Money
    <2>4. Processed' = Processed \cup {r}
      BY <1>2, <1>5, <2>2 DEF Processed
    <2>5. AmountOf'[r] = refunds'[a].amount
      BY <2>2 DEF AmountOf
    <2>6. Ref(w)' = r
      BY <2>1, <2>2 DEF Ref
    <2> QED
      BY <1>2, <1>3, <2>1, <2>3, <2>4, <2>5, <2>6, TallyNew DEF Tally, Stages, Aggregates
  <1>6. CASE Record(w)
    <2>1. refunds[a].status = "PENDING" /\ job[w].at = "record"
      BY <1>1, <1>6 DEF Record, IInv, Asking
    <2>2. CASE Leave(w)
      <3>1. refunds'[a].status # "PROCESSED"
        <4>1. CASE /\ job[w].answer \in {"refused", "ambiguous"}
                   /\ refunds' = [refunds EXCEPT ![a].status = RefusedStatus(job[w].answer)]
          BY <4>1 DEF RefusedStatus, IInv, Shape
        <4>2. CASE UNCHANGED refunds
          BY <2>1, <4>2
        <4>3. CASE /\ refunds' = [refunds EXCEPT ![a].status = LocalStatus(job[w].answer),
                                                 ![a].known = TRUE]
                   /\ LocalStatus(job[w].answer) # "PROCESSED"
          BY <4>3 DEF IInv, Shape
        <4>4. ASSUME GoCount(w, "refund", a, job[w].amount) PROVE FALSE
          BY <2>2, <4>4, NotBoth
        <4> QED
          BY <1>1, <1>6, <4>1, <4>2, <4>3, <4>4 DEF Record
      <3> QED
        BY <1>4, <2>1, <2>2, <3>1
    <2>3. CASE ~Leave(w)
      <3>1. /\ refunds' = [refunds EXCEPT ![a].status = LocalStatus(job[w].answer),
                                          ![a].known = TRUE]
            /\ LocalStatus(job[w].answer) = "PROCESSED"
            /\ GoCount(w, "refund", a, job[w].amount)
            /\ job[w].answer \in States /\ job[w].at = "record"
        BY <1>1, <1>6, <2>3 DEF Record
      <3>2. refunds'[a].status = "PROCESSED"
        BY <3>1 DEF IInv, Shape
      <3>3. job[w].amount = refunds[a].amount
        BY <1>1, <3>1 DEF Money, Fits
      <3> QED
        BY <1>5, <2>1, <3>1, <3>2, <3>3
    <2> QED
      BY <2>2, <2>3
  <1>7. CASE Settle(w)
    <2>1. /\ job[w].answer = "pending" => refunds[a].status # "PROCESSED"
          /\ job[w].answer # "pending" => razorpay[a].state = job[w].answer
          /\ job[w].answer \in States
      BY <1>1, <1>7 DEF Settle, IInv, Reconciling, Money, Fits
    <2>2. CASE Leave(w)
      <3>1. refunds'[a].status = "PROCESSED" <=> refunds[a].status = "PROCESSED"
        <4>1. CASE /\ job[w].answer = "none"
                   /\ refunds' = [refunds EXCEPT ![a].status =
                           IF @ \in {"PENDING", "UNRESOLVED"} THEN "FAILED" ELSE @]
          BY <4>1 DEF IInv, Shape
        <4>2. CASE UNCHANGED refunds
          BY <4>2
        <4>3. CASE /\ refunds' = [refunds EXCEPT ![a].status = LocalStatus(job[w].answer),
                                                 ![a].known = TRUE]
                   /\ job[w].answer # "none"
                   /\ ~(job[w].answer = "processed" /\ refunds[a].status # "PROCESSED")
          <5>1. refunds'[a].status = LocalStatus(job[w].answer)
            BY <4>3 DEF IInv, Shape
          <5> QED
            BY <1>2, <2>1, <4>3, <5>1 DEF LocalStatus, Truthful, States
        <4>4. ASSUME GoCount(w, "reconcile", a, refunds[a].amount) PROVE FALSE
          BY <2>2, <4>4, NotBoth
        <4> QED
          BY <1>1, <1>7, <4>1, <4>2, <4>3, <4>4 DEF Settle
      <3> QED
        BY <1>4, <2>2, <3>1
    <2>3. CASE ~Leave(w)
      <3>1. /\ refunds' = [refunds EXCEPT ![a].status = LocalStatus(job[w].answer),
                                          ![a].known = TRUE]
            /\ job[w].answer = "processed" /\ refunds[a].status # "PROCESSED"
            /\ GoCount(w, "reconcile", a, refunds[a].amount)
        BY <1>1, <1>7, <2>3 DEF Settle
      <3>2. refunds'[a].status = "PROCESSED"
        BY <3>1 DEF IInv, Shape, LocalStatus
      <3> QED
        BY <1>5, <3>1, <3>2
    <2> QED
      BY <2>2, <2>3
  <1> QED
    BY <1>6, <1>7

LEMMA TallyWebhook ==
    ASSUME IInv, Money, Tally, NEW w \in Workers, NEW h \in Handles, Webhook(w, h)
    PROVE  Tally'
  <1>1. /\ UNCHANGED << refunds, refunded, razorpay, lost, announced >>
        /\ imported' = imported \cup {h} /\ h \notin imported
        /\ razorpay[h].state # "none" /\ job[w].at = "idle"
    BY DEF Webhook, IdTaken, outside, NoJob
  <1>2. /\ job'[w].at = "payment" /\ job'[w].call = "webhook" /\ job'[w].row = h
        /\ job'[w].amount = razorpay[h].amount
        /\ \A v \in Workers \ {w} : job'[v] = job[v]
    BY DEF Webhook, GoCount, NoJob, IInv, Shape
  <1>3. PICK r : r = << "handle", h >>
    OBVIOUS
  <1>4. r \notin Processed
    BY <1>1, <1>3, ProcessedRefs DEF Money
  <1>5. Processed' = Processed \cup {r}
    BY <1>1, <1>3 DEF Processed
  <1>6. AmountOf' = AmountOf /\ AmountOf[r] = razorpay[h].amount
    BY <1>1, <1>3 DEF AmountOf
  <1>7. Ref(w)' = r
    BY <1>2, <1>3 DEF Ref
  <1>8. \A g \in imported' : razorpay'[g].state # "none"
    BY <1>1 DEF Tally
  <1> QED
    BY <1>1, <1>2, <1>4, <1>5, <1>6, <1>7, <1>8, TallyNew DEF Stages, Aggregates

LEMMA TallyOutside ==
    ASSUME IInv, Money, Tally, \/ \E d \in Dashboard, m \in ByHand : RefundByHand(d, m)
                               \/ \E h \in Handles : ProviderSettles(h)
    PROVE  Tally'
  <1>1. UNCHANGED << refunds, imported, refunded, job, lost, announced >> /\ imported \subseteq Handles
    BY DEF RefundByHand, ProviderSettles, rowVars, IInv, Shape
  <1>2. \A h \in imported : razorpay'[h].amount = razorpay[h].amount /\ razorpay'[h].state # "none"
    <2>1. ASSUME NEW d \in Dashboard, NEW m \in ByHand, RefundByHand(d, m), NEW h \in imported
          PROVE  razorpay'[h] = razorpay[h]
      BY <1>1, <2>1 DEF RefundByHand, IInv, Shape, Tally
    <2>2. ASSUME NEW g \in Handles, ProviderSettles(g), NEW h \in imported
          PROVE  /\ razorpay'[h].amount = razorpay[h].amount
                 /\ razorpay'[h].state = razorpay[h].state \/ razorpay'[h].state # "none"
      BY <1>1, <2>2 DEF ProviderSettles, IInv, Shape
    <2> QED
      BY <2>1, <2>2 DEF Tally
  <1>3. Processed' = Processed
    BY <1>1 DEF Processed
  <1>4. \A r \in Processed : AmountOf'[r] = AmountOf[r]
    BY <1>1, <1>2, AmountsStay
  <1> QED
    BY <1>1, <1>2, <1>3, <1>4, TallyQuiet

\* Whoever is told is told of what has been counted.
LEMMA TallyAnnounces ==
    ASSUME IInv, Money, Tally, NEW w \in Workers, Announce(w)
    PROVE  Tally'
  <1>1. /\ UNCHANGED << refunds, imported, refunded, razorpay, lost >>
        /\ announced' = announced \cup {Ref(w)} /\ job[w].at = "announce"
        /\ job'[w].at = "idle" /\ \A v \in Workers \ {w} : job'[v] = job[v]
    BY DEF Announce, rowVars, outside, Leave, NoJob, IInv, Shape
  <1>2. Processed' = Processed /\ AmountOf' = AmountOf
    BY <1>1 DEF Processed, AmountOf
  <1>3. \A v \in Workers \ {w} : Ref(v)' = Ref(v)
    BY <1>1 DEF Ref
  <1>4. Ref(w) \in Processed /\ \A g \in Aggregates : Ref(w) \notin lost[g]
    BY <1>1 DEF Tally, Owed, Stages
  <1>5. \A v \in Workers \ {w} : job[v].at \in Stages => Ref(v) # Ref(w)
    BY <1>1 DEF Tally, OneCounts, Stages
  <1>6. /\ announced' \subseteq Processed'
        /\ \A g \in Aggregates : lost'[g] \subseteq Processed' \ announced'
    BY <1>1, <1>2, <1>4 DEF Tally
  <1>7. \A v \in Workers : Owed(v)'
    <2>1. Owed(w)'
      BY <1>1 DEF Owed, Stages, Aggregates
    <2>2. ASSUME NEW v \in Workers \ {w}, job'[v].at \in Stages PROVE Owed(v)'
      <3>1. Owed(v) /\ job'[v] = job[v] /\ Ref(v)' = Ref(v)
        BY <1>1, <1>3 DEF Tally
      <3>2. Ref(v) # Ref(w)
        BY <1>5, <2>2, <3>1
      <3> QED
        BY <1>1, <1>2, <3>1, <3>2 DEF Owed
    <2>3. \A v \in Workers \ {w} : Owed(v)'
      BY <2>2 DEF Owed
    <2> QED
      BY <2>1, <2>3
  <1>8. OneCounts'
    BY <1>1, <1>3 DEF Tally, OneCounts, Stages, Aggregates
  <1>9. ASSUME NEW g \in Aggregates PROVE Due(g)' = Due(g)
    <2>1. Underway(g)' = Underway(g)
      BY <1>1, <1>3 DEF Underway, Aggregates
    <2> QED
      BY <1>1, <1>2, <2>1 DEF Due
  <1> QED
    BY <1>1, <1>2, <1>6, <1>7, <1>8, <1>9, TallySame DEF Tally

LEMMA TallyPreserved == IInv /\ Money /\ Tally /\ [Next]_vars => Tally'
  <1> SUFFICES ASSUME IInv, Money, Tally, [Next]_vars PROVE Tally'
    OBVIOUS
  <1>1. CASE UNCHANGED vars
    <2>1. Processed' = Processed /\ AmountOf' = AmountOf
      BY <1>1 DEF vars, rowVars, outside, Processed, AmountOf
    <2> QED
      BY <1>1, <2>1, TallyQuiet DEF vars, rowVars, outside, Tally
  <1>2. CASE Next
    BY <1>2, TallyRest, TallyAnnounces, TallyClaims, TallyAnswers, TallyWebhook, TallyCounts, TallyFails,
       TallyOutside DEF Next
  <1> QED
    BY <1>1, <1>2

\* Both aggregates, payments.refunded_minor and orders.amount_refunded, are the sum of the
\* confirmed rows, each counted once and capped at what was paid, whichever of the answer,
\* a webhook and a reconciliation confirms them; a row is missing only while its call has
\* not got there, or because that call stopped.
THEOREM AggregatesCountOnce == Spec => []AggregatesMatchRows
  <1>1. Tally => AggregatesMatchRows
    BY DEF Tally
  <1> QED
    BY InitEstablishes, NextPreserves, MoneyInit, MoneyPreserved, TallyInit, TallyPreserved,
       <1>1, PTL DEF Spec

\* Nobody is told of a refund before it is PROCESSED and in both aggregates, whichever
\* of the answer, a webhook and a reconciliation confirms it and whichever call stops
\* on the way; and what is told under the number of our row has been paid.
THEOREM ToldOfWhatIsRecorded == Spec => []ToldIsRecorded
  <1>1. ASSUME IInv, Tally PROVE ToldIsRecorded
    <2>1. ASSUME NEW g \in Aggregates PROVE announced \cap (lost[g] \cup Underway(g)) = {}
      <3>1. \A w \in Workers : job[w].at = "payment" \/ job[w].at = g => Ref(w) \notin announced
        BY <1>1 DEF Tally, Owed, Stages, Aggregates
      <3> QED
        BY <1>1, <3>1 DEF Tally, Underway
    <2>2. \A a \in Attempts : << "row", a >> \in announced => razorpay[a].state = "processed"
      BY <1>1 DEF IInv, Told, Handles
    <2>3. \A h \in Handles : << "handle", h >> \in announced => razorpay[h].state # "none"
      BY <1>1 DEF IInv, Told, Tally
    <2> QED
      BY <1>1, <2>1, <2>2, <2>3 DEF Tally, ToldIsRecorded
  <1> QED
    BY InitEstablishes, NextPreserves, MoneyInit, MoneyPreserved, TallyInit, TallyPreserved,
       <1>1, PTL DEF Spec
==============================================================================
