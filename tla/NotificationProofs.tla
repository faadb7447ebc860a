-------------------------- MODULE NotificationProofs ---------------------------
(***************************************************************************)
(* Theorems about NotificationOutbox for every set of deliveries, callers  *)
(* and lanes, every budget of attempts and every number of crashes.        *)
(*                                                                         *)
(* What the runs check is not inductive.  An event has its rows because no *)
(* two open transactions hold one key and none holds a key on record; a    *)
(* delivery has one sender because a lane with a row keeps the lease on    *)
(* it, PENDING and not due; and the promise is kept because a message the  *)
(* channel has for certain is SENT already, or about to be written down    *)
(* by the one lane that heard so.                                          *)
(***************************************************************************)
EXTENDS NotificationOutbox, FiniteSetTheorems, TLAPS

\* An open transaction holds a key that is not on record, and nobody else holds it.
OpenKeys ==
    \A c \in Callers : call[c].at # "idle" =>
        /\ call[c].key \in Keys \ events
        /\ \A b \in Callers : call[b].at # "idle" /\ call[b].key = call[c].key => b = c

Busy(w) == lane[w].at \in {"send", "record"}

\* A lane at work on a row works on one that exists; rows are never deleted.
RowsExist ==
    \A w \in Workers : Busy(w) =>
        lane[w].id \in Deliveries /\ row[lane[w].id].status # "none"

\* The lease a lane took on its row is still good.
Leases ==
    \A w \in Workers : Busy(w) =>
        /\ lane[w].id \in Deliveries
        /\ row[lane[w].id].status = "PENDING"
        /\ ~row[lane[w].id].due

Alone ==
    \A v, w \in Workers : Busy(v) /\ Busy(w) /\ lane[v].id = lane[w].id => v = w

\* The channel has the message, and has not been forgotten to have it.
Certain(d) == accepted[d] > 0 /\ ~doubt[d]

HeardOk(w) == lane[w].at = "record" /\ lane[w].result = "ok"

\* A lane at its UPDATE has an answer, and a good one tells the truth.
Heard ==
    \A w \in Workers : lane[w].at = "record" =>
        /\ lane[w].result \in Results
        /\ lane[w].result = "ok" => Certain(lane[w].id)

\* A message taken for certain is written down, or in the hands of the lane that heard.
Known ==
    \A d \in Deliveries : Certain(d) =>
        \/ row[d].status = "SENT"
        \/ \E w \in Workers : HeardOk(w) /\ lane[w].id = d

EventInv == TypeOK /\ OpenKeys /\ RowsExist /\ EventHasDeliveries

LeaseInv == EventInv /\ Leases /\ Alone /\ Heard /\ Known

-----------------------------------------------------------------------------
(* Types, events and their rows: however long a call of a channel takes.   *)

\* Nothing is on record and nobody is at work.
LEMMA InitEvents == Init => EventInv
  BY OutboxConstants
  DEF Init, EventInv, TypeOK, OpenKeys, RowsExist, Busy, EventHasDeliveries, NoRow, NoCall, NoLane, Keys,
      Row, Call, Lane

\* A lane goes back to its list, or rests.
LEMMA RestIsLane ==
    ASSUME TypeOK, NEW w \in Workers, NEW d
    PROVE  Rest(w, d) \in Lane /\ Rest(w, d).at \in {"idle", "claim"}
  BY DEF TypeOK, Rest, NoLane, Lane

\* A function stays one when a value of its range is put at a place.
LEMMA PutIsTyped ==
    ASSUME NEW S, NEW T, NEW f \in [S -> T], NEW x, NEW y \in T
    PROVE  [f EXCEPT ![x] = y] \in [S -> T]
  OBVIOUS

\* A claim spends an attempt and takes the lease.
LEMMA ClaimTakes ==
    ASSUME TypeOK, NEW w \in Workers, NEW d \in Deliveries, Claim(w, d)
    PROVE  /\ row' \in [Deliveries -> Row]
           /\ lane' \in [Workers -> Lane]
           /\ row'[d].status = "PENDING" /\ ~row'[d].due
           /\ \A e \in Deliveries \ {d} : row'[e] = row[e]
           /\ lane'[w].at = "send" /\ lane'[w].id = d
           /\ \A v \in Workers \ {w} : lane'[v] = lane[v]
  <1>1. PICK n \in 0 .. MAX_ATTEMPTS, last \in BOOLEAN :
            /\ row' = [row EXCEPT ![d].attempts = n, ![d].due = FALSE]
            /\ lane' = [lane EXCEPT ![w].at = "send", ![w].id = d, ![w].last = last,
                                    ![w].list = @ \ {d}]
    <2> DEFINE n == IF row[d].attempts = MAX_ATTEMPTS THEN MAX_ATTEMPTS
                    ELSE row[d].attempts + 1
    <2>1. row[d].attempts \in 0 .. MAX_ATTEMPTS
      BY DEF TypeOK, Row
    <2>2. n \in 0 .. MAX_ATTEMPTS
      BY <2>1, OutboxConstants
    <2>3. (n = MAX_ATTEMPTS) \in BOOLEAN
      OBVIOUS
    <2> QED
      BY <2>2, <2>3, Zenon DEF Claim
  <1>2. row[d].status = "PENDING"
    BY DEF Claim, Due
  <1>3. row' \in [Deliveries -> Row]
    BY ZenonT(30), <1>1 DEF TypeOK, Row
  <1>4. lane' \in [Workers -> Lane]
    <2>1. lane[w] \in Lane
      BY DEF TypeOK
    <2>2. [lane[w] EXCEPT !.at = "send", !.id = d, !.last = last, !.list = @ \ {d}] \in Lane
      BY <2>1 DEF Lane
    <2> QED
      BY <1>1, <2>2 DEF TypeOK
  <1> QED
    BY <1>1, <1>2, <1>3, <1>4 DEF TypeOK, Row, Lane

\* The UPDATE ends the row's attempt, as its verdict says.
LEMMA RecordWrites ==
    ASSUME TypeOK, NEW w \in Workers, lane[w].id \in Deliveries, Record(w)
    PROVE  LET d == lane[w].id IN
           /\ row' \in [Deliveries -> Row]
           /\ lane' \in [Workers -> Lane]
           /\ row'[d].status = Verdict(lane[w].result, lane[w].last) /\ ~row'[d].due
           /\ row'[d].status \in {"PENDING", "SENT", "FAILED", "SKIPPED"}
           /\ \A e \in Deliveries \ {d} : row'[e] = row[e]
           /\ lane'[w].at \in {"idle", "claim"}
           /\ \A v \in Workers \ {w} : lane'[v] = lane[v]
  <1>1. PICK s \in {"PENDING", "SENT", "FAILED", "SKIPPED"} :
            /\ s = Verdict(lane[w].result, lane[w].last)
            /\ row' = [row EXCEPT ![lane[w].id].status = s, ![lane[w].id].due = FALSE]
    <2>1. Verdict(lane[w].result, lane[w].last) \in {"PENDING", "SENT", "FAILED", "SKIPPED"}
      BY DEF Verdict
    <2> QED
      BY <2>1 DEF Record
  <1>2. lane' = [lane EXCEPT ![w] = Rest(w, lane[w].id)]
    BY DEF Record
  <1>3. row' \in [Deliveries -> Row]
    BY <1>1 DEF TypeOK, Row
  <1>4. lane' \in [Workers -> Lane]
    BY <1>2, RestIsLane DEF TypeOK
  <1> QED
    BY <1>1, <1>2, <1>3, <1>4, RestIsLane DEF TypeOK, Row

\* Nothing a lane does, and no crash of one, ill-types a variable, leaves a lane without
\* its row, or makes or unmakes a row.
LEMMA WorkKeepsEvents ==
    ASSUME EventInv, NEW w \in Workers, Work(w) \/ Crash(w)
    PROVE  EventInv'
  <1> USE OutboxConstants
  <1> SUFFICES /\ TypeOK' /\ RowsExist' /\ UNCHANGED << events, call >>
               /\ \A d \in Deliveries : row'[d].status = "none" <=> row[d].status = "none"
    BY DEF EventInv, OpenKeys, EventHasDeliveries
  <1> USE DEF EventInv, TypeOK
  <1>1. CASE Sweep(w)
    BY <1>1 DEF Sweep, Lane, NoLane, RowsExist, Busy
  <1>2. CASE Accept(w)
    <2>1. PICK r \in {"ok", "retryable"}, b \in BOOLEAN :
             /\ lane' = [lane EXCEPT ![w].at = "record", ![w].result = r]
             /\ doubt' = [doubt EXCEPT ![lane[w].id] = b]
      BY <1>2 DEF Accept
    <2>2. lane' \in [Workers -> Lane]
      <3>1. [lane[w] EXCEPT !.at = "record", !.result = r] \in Lane
        BY DEF Lane, Results
      <3> QED
        BY <2>1, <3>1
    <2>3. doubt' \in [Deliveries -> BOOLEAN]
      BY <2>1
    <2>4. accepted' \in [Deliveries -> 0 .. 2]
      <3>1. accepted' = [accepted EXCEPT ![lane[w].id] = IF @ = 0 THEN 1 ELSE 2]
        BY <1>2 DEF Accept
      <3>2. (IF accepted[lane[w].id] = 0 THEN 1 ELSE 2) \in 0 .. 2
        OBVIOUS
      <3> QED
        BY <3>1, <3>2, PutIsTyped, Zenon
    <2>5. RowsExist'
      BY <1>2, <2>1 DEF Accept, RowsExist, Busy
    <2> QED
      BY <1>2, <2>2, <2>3, <2>4, <2>5 DEF Accept
  <1>3. CASE Decline(w)
    <2>1. PICK r \in Results : lane' = [lane EXCEPT ![w].at = "record", ![w].result = r]
      BY <1>3 DEF Decline
    <2>2. lane' \in [Workers -> Lane]
      <3>1. [lane[w] EXCEPT !.at = "record", !.result = r] \in Lane
        BY DEF Lane
      <3> QED
        BY <2>1, <3>1
    <2>3. RowsExist'
      BY <1>3, <2>1 DEF Decline, RowsExist, Busy
    <2> QED
      BY <1>3, <2>2, <2>3 DEF Decline
  <1>4. CASE Record(w)
    <2>1. lane[w].id \in Deliveries /\ row[lane[w].id].status # "none"
      BY <1>4 DEF Record, RowsExist, Busy
    <2>2. row' \in [Deliveries -> Row] /\ lane' \in [Workers -> Lane]
      BY <1>4, <2>1, RecordWrites
    <2>3. \A d \in Deliveries : row'[d].status = "none" <=> row[d].status = "none"
      BY <1>4, <2>1, RecordWrites
    <2>4. RowsExist'
      BY <1>4, <2>1, <2>3, RecordWrites DEF RowsExist, Busy
    <2> QED
      BY <1>4, <2>2, <2>3, <2>4 DEF Record
  <1>5. CASE Crash(w)
    BY <1>5 DEF Crash, Lane, NoLane, RowsExist, Busy
  <1>6. ASSUME NEW d \in Deliveries, Claim(w, d)
        PROVE  /\ TypeOK' /\ RowsExist' /\ UNCHANGED << events, call >>
               /\ \A e \in Deliveries : row'[e].status = "none" <=> row[e].status = "none"
    <2>1. row[d].status = "PENDING"
      BY <1>6 DEF Claim, Due
    <2>2. \A e \in Deliveries : row'[e].status = "none" <=> row[e].status = "none"
      BY <1>6, <2>1, ClaimTakes
    <2>3. RowsExist'
      BY <1>6, <2>1, <2>2, ClaimTakes DEF RowsExist, Busy
    <2>4. row' \in [Deliveries -> Row] /\ lane' \in [Workers -> Lane]
      BY <1>6, ClaimTakes
    <2> QED
      BY <1>6, <2>2, <2>3, <2>4 DEF Claim
  <1>7. ASSUME NEW d \in Deliveries, LoseRace(w, d)
        PROVE  /\ TypeOK' /\ RowsExist' /\ UNCHANGED << events, call, row >>
    BY <1>7, RestIsLane DEF LoseRace, RowsExist, Busy
  <1> QED
    BY <1>1, <1>2, <1>3, <1>4, <1>5, <1>6, <1>7 DEF Work

\* Every step keeps an event and its rows together: they become visible in one commit.
LEMMA EventStep == EventInv /\ [Next]_vars => EventInv'
  <1> SUFFICES ASSUME EventInv, [Next]_vars PROVE EventInv'
    OBVIOUS
  <1> USE OutboxConstants DEF EventInv
  <1>1. ASSUME NEW c \in Callers, NEW k \in Keys, InsertEvent(c, k) PROVE EventInv'
    <2>1. TypeOK'
      BY <1>1 DEF InsertEvent, TypeOK, Call
    <2>2. OpenKeys'
      BY <1>1 DEF InsertEvent, TypeOK, OpenKeys, KeyIsOpen
    <2> QED
      BY <1>1, <2>1, <2>2 DEF InsertEvent, EventHasDeliveries, RowsExist, Busy
  <1>2. ASSUME NEW c \in Callers, InsertDeliveries(c) PROVE EventInv'
    <2>1. TypeOK'
      BY <1>2 DEF InsertDeliveries, TypeOK, Call
    <2>2. OpenKeys'
      BY <1>2 DEF InsertDeliveries, TypeOK, OpenKeys, Call
    <2> QED
      BY <1>2, <2>1, <2>2 DEF InsertDeliveries, EventHasDeliveries, RowsExist, Busy
  <1>3. ASSUME NEW c \in Callers, Commit(c) PROVE EventInv'
    <2>1. call[c].key \in Keys \ events
      BY <1>3 DEF Commit, OpenKeys
    <2>2. PICK due \in BOOLEAN :
             row' = [d \in Deliveries |->
                IF EventOf[d] = call[c].key
                THEN [status |-> "PENDING", attempts |-> 0, due |-> due]
                ELSE row[d]]
      BY <1>3 DEF Commit
    <2>3. TypeOK'
      <3>1. row' \in [Deliveries -> Row]
        BY <2>2 DEF TypeOK, Row
      <3> QED
        BY <1>3, <2>1, <3>1 DEF Commit, TypeOK, Call, NoCall
    <2>4. OpenKeys'
      BY <1>3, <2>1 DEF Commit, TypeOK, OpenKeys, NoCall
    <2>5. EventHasDeliveries'
      BY <1>3, <2>1, <2>2 DEF Commit, TypeOK, EventHasDeliveries
    <2>6. RowsExist'
      BY <1>3, <2>1, <2>2 DEF Commit, TypeOK, RowsExist, Busy
    <2> QED
      BY <2>3, <2>4, <2>5, <2>6
  <1>4. ASSUME NEW c \in Callers, Rollback(c) PROVE EventInv'
    BY <1>4 DEF Rollback, TypeOK, OpenKeys, EventHasDeliveries, RowsExist, Busy, Call, NoCall
  <1>5. ASSUME NEW w \in Workers, Work(w) \/ Crash(w) PROVE EventInv'
    BY <1>5, WorkKeepsEvents
  <1>6. ASSUME NEW d \in Deliveries, Lapse(d) PROVE EventInv'
    BY ZenonT(30), <1>6 DEF Lapse, TypeOK, OpenKeys, EventHasDeliveries, RowsExist, Busy, Row
  <1>7. ASSUME NEW d \in Deliveries, Retry(d) PROVE EventInv'
    BY <1>7 DEF Retry, TypeOK, OpenKeys, EventHasDeliveries, RowsExist, Busy, Row
  <1>8. CASE UNCHANGED vars
    BY <1>8 DEF vars, TypeOK, OpenKeys, EventHasDeliveries, RowsExist, Busy
  <1> QED
    BY <1>1, <1>2, <1>3, <1>4, <1>5, <1>6, <1>7, <1>8 DEF Next

\* Every variable keeps its type, in every behaviour of the outbox.
THEOREM TypeCorrect == Spec => []TypeOK
  <1>1. EventInv => TypeOK
    BY DEF EventInv
  <1> QED
    BY InitEvents, EventStep, <1>1, PTL DEF Spec

\* An event on record has a row on every channel, however callers race, fail and crash,
\* and even if a provider outlasts the lease: enqueueNotification writes both in one
\* transaction.
THEOREM EventAndRows == Spec => []EventHasDeliveries
  <1>1. EventInv => EventHasDeliveries
    BY DEF EventInv
  <1> QED
    BY InitEvents, EventStep, <1>1, PTL DEF Spec

-----------------------------------------------------------------------------
(* The lease: provided no call of a channel outlasts it.                   *)

LEMMA InitLeases == Init => LeaseInv
  <1> SUFFICES ASSUME Init PROVE LeaseInv
    OBVIOUS
  <1>1. EventInv
    BY InitEvents
  <1>2. Leases /\ Alone /\ Heard /\ Known
    BY DEF Init, Leases, Alone, Heard, Known, Busy, Certain, NoLane
  <1> QED
    BY <1>1, <1>2 DEF LeaseInv

\* The channel has a lane's message for certain exactly when this lane heard so.
LEMMA OnlyOkIsCertain ==
    ASSUME LeaseInv, NEW w \in Workers, Busy(w)
    PROVE  /\ lane[w].id \in Deliveries
           /\ row[lane[w].id].status = "PENDING"
           /\ Certain(lane[w].id) <=> HeardOk(w)
  BY DEF LeaseInv, Leases, Alone, Heard, Known, Busy, HeardOk

\* A row that no lane may have been leased, and that is not SENT, is not known to be taken.
LEMMA UnleasedIsUncertain ==
    ASSUME LeaseInv, NEW d \in Deliveries, row[d].status # "SENT",
           \A w \in Workers : Busy(w) => lane[w].id # d
    PROVE  ~Certain(d)
  BY DEF LeaseInv, Known, HeardOk, Busy

LEMMA WorkKeepsLeases ==
    ASSUME LeaseInv, NEW w \in Workers, Work(w) \/ Crash(w)
    PROVE  (Leases /\ Alone /\ Heard /\ Known)'
  <1> DEFINE Kept == (Leases /\ Alone /\ Heard /\ Known)'
  <1> USE DEF LeaseInv, EventInv, TypeOK
  <1>1. CASE Sweep(w)
    <2>1. UNCHANGED << row, accepted, doubt >> /\ ~Busy(w) /\ ~Busy(w)'
      BY <1>1 DEF Sweep, Busy, NoLane
    <2>2. \A v \in Workers \ {w} : lane'[v] = lane[v]
      BY <1>1 DEF Sweep
    <2> QED
      BY <2>1, <2>2 DEF Leases, Alone, Heard, Known, Busy, HeardOk, Certain
  <1>2. CASE Accept(w)
    <2> DEFINE d == lane[w].id
    <2>1. Busy(w) /\ ~HeardOk(w)
      BY <1>2 DEF Accept, Busy, HeardOk
    <2>2. d \in Deliveries /\ row[d].status = "PENDING" /\ ~row[d].due
      BY <2>1 DEF Leases
    <2>3. PICK r \in {"ok", "retryable"} :
             /\ lane' = [lane EXCEPT ![w].at = "record", ![w].result = r]
             /\ doubt' = [doubt EXCEPT ![d] = (r = "retryable")]
      BY <1>2 DEF Accept
    <2>4. /\ lane'[w].at = "record" /\ lane'[w].result = r /\ lane'[w].id = d
          /\ \A v \in Workers \ {w} : lane'[v] = lane[v]
      BY <2>3 DEF Lane
    <2>5. accepted'[d] > 0 /\ \A e \in Deliveries \ {d} : accepted'[e] = accepted[e]
      BY <1>2, <2>2 DEF Accept
    <2>6. /\ Certain(d)' <=> r = "ok"
          /\ \A e \in Deliveries \ {d} : Certain(e)' <=> Certain(e)
      <3>1. /\ doubt'[d] <=> r = "retryable"
            /\ \A e \in Deliveries \ {d} : doubt'[e] <=> doubt[e]
        BY <2>2, <2>3
      <3> QED
        BY <2>2, <2>4, <2>5, <3>1 DEF Certain
    <2>7. Leases' /\ Alone'
      BY <1>2, <2>1, <2>4 DEF Accept, Leases, Alone, Busy
    <2>8. Heard'
      BY <2>1, <2>4, <2>6 DEF Heard, Alone, Busy, Results, Leases
    <2>9. Known'
      BY <1>2, <2>1, <2>2, <2>4, <2>6 DEF Accept, Known, HeardOk, Busy
    <2> QED
      BY <2>7, <2>8, <2>9
  <1>3. CASE Decline(w)
    <2>1. Busy(w) /\ ~HeardOk(w) /\ UNCHANGED << row, accepted, doubt >>
      BY <1>3 DEF Decline, Busy, HeardOk
    <2>2. PICK r \in Results \ {"ok"} :
             lane' = [lane EXCEPT ![w].at = "record", ![w].result = r]
      BY <1>3 DEF Decline
    <2>3. /\ lane'[w].at = "record" /\ lane'[w].result = r /\ lane'[w].id = lane[w].id
          /\ \A v \in Workers \ {w} : lane'[v] = lane[v]
      BY <2>2 DEF Lane
    <2> QED
      BY <2>1, <2>3 DEF Leases, Alone, Heard, Known, Busy, HeardOk, Certain
  <1>4. CASE Record(w)
    <2> DEFINE d == lane[w].id
    <2>1. Busy(w) /\ UNCHANGED << accepted, doubt >>
      BY <1>4 DEF Record, Busy
    <2>2. d \in Deliveries /\ (Certain(d) <=> HeardOk(w))
      BY <2>1, OnlyOkIsCertain
    <2>3. /\ row'[d].status = Verdict(lane[w].result, lane[w].last)
          /\ \A e \in Deliveries \ {d} : row'[e] = row[e]
          /\ ~Busy(w)' /\ \A v \in Workers \ {w} : lane'[v] = lane[v]
      BY <1>4, <2>2, RecordWrites DEF Busy
    <2>4. \A v \in Workers \ {w} : Busy(v) => lane[v].id # d
      BY <2>1 DEF Alone
    <2>5. HeardOk(w) => row'[d].status = "SENT"
      <3>1. Verdict("ok", lane[w].last) = "SENT"
        BY DEF Verdict
      <3> QED
        BY <2>3, <3>1 DEF HeardOk
    <2> QED
      BY <2>1, <2>2, <2>3, <2>4, <2>5 DEF Leases, Alone, Heard, Known, Busy, HeardOk, Certain
  <1>5. CASE Crash(w)
    <2>1. /\ ~Busy(w)' /\ UNCHANGED << row, accepted >>
          /\ \A v \in Workers \ {w} : lane'[v] = lane[v]
      BY <1>5 DEF Crash, Busy, NoLane
    <2>2. \A d \in Deliveries :
             Certain(d)' <=> Certain(d) /\ ~(HeardOk(w) /\ lane[w].id = d)
      BY <1>5 DEF Crash, Certain, HeardOk
    <2>3. \A v \in Workers \ {w} : Busy(v) /\ Busy(w) => lane[v].id # lane[w].id
      BY DEF Alone
    <2> QED
      BY <2>1, <2>2, <2>3 DEF Leases, Alone, Heard, Known, Busy, HeardOk
  <1>6. ASSUME NEW d \in Deliveries, Claim(w, d) PROVE Kept
    <2>1. UNCHANGED << accepted, doubt >> /\ ~Busy(w) /\ row[d].status = "PENDING" /\ row[d].due
      BY <1>6 DEF Claim, Due, Busy
    <2>2. \A v \in Workers : Busy(v) => lane[v].id # d
      BY <2>1 DEF Leases
    <2>3. /\ row'[d].status = "PENDING" /\ ~row'[d].due
          /\ \A e \in Deliveries \ {d} : row'[e] = row[e]
          /\ lane'[w].at = "send" /\ lane'[w].id = d
          /\ \A v \in Workers \ {w} : lane'[v] = lane[v]
      BY <1>6, ClaimTakes
    <2>4. ~Certain(d)
      BY <2>1, <2>2, UnleasedIsUncertain
    <2> QED
      BY <2>1, <2>2, <2>3, <2>4 DEF Leases, Alone, Heard, Known, Busy, HeardOk, Certain
  <1>7. ASSUME NEW d \in Deliveries, LoseRace(w, d) PROVE Kept
    <2>1. UNCHANGED << row, accepted, doubt >> /\ ~Busy(w) /\ ~Busy(w)'
      BY <1>7, RestIsLane DEF LoseRace, Busy
    <2>2. \A v \in Workers \ {w} : lane'[v] = lane[v]
      BY <1>7 DEF LoseRace
    <2> QED
      BY <2>1, <2>2 DEF Leases, Alone, Heard, Known, Busy, HeardOk, Certain
  <1> QED
    BY <1>1, <1>2, <1>3, <1>4, <1>5, <1>6, <1>7 DEF Work

LEMMA LeaseStep == Slow = FALSE /\ LeaseInv /\ [Next]_vars => LeaseInv'
  <1> SUFFICES ASSUME Slow = FALSE, LeaseInv, [Next]_vars
               PROVE  (Leases /\ Alone /\ Heard /\ Known)'
    BY EventStep DEF LeaseInv
  <1> DEFINE Kept == (Leases /\ Alone /\ Heard /\ Known)'
  <1> USE DEF LeaseInv, EventInv, TypeOK
  <1>1. CASE UNCHANGED << row, lane, accepted, doubt >>
    BY <1>1 DEF Leases, Alone, Heard, Known, Busy, HeardOk, Certain
  <1>2. ASSUME NEW c \in Callers, Commit(c) PROVE Kept
    <2>1. UNCHANGED << lane, accepted, doubt >>
      BY <1>2 DEF Commit
    <2>2. \A d \in Deliveries : row[d].status # "none" => row'[d] = row[d]
      BY <1>2 DEF Commit, OpenKeys, EventHasDeliveries
    <2>3. \A d \in Deliveries : row[d].status = "none" => ~Certain(d)
      BY UnleasedIsUncertain DEF RowsExist
    <2> QED
      BY <2>1, <2>2, <2>3 DEF Leases, Alone, Heard, Known, Busy, HeardOk, Certain, RowsExist
  <1>3. ASSUME NEW w \in Workers, Work(w) \/ Crash(w) PROVE Kept
    BY <1>3, WorkKeepsLeases
  <1>4. ASSUME NEW d \in Deliveries, Lapse(d) PROVE Kept
    <2>1. /\ UNCHANGED << lane, accepted, doubt >>
          /\ row'[d].status = row[d].status /\ \A e \in Deliveries \ {d} : row'[e] = row[e]
      BY <1>4 DEF Lapse, Row
    <2>2. \A w \in Workers : Busy(w) => lane[w].id # d
      BY <1>4 DEF Lapse, Senders, Busy
    <2> QED
      BY <2>1, <2>2 DEF Leases, Alone, Heard, Known, Busy, HeardOk, Certain
  <1>5. ASSUME NEW d \in Deliveries, Retry(d) PROVE Kept
    <2>1. /\ UNCHANGED << lane, accepted, doubt >> /\ row[d].status \in {"FAILED", "SKIPPED"}
          /\ \A e \in Deliveries \ {d} : row'[e] = row[e]
      BY <1>5 DEF Retry
    <2>2. \A w \in Workers : Busy(w) => lane[w].id # d
      BY <2>1 DEF Leases
    <2>3. ~Certain(d)
      BY <2>1, <2>2, UnleasedIsUncertain
    <2> QED
      BY <2>1, <2>2, <2>3 DEF Leases, Alone, Heard, Known, Busy, HeardOk, Certain
  <1>6. ASSUME NEW c \in Callers, InsertDeliveries(c) \/ Rollback(c)
                                  \/ \E k \in Keys : InsertEvent(c, k)
        PROVE  Kept
    BY <1>1, <1>6 DEF InsertEvent, InsertDeliveries, Rollback
  <1>7. CASE UNCHANGED vars
    BY <1>1, <1>7 DEF vars
  <1> QED
    BY <1>2, <1>3, <1>4, <1>5, <1>6, <1>7 DEF Next

\* No delivery is ever in the hands of two lanes, whichever passes overlap and whatever
\* crashes, as long as the lease outlasts every call of a channel: the UPDATE in
\* attemptOne takes the lease only from a row whose lease has passed.
THEOREM LeaseExcludes ==
    ASSUME Slow = FALSE
    PROVE  Spec => []OneSender
  <1>1. LeaseInv => OneSender
    <2> SUFFICES ASSUME LeaseInv, NEW d \in Deliveries PROVE Cardinality(Senders(d)) <= 1
      BY DEF OneSender
    <2>1. CASE Senders(d) = {}
      BY <2>1, FS_EmptySet
    <2>2. CASE Senders(d) # {}
      <3>1. PICK w : w \in Senders(d)
        BY <2>2
      <3>2. Senders(d) = {w}
        BY <3>1 DEF Senders, LeaseInv, Alone, Busy
      <3>3. Cardinality({w}) = 1
        BY FS_Singleton
      <3> QED
        BY <3>2, <3>3
    <2> QED
      BY <2>1, <2>2
  <1>2. LeaseInv /\ [Next]_vars => LeaseInv'
    BY LeaseStep
  <1> QED
    BY InitLeases, <1>1, <1>2, PTL DEF Spec

-----------------------------------------------------------------------------
(* The promise: each step of the outbox is a step of MessagePromise, or    *)
(* none.                                                                   *)

LEMMA StageOfRow ==
    ASSUME NEW d \in Deliveries
    PROVE  /\ row[d].status = "none" => Stage[d] = "none"
           /\ row[d].status = "PENDING" => Stage[d] = "queued"
           /\ row[d].status = "SENT" => Stage[d] = "sent"
           /\ row[d].status \in {"FAILED", "SKIPPED"} => Stage[d] = "given up"
           /\ row'[d].status = "none" => Stage'[d] = "none"
           /\ row'[d].status = "PENDING" => Stage'[d] = "queued"
           /\ row'[d].status = "SENT" => Stage'[d] = "sent"
           /\ row'[d].status \in {"FAILED", "SKIPPED"} => Stage'[d] = "given up"
  BY DEF Stage

\* Rows that keep their status keep their stage.
LEMMA SameStatusSameStage ==
    ASSUME \A d \in Deliveries : row'[d].status = row[d].status
    PROVE  Stage' = Stage
  BY DEF Stage

LEMMA InitPromises == Init => Promise!Init
  BY DEF Init, NoRow, Promise!Init, Stage

\* A lane's step tells the channel, forgets, finishes a message, or changes nothing the
\* promise is about.
LEMMA WorkPromises ==
    ASSUME LeaseInv, NEW w \in Workers, Work(w) \/ Crash(w)
    PROVE  [Promise!Next]_(Promise!vars)
  <1> DEFINE d == lane[w].id
  <1> USE DEF LeaseInv, EventInv, TypeOK
  <1>1. CASE Accept(w)
    <2>1. Busy(w) /\ ~HeardOk(w)
      BY <1>1 DEF Accept, Busy, HeardOk
    <2>2. d \in Deliveries /\ Stage[d] = "queued" /\ ~Promise!Certain(d)
      BY <2>1, OnlyOkIsCertain, StageOfRow DEF Certain, Promise!Certain
    <2>3. UNCHANGED Stage
      BY <1>1, SameStatusSameStage DEF Accept
    <2>4. Promise!Tell(d)
      BY <1>1, <2>2, <2>3 DEF Accept, Promise!Tell
    <2> QED
      BY <2>2, <2>4 DEF Promise!Next
  <1>2. CASE Record(w)
    <2>1. Busy(w)
      BY <1>2 DEF Record, Busy
    <2>2. d \in Deliveries /\ Stage[d] = "queued" /\ (Promise!Certain(d) <=> HeardOk(w))
      BY <2>1, OnlyOkIsCertain, StageOfRow DEF Certain, Promise!Certain
    <2>3. /\ row'[d].status = Verdict(lane[w].result, lane[w].last)
          /\ \A e \in Deliveries \ {d} : row'[e] = row[e]
      BY <1>2, <2>2, RecordWrites
    <2>4. UNCHANGED << accepted, doubt >>
      BY <1>2 DEF Record
    <2>5. CASE row'[d].status = "PENDING"
      <3>1. UNCHANGED Stage
        BY <2>1, <2>2, <2>3, <2>5, OnlyOkIsCertain, SameStatusSameStage
      <3> QED
        BY <2>4, <3>1 DEF Promise!vars
    <2>6. CASE row'[d].status # "PENDING"
      <3>1. Stage'[d] = IF Promise!Certain(d) THEN "sent" ELSE "given up"
        <4>1. lane[w].result \in Results /\ (HeardOk(w) <=> lane[w].result = "ok")
          BY <1>2 DEF Record, Heard, HeardOk
        <4>2. row'[d].status = IF HeardOk(w) THEN "SENT" ELSE row'[d].status
          BY <2>3, <4>1 DEF Verdict
        <4>3. ~HeardOk(w) => row'[d].status \in {"FAILED", "SKIPPED"}
          BY <2>3, <2>6, <4>1 DEF Verdict, Results
        <4> QED
          BY <2>2, <4>2, <4>3, StageOfRow
      <3>2. Stage' = [Stage EXCEPT ![d] = IF Promise!Certain(d) THEN "sent" ELSE "given up"]
        BY <2>2, <2>3, <3>1 DEF Stage
      <3>3. Promise!Finish(d)
        BY <2>2, <2>4, <3>2 DEF Promise!Finish
      <3> QED
        BY <2>2, <3>3 DEF Promise!Next
    <2> QED
      BY <2>5, <2>6
  <1>3. CASE Crash(w)
    <2>1. UNCHANGED << row, accepted >> /\ UNCHANGED Stage
      BY <1>3, SameStatusSameStage DEF Crash
    <2>2. CASE HeardOk(w)
      <3>1. d \in Deliveries /\ Stage[d] = "queued" /\ Promise!Certain(d)
        BY <2>2, OnlyOkIsCertain, StageOfRow DEF Certain, Promise!Certain, HeardOk, Busy
      <3>2. doubt' = [doubt EXCEPT ![d] = TRUE]
        BY <1>3, <2>2, <3>1 DEF Crash, HeardOk
      <3>3. Promise!Forget(d)
        BY <2>1, <3>1, <3>2 DEF Promise!Forget
      <3> QED
        BY <3>1, <3>3 DEF Promise!Next
    <2>3. CASE ~HeardOk(w)
      <3>1. doubt' = doubt
        BY <1>3, <2>3 DEF Crash, HeardOk
      <3> QED
        BY <2>1, <3>1 DEF Promise!vars
    <2> QED
      BY <2>2, <2>3
  <1>4. ASSUME NEW e \in Deliveries, Claim(w, e) PROVE UNCHANGED Promise!vars
    <2>1. \A x \in Deliveries : row'[x].status = row[x].status
      <3>1. row[e].status = "PENDING" /\ row'[e].status = "PENDING"
        BY <1>4, ClaimTakes DEF Claim, Due
      <3> QED
        BY <1>4, <3>1, ClaimTakes
    <2> QED
      BY <1>4, <2>1, SameStatusSameStage DEF Claim, Promise!vars
  <1>5. ASSUME Sweep(w) \/ Decline(w) \/ \E e \in Deliveries : LoseRace(w, e)
        PROVE  UNCHANGED Promise!vars
    BY <1>5, SameStatusSameStage DEF Sweep, Decline, LoseRace, Promise!vars
  <1> QED
    BY <1>1, <1>2, <1>3, <1>4, <1>5 DEF Work

\* Every step of the outbox is one the promise allows.
LEMMA StepPromises ==
    LeaseInv /\ [Next]_vars => [Promise!Next]_(Promise!vars)
  <1> SUFFICES ASSUME LeaseInv, [Next]_vars PROVE [Promise!Next]_(Promise!vars)
    OBVIOUS
  <1> USE DEF LeaseInv, EventInv, TypeOK
  <1>1. ASSUME NEW c \in Callers, Commit(c) PROVE [Promise!Next]_(Promise!vars)
    <2> DEFINE k == call[c].key
    <2>1. \A d \in Deliveries : EventOf[d] = k =>
             row[d].status = "none" /\ row'[d].status = "PENDING"
      BY <1>1 DEF Commit, OpenKeys, EventHasDeliveries
    <2>2. \A d \in Deliveries : EventOf[d] # k => row'[d] = row[d]
      BY <1>1 DEF Commit
    <2>3. Stage' = [d \in Deliveries |-> IF EventOf[d] = k THEN "queued" ELSE Stage[d]]
      BY <2>1, <2>2 DEF Stage
    <2>4. Promise!Announce(k)
      BY <1>1, <2>1, <2>3, StageOfRow DEF Commit, Promise!Announce
    <2>5. PICK d \in Deliveries : k = EventOf[d]
      BY <1>1 DEF Commit, OpenKeys, Keys
    <2> QED
      BY <2>4, <2>5 DEF Promise!Next
  <1>2. ASSUME NEW w \in Workers, Work(w) \/ Crash(w) PROVE [Promise!Next]_(Promise!vars)
    BY <1>2, WorkPromises
  <1>3. ASSUME NEW d \in Deliveries, Lapse(d) PROVE UNCHANGED Promise!vars
    <2>1. \A e \in Deliveries : row'[e].status = row[e].status
      BY <1>3 DEF Lapse, Row
    <2> QED
      BY <1>3, <2>1, SameStatusSameStage DEF Lapse, Promise!vars
  <1>4. ASSUME NEW d \in Deliveries, Retry(d) PROVE [Promise!Next]_(Promise!vars)
    <2>1. Stage[d] = "given up" /\ Stage' = [Stage EXCEPT ![d] = "queued"]
      BY <1>4, StageOfRow, ZenonT(60) DEF Retry, Stage
    <2>2. Promise!Reopen(d)
      BY <1>4, <2>1 DEF Retry, Promise!Reopen
    <2> QED
      BY <2>2 DEF Promise!Next
  <1>5. ASSUME NEW c \in Callers, InsertDeliveries(c) \/ Rollback(c)
                                  \/ \E k \in Keys : InsertEvent(c, k)
        PROVE  UNCHANGED Promise!vars
    BY <1>5, SameStatusSameStage DEF InsertEvent, InsertDeliveries, Rollback, Promise!vars
  <1>6. CASE UNCHANGED vars
    BY <1>6, SameStatusSameStage DEF vars, Promise!vars
  <1> QED
    BY <1>1, <1>2, <1>3, <1>4, <1>5, <1>6 DEF Next

\* The outbox implements the safety half of MessagePromise as long as the lease outlasts
\* every call of a channel: the messages of an event are queued together and once, a
\* channel is told again only when nobody knows that it accepted, and what it accepted
\* for certain is never reported as given up.
THEOREM OutboxKeepsPromise ==
    ASSUME Slow = FALSE
    PROVE  Spec => Promise!Safety
  <1>1. LeaseInv /\ [Next]_vars => LeaseInv'
    BY LeaseStep
  <1> QED
    BY InitLeases, InitPromises, <1>1, StepPromises, PTL DEF Spec, Promise!Safety
=============================================================================
