------------------------- MODULE NotificationOutbox -------------------------
(***************************************************************************)
(* The notification engine (services/notificationEngine): business code    *)
(* records an event once, with one delivery row per channel; a sweep takes *)
(* a lease on each row that is due, calls the channel, and writes down     *)
(* what the channel said; an admin puts a finished row back.               *)
(*                                                                         *)
(* Time is one bit of a row, whether next_attempt_at has passed.  One      *)
(* action is one SQL statement or one call of a channel.                   *)
(***************************************************************************)
EXTENDS Integers, FiniteSets

CONSTANTS
    Deliveries,   \* the notification_deliveries rows there may be
    EventOf,      \* the dedupe key of the event each of them belongs to
    Callers,      \* calls of enqueueNotification that may run at the same time
    Workers,      \* lanes of processPendingNotifications, of one pass or of several
    None,
    MAX_ATTEMPTS,
    MaxCrashes,   \* bound: how often a lane dies in the middle of a delivery
    Slow          \* BOOLEAN: a call of a channel may outlast the lease

Keys == {EventOf[d] : d \in Deliveries}

ASSUME OutboxConstants ==
    /\ EventOf \in [Deliveries -> Keys]
    /\ MAX_ATTEMPTS \in Nat \ {0} /\ MaxCrashes \in Nat /\ Slow \in BOOLEAN
    /\ None \notin Keys \cup Deliveries

VARIABLES
    events,       \* dedupe keys of the notification_events rows
    row,          \* the notification_deliveries rows
    call,         \* the transaction of each caller
    lane,         \* what each lane is doing
    accepted,     \* external: how often the channel took the message (2: more than once)
    doubt,        \* history: taken, and the program never heard or has forgotten
    crashes

vars == << events, row, call, lane, accepted, doubt, crashes >>

NoRow == [status |-> "none", attempts |-> 0, due |-> FALSE]
NoCall == [at |-> "idle", key |-> None]
NoLane == [at |-> "idle", list |-> {}, id |-> None, last |-> FALSE, result |-> "none"]
Results == {"ok", "skip", "refused", "retryable"}

Row == [status : {"none", "PENDING", "SENT", "FAILED", "SKIPPED"},
        attempts : 0 .. MAX_ATTEMPTS, due : BOOLEAN]
Call == [at : {"idle", "deliveries", "commit"}, key : Keys \cup {None}]
Lane == [at : {"idle", "claim", "send", "record"}, list : SUBSET Deliveries,
         id : Deliveries \cup {None}, last : BOOLEAN, result : Results \cup {"none"}]

TypeOK ==
    /\ events \subseteq Keys
    /\ row \in [Deliveries -> Row]
    /\ call \in [Callers -> Call]
    /\ lane \in [Workers -> Lane]
    /\ accepted \in [Deliveries -> 0 .. 2]
    /\ doubt \in [Deliveries -> BOOLEAN]
    /\ crashes \in 0 .. MaxCrashes

Init ==
    /\ events = {} /\ row = [d \in Deliveries |-> NoRow]
    /\ call = [c \in Callers |-> NoCall]
    /\ lane = [w \in Workers |-> NoLane]
    /\ accepted = [d \in Deliveries |-> 0]
    /\ doubt = [d \in Deliveries |-> FALSE]
    /\ crashes = 0

-----------------------------------------------------------------------------
(* enqueueNotification: one transaction, the event and then its rows.      *)

\* The unique index makes an INSERT wait for an open transaction with the same key.
KeyIsOpen(k) == \E c \in Callers : call[c].key = k

\* Mutant: the INSERT of the event is a statement of its own, committed at once.
InsertEventAlone(c, k) ==
    /\ call[c].at = "idle" /\ ~KeyIsOpen(k) /\ k \notin events
    /\ call' = [call EXCEPT ![c] = [at |-> "deliveries", key |-> k]]
    /\ events' = events \cup {k}
    /\ UNCHANGED << row, lane, accepted, doubt, crashes >>

\* notifyOrderStatus and its siblings call it once a transition has committed, and
\* again with the same key when the transition is replayed.  A call that finds the key
\* on record rolls back and returns enqueued: false.
InsertEvent(c, k) ==
    /\ call[c].at = "idle" /\ ~KeyIsOpen(k) /\ k \notin events
    /\ call' = [call EXCEPT ![c] = [at |-> "deliveries", key |-> k]]
    /\ UNCHANGED << events, row, lane, accepted, doubt, crashes >>

InsertDeliveries(c) ==
    /\ call[c].at = "deliveries"
    /\ call' = [call EXCEPT ![c].at = "commit"]
    /\ UNCHANGED << events, row, lane, accepted, doubt, crashes >>

\* sendAt may lie ahead: the rows are not due yet.
Commit(c) ==
    /\ call[c].at = "commit"
    /\ LET k == call[c].key IN
       /\ events' = events \cup {k}
       /\ \E due \in BOOLEAN :
             row' = [d \in Deliveries |->
                IF EventOf[d] = k THEN [status |-> "PENDING", attempts |-> 0, due |-> due]
                ELSE row[d]]
    /\ call' = [call EXCEPT ![c] = NoCall]
    /\ UNCHANGED << lane, accepted, doubt, crashes >>

\* A statement fails, or the process dies: nothing of the transaction remains, and
\* the callers log the error and carry on.
Rollback(c) ==
    /\ call[c].at # "idle"
    /\ call' = [call EXCEPT ![c] = NoCall]
    /\ UNCHANGED << events, row, lane, accepted, doubt, crashes >>

-----------------------------------------------------------------------------
(* processPendingNotifications.                                            *)

\* Mutant: a row is taken for as long as it is still to be sent.
DuePending(d) == row[d].status = "PENDING"

Due(d) == row[d].status = "PENDING" /\ row[d].due

\* The SELECT; every lane of a pass works from what it returned.
Sweep(w) ==
    /\ lane[w].at = "idle"
    /\ LET list == {d \in Deliveries : Due(d)} IN
       /\ list # {}
       /\ lane' = [lane EXCEPT ![w] = [NoLane EXCEPT !.at = "claim", !.list = list]]
    /\ UNCHANGED << events, row, call, accepted, doubt, crashes >>

\* Back to the list, or done with it.
Rest(w, d) ==
    LET list == lane[w].list \ {d} IN
    IF list = {} THEN NoLane ELSE [NoLane EXCEPT !.at = "claim", !.list = list]

\* The conditional UPDATE that takes the lease.  Attempts beyond the budget behave
\* alike, so the counter stops at it.
Claim(w, d) ==
    /\ lane[w].at = "claim" /\ d \in lane[w].list /\ Due(d)
    /\ LET n == IF row[d].attempts = MAX_ATTEMPTS THEN MAX_ATTEMPTS
                ELSE row[d].attempts + 1 IN
       /\ row' = [row EXCEPT ![d].attempts = n, ![d].due = FALSE]
       /\ lane' = [lane EXCEPT ![w].at = "send", ![w].id = d, ![w].last = (n = MAX_ATTEMPTS),
                               ![w].list = @ \ {d}]
    /\ UNCHANGED << events, call, accepted, doubt, crashes >>

\* Another lane was first.
LoseRace(w, d) ==
    /\ lane[w].at = "claim" /\ d \in lane[w].list /\ ~Due(d)
    /\ lane' = [lane EXCEPT ![w] = Rest(w, d)]
    /\ UNCHANGED << events, row, call, accepted, doubt, crashes >>

\* The channel: it takes the message and says so; it takes it and the answer is lost;
\* or it does not take it.
Accept(w) ==
    /\ lane[w].at = "send"
    /\ LET d == lane[w].id IN
       /\ accepted' = [accepted EXCEPT ![d] = IF @ = 0 THEN 1 ELSE 2]
       /\ \/ /\ lane' = [lane EXCEPT ![w].at = "record", ![w].result = "ok"]
             /\ doubt' = [doubt EXCEPT ![d] = FALSE]
          \/ /\ lane' = [lane EXCEPT ![w].at = "record", ![w].result = "retryable"]
             /\ doubt' = [doubt EXCEPT ![d] = TRUE]
    /\ UNCHANGED << events, row, call, crashes >>

Decline(w) ==
    /\ lane[w].at = "send"
    /\ \E r \in Results \ {"ok"} :
          lane' = [lane EXCEPT ![w].at = "record", ![w].result = r]
    /\ UNCHANGED << events, row, call, accepted, doubt, crashes >>

\* Mutant: a delivery is tried for as long as the channel calls it retryable.
VerdictForever(result, last) ==
    CASE result = "ok"      -> "SENT"
      [] result = "skip"    -> "SKIPPED"
      [] result = "refused" -> "FAILED"
      [] OTHER              -> "PENDING"

\* What a result makes of the row; last: the attempt spent the budget.
Verdict(result, last) ==
    CASE result = "ok"      -> "SENT"
      [] result = "skip"    -> "SKIPPED"
      [] result = "refused" -> "FAILED"
      [] OTHER              -> IF last THEN "FAILED" ELSE "PENDING"

\* The UPDATE by id alone; a row that stays PENDING backs off, the others have no
\* next attempt.
Record(w) ==
    /\ lane[w].at = "record"
    /\ LET d == lane[w].id IN
       /\ row' = [row EXCEPT ![d].status = Verdict(lane[w].result, lane[w].last),
                             ![d].due = FALSE]
       /\ lane' = [lane EXCEPT ![w] = Rest(w, d)]
    /\ UNCHANGED << events, call, accepted, doubt, crashes >>

\* A lane dies; an acceptance it had not written down is forgotten with it.
Crash(w) ==
    /\ crashes < MaxCrashes /\ lane[w].at # "idle"
    /\ crashes' = crashes + 1
    /\ doubt' = [d \in Deliveries |->
          doubt[d] \/ (lane[w].at = "record" /\ lane[w].result = "ok" /\ lane[w].id = d)]
    /\ lane' = [lane EXCEPT ![w] = NoLane]
    /\ UNCHANGED << events, row, call, accepted >>

\* Lanes that have claimed d and not written their result.
Senders(d) == {w \in Workers : lane[w].id = d /\ lane[w].at \in {"send", "record"}}

\* next_attempt_at passes.  Five minutes outlast a call, unless Slow.
Lapse(d) ==
    /\ row[d].status = "PENDING" /\ ~row[d].due
    /\ Slow \/ Senders(d) = {}
    /\ row' = [row EXCEPT ![d].due = TRUE]
    /\ UNCHANGED << events, call, lane, accepted, doubt, crashes >>

\* retryNotification; its reads only refuse earlier what the UPDATE refuses too.
Retry(d) ==
    /\ row[d].status \in {"FAILED", "SKIPPED"}
    /\ row' = [row EXCEPT ![d] = [status |-> "PENDING", attempts |-> 0, due |-> TRUE]]
    /\ UNCHANGED << events, call, lane, accepted, doubt, crashes >>

-----------------------------------------------------------------------------
Work(w) ==
    \/ Sweep(w) \/ Accept(w) \/ Decline(w) \/ Record(w)
    \/ \E d \in Deliveries : Claim(w, d) \/ LoseRace(w, d)

Next ==
    \/ \E c \in Callers :
          \/ InsertDeliveries(c) \/ Commit(c) \/ Rollback(c)
          \/ \E k \in Keys : InsertEvent(c, k)
    \/ \E w \in Workers : Work(w) \/ Crash(w)
    \/ \E d \in Deliveries : Lapse(d) \/ Retry(d)

Spec == Init /\ [][Next]_vars

\* server.ts calls the sweep for ever, a channel answers or times out, and time passes.
FairSpec ==
    /\ Spec
    /\ \A w \in Workers : WF_vars(Work(w))
    /\ \A d \in Deliveries : WF_vars(Lapse(d))
    /\ \A c \in Callers : WF_vars(InsertDeliveries(c) \/ Commit(c))

-----------------------------------------------------------------------------
(* An event on record has a row on every channel: one without is never sent, and    *)
(* never shown as failed (the comment on enqueueNotification).                      *)
EventHasDeliveries ==
    \A d \in Deliveries : EventOf[d] \in events <=> row[d].status # "none"

(* A delivery is in the hands of one lane at a time, whichever passes overlap (the  *)
(* claim in attemptOne).                                                            *)
OneSender == \A d \in Deliveries : Cardinality(Senders(d)) <= 1

Stage == [d \in Deliveries |->
    CASE row[d].status = "none"    -> "none"
      [] row[d].status = "PENDING" -> "queued"
      [] row[d].status = "SENT"    -> "sent"
      [] OTHER                     -> "given up"]

(* The outbox keeps the promise of MessagePromise: no message of an event without   *)
(* the others, none twice unless an acceptance was lost, and none pending for ever. *)
Promise == INSTANCE MessagePromise WITH
    Messages <- Deliveries,
    EventOf <- EventOf,
    stage <- Stage,
    told <- accepted,
    doubt <- doubt

KeepsPromise == Promise!Spec

(* What a caller announces is on record some time after; refuted by a failed        *)
(* statement or a crash between the transition's commit and this one.               *)
AnnouncedIsRecorded ==
    \A c \in Callers, k \in Keys : (call[c].at # "idle" /\ call[c].key = k) ~> (k \in events)
=============================================================================
