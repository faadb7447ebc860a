--------------------------- MODULE MessagePromise ---------------------------
(***************************************************************************)
(* What the notification outbox promises about one message, an event sent  *)
(* to one channel: the messages of an event are queued together and once;  *)
(* a queued message ends sent or given up; and a provider is told again    *)
(* only while it is in doubt whether it accepted the last time.            *)
(***************************************************************************)
EXTENDS Naturals

CONSTANTS
    Messages,     \* one per event and channel
    EventOf       \* the event of each message

VARIABLES
    stage,        \* "none", "queued", "sent" or "given up"
    told,         \* how often the provider accepted it: 0, 1, or 2 for more
    doubt         \* it was accepted, and nobody knows

vars == << stage, told, doubt >>
Stages == {"none", "queued", "sent", "given up"}

Init ==
    /\ stage = [m \in Messages |-> "none"]
    /\ told = [m \in Messages |-> 0]
    /\ doubt = [m \in Messages |-> FALSE]

Announce(e) ==
    /\ \A m \in Messages : EventOf[m] = e => stage[m] = "none"
    /\ stage' = [m \in Messages |-> IF EventOf[m] = e THEN "queued" ELSE stage[m]]
    /\ UNCHANGED << told, doubt >>

\* The provider has it for certain, or may be told.
Certain(m) == told[m] > 0 /\ ~doubt[m]

Tell(m) ==
    /\ stage[m] = "queued" /\ ~Certain(m)
    /\ told' = [told EXCEPT ![m] = IF @ = 0 THEN 1 ELSE 2]
    /\ doubt' \in {doubt, [doubt EXCEPT ![m] = TRUE], [doubt EXCEPT ![m] = FALSE]}
    /\ UNCHANGED stage

\* The acceptance is forgotten before it is written down.
Forget(m) ==
    /\ stage[m] = "queued" /\ Certain(m)
    /\ doubt' = [doubt EXCEPT ![m] = TRUE]
    /\ UNCHANGED << stage, told >>

Finish(m) ==
    /\ stage[m] = "queued"
    /\ stage' = [stage EXCEPT ![m] = IF Certain(m) THEN "sent" ELSE "given up"]
    /\ UNCHANGED << told, doubt >>

Reopen(m) ==
    /\ stage[m] = "given up"
    /\ stage' = [stage EXCEPT ![m] = "queued"]
    /\ UNCHANGED << told, doubt >>

Next ==
    \/ \E m \in Messages : Announce(EventOf[m]) \/ Tell(m) \/ Forget(m) \/ Finish(m) \/ Reopen(m)

Safety == Init /\ [][Next]_vars
Spec == Safety /\ \A m \in Messages : WF_vars(Finish(m))
=============================================================================
