------------------------------ MODULE PhoneSignIn ------------------------------
(***************************************************************************)
(* Sign-in with a one-time code (services/otp, routes/customer): issuing   *)
(* a code under a lock of the phone number, sending it, checking what the  *)
(* customer types, and finding, adopting or creating the account the       *)
(* number belongs to; with the registration form and the sweep that closes *)
(* accounts, which change the same rows (routes/account).                  *)
(*                                                                         *)
(* One request issues at most one code, so a code's challenge id is the    *)
(* request that issued it.  One action is one SQL statement or one call of *)
(* the messaging provider; a transaction's writes appear at its COMMIT and *)
(* keep their rows locked until then.                                      *)
(***************************************************************************)
EXTENDS Integers, Sequences, FiniteSets

CONSTANTS
    Asks,         \* requests for a code, and the codes they issue
    Checks,       \* requests that submit a code
    Forms,        \* registrations with e-mail and password
    Phones,       \* verified numbers (phone_e164)
    None,         \* no number, no code, no account
    OldAccounts,  \* the numbers typed into accounts that predate phone sign-in: the cases
    FormNumbers,  \* what a registration form may carry as its number, or None
    Expiry,       \* otpPolicy.expirySeconds, in ticks of the model's clock
    Cooldown,     \* otpPolicy.resendCooldownSeconds
    Window,       \* DAY_SECONDS
    Quota,        \* otpPolicy.maxPerPhonePer24h
    IpWindow,     \* the hour of the count per address
    IpQuota,      \* otpPolicy.maxPerIpPerHour
    MaxAttempts,  \* otpPolicy.maxAttempts
    Retention,    \* the two days of purgeExpiredOtpCodes
    MaxTime,      \* bound: the clock stops here
    MaxWait,      \* bound: how long an issuing transaction may take
    MaxCrashes,   \* bound: restarts of the server
    MaxClosing    \* bound: requests to delete an account

ASSUME SignInConstants ==
    /\ {Expiry, Cooldown, Window, Quota, IpWindow, IpQuota, MaxAttempts} \subseteq Nat \ {0}
    /\ {MaxTime, MaxWait, MaxCrashes, MaxClosing} \subseteq Nat
    \* Two days against one, and a transaction takes no day.
    /\ Retention \in Nat /\ Retention >= Window + MaxWait - 1
    /\ IsFiniteSet(Asks)
    /\ \A old \in OldAccounts : old \in Seq(Phones) /\ Len(old) <= 2
    /\ FormNumbers \subseteq Phones \cup {None}
    /\ None \notin Asks \cup Phones

VARIABLES
    now,       \* the clock
    codes,     \* customer_otp_codes, one row or NoCode for each request
    ask,       \* the requests for a code
    inbox,     \* external: codes that arrived on a handset, with their created_at
    accounts,  \* customers, in the order of created_at
    check,     \* the sign-in requests
    form,      \* the registrations
    sessions,  \* customer_sessions, with the code that proved the number
    due,       \* accounts the deletion sweep has selected and not yet closed
    drop,      \* the account it has just closed, whose sessions go next, or 0
    crashes,   \* number of restarts so far
    closings   \* number of deletion requests so far

codeVars == << codes, inbox >>
accountVars == << accounts, sessions >>
sweepVars == << due, drop, closings >>
vars == << now, codeVars, ask, accountVars, check, form, sweepVars, crashes >>

NoCode == [phone |-> None, created |-> 0, attempts |-> 0, state |-> "none"]
NoAsk == [at |-> "new", phone |-> None, began |-> 0, locks |-> {}]
NoCheck == [at |-> "new", code |-> None, right |-> FALSE, account |-> 0, again |-> FALSE]
NoForm == [at |-> "new", account |-> 0]

Account(number, typed) ==
    [number |-> number, typed |-> typed, bonus |-> FALSE, closing |-> FALSE, closed |-> FALSE]

Ids == 1 .. (2 + Cardinality(Checks) + Cardinality(Forms))

TypeOK ==
    /\ now \in 0 .. MaxTime
    /\ codes \in [Asks -> [phone : Phones \cup {None}, created : 0 .. MaxTime,
                           attempts : 0 .. MaxAttempts + Cardinality(Checks),
                           state : {"none", "live", "consumed", "invalidated"}]]
    /\ ask \in [Asks -> [at : {"new", "waiting", "locked", "clear", "marked", "sending",
                               "retiring", "sent", "refused", "failed", "dead"},
                         phone : Phones \cup {None}, began : 0 .. MaxTime,
                         locks : SUBSET Asks]]
    /\ inbox \subseteq [code : Asks, at : 0 .. MaxTime]
    /\ accounts \in Seq([number : Phones \cup {None}, typed : Phones \cup {None},
                         bonus : BOOLEAN, closing : BOOLEAN, closed : BOOLEAN])
    /\ DOMAIN accounts \subseteq Ids
    /\ check \in [Checks -> [at : {"new", "miss", "expire", "consume", "exact", "legacy",
                                   "claim", "touch", "create", "bonus", "session",
                                   "signedIn", "rejected", "error", "dead"},
                             code : Asks \cup {None}, right : BOOLEAN,
                             account : Ids \cup {0}, again : BOOLEAN]]
    /\ form \in [Forms -> [at : {"new", "bonus", "session", "done", "dead"},
                           account : Ids \cup {0}]]
    /\ sessions \subseteq [by : Checks \cup Forms, code : Asks \cup {None}, account : Ids]
    /\ due \subseteq Ids /\ drop \in Ids \cup {0} /\ crashes \in 0 .. MaxCrashes /\ closings \in 0 .. MaxClosing

Init ==
    /\ now = 0 /\ crashes = 0 /\ closings = 0 /\ due = {} /\ drop = 0
    /\ codes = [c \in Asks |-> NoCode] /\ inbox = {}
    /\ ask = [c \in Asks |-> NoAsk]
    /\ \E old \in OldAccounts :
          accounts = [i \in DOMAIN old |-> [Account(None, old[i]) EXCEPT !.bonus = TRUE]]
    /\ check = [v \in Checks |-> NoCheck]
    /\ form = [f \in Forms |-> NoForm]
    /\ sessions = {}

-----------------------------------------------------------------------------
(* Issuing a code: issueOtp.                                               *)

Rows(p) == {c \in Asks : codes[c].state # "none" /\ codes[c].phone = p}
Live(c) == codes[c].state = "live"
LiveRows(p) == {c \in Rows(p) : Live(c)}
Expired(c) == codes[c].created + Expiry <= now

\* A row that an open transaction has updated is not to be updated by others.
RowFree(c) == \A d \in Asks : c \notin ask[d].locks

\* pg_advisory_xact_lock of the number: held from its grant to COMMIT.
PhoneFree(p) ==
    \A d \in Asks : ask[d].phone = p => ask[d].at \notin {"locked", "clear", "marked"}

\* The requests of one address are counted before and outside the lock.
AskIp(c, p) ==
    /\ ask[c].at = "new"
    /\ LET counted == {d \in Asks : codes[d].state # "none"
                                    /\ codes[d].created > now - IpWindow}
       IN ask' = [ask EXCEPT ![c] =
             [NoAsk EXCEPT !.phone = p, !.began = now,
                 !.at = IF Cardinality(counted) >= IpQuota THEN "refused" ELSE "waiting"]]
    /\ UNCHANGED << now, codeVars, accountVars, check, form, sweepVars, crashes >>

\* Mutant: the transaction does not wait for the number's lock.
LockPhoneAnyway(c) ==
    /\ ask[c].at = "waiting"
    /\ ask' = [ask EXCEPT ![c].at = "locked"]
    /\ UNCHANGED << now, codeVars, accountVars, check, form, sweepVars, crashes >>

LockPhone(c) ==
    /\ ask[c].at = "waiting" /\ PhoneFree(ask[c].phone)
    /\ ask' = [ask EXCEPT ![c].at = "locked"]
    /\ UNCHANGED << now, codeVars, accountVars, check, form, sweepVars, crashes >>

\* Elapsed time of the newest row by the server's clock.
TooSoon(p) == \E c \in Rows(p) : /\ \A d \in Rows(p) : codes[d].created <= codes[c].created
                                 /\ now - codes[c].created < Cooldown

\* Rows of the last day; now() in SQL is the instant t the transaction began.
UsedUp(p, t) == Cardinality({c \in Rows(p) : codes[c].created > t - Window}) >= Quota

MayIssue(c) ==
    /\ ask[c].at = "locked"
    /\ LET refused == TooSoon(ask[c].phone) \/ UsedUp(ask[c].phone, ask[c].began)
       IN ask' = [ask EXCEPT ![c].at = IF refused THEN "refused" ELSE "clear"]
    /\ UNCHANGED << now, codeVars, accountVars, check, form, sweepVars, crashes >>

\* The UPDATE that retires the number's live codes; it sees committed rows.
Supersede(c) ==
    /\ ask[c].at = "clear"
    /\ \A d \in LiveRows(ask[c].phone) : RowFree(d)
    /\ ask' = [ask EXCEPT ![c].at = "marked", ![c].locks = LiveRows(ask[c].phone)]
    /\ UNCHANGED << now, codeVars, accountVars, check, form, sweepVars, crashes >>

\* INSERT and COMMIT; created_at and expires_at count from the BEGIN.
Issue(c) ==
    /\ ask[c].at = "marked"
    /\ codes' = [d \in Asks |->
          IF d = c THEN [NoCode EXCEPT !.phone = ask[c].phone, !.created = ask[c].began,
                                       !.state = "live"]
          ELSE IF d \in ask[c].locks THEN [codes[d] EXCEPT !.state = "invalidated"]
          ELSE codes[d]]
    /\ ask' = [ask EXCEPT ![c].at = "sending", ![c].locks = {}]
    /\ UNCHANGED << now, inbox, accountVars, check, form, sweepVars, crashes >>

\* A message carries the created_at of its code, whether or not the row is still there.
Message(c) == [code |-> c, at |-> ask[c].began]

Arrives(c) == inbox' = inbox \cup {Message(c)}

\* sendOtpMessage answers "sent".  Its table of transports is empty, so today the one
\* that carries a server-issued code is the development console.
Sent(c) ==
    /\ ask[c].at = "sending" /\ Arrives(c)
    /\ ask' = [ask EXCEPT ![c].at = "sent"]
    /\ UNCHANGED << now, codes, accountVars, check, form, sweepVars, crashes >>

\* Delivery is switched off, unconfigured, or refused: nothing was sent.
NotSent(c) ==
    /\ ask[c].at = "sending"
    /\ ask' = [ask EXCEPT ![c].at = "retiring"]
    /\ UNCHANGED << now, codeVars, accountVars, check, form, sweepVars, crashes >>

\* The row of a code that was not sent is removed.
Retire(c) ==
    /\ ask[c].at = "retiring" /\ RowFree(c)
    /\ codes' = [codes EXCEPT ![c] = NoCode]
    /\ ask' = [ask EXCEPT ![c].at = "failed"]
    /\ UNCHANGED << now, inbox, accountVars, check, form, sweepVars, crashes >>

\* Mutant: rows go when the count per address, the shorter one, no longer needs them.
TooOldForIp(c) == codes[c].created < now - IpWindow

TooOld(c) == codes[c].created < now - Retention

\* purgeExpiredOtpCodes, once a day.
Purge ==
    /\ \E c \in Asks : codes[c].state # "none" /\ TooOld(c)
    /\ \A c \in Asks : codes[c].state # "none" /\ TooOld(c) => RowFree(c)
    /\ codes' = [c \in Asks |-> IF TooOld(c) THEN NoCode ELSE codes[c]]
    /\ UNCHANGED << now, inbox, ask, accountVars, check, form, sweepVars, crashes >>

-----------------------------------------------------------------------------
(* Checking a code: verifyOtp.                                             *)

Goto(v, next) == check' = [check EXCEPT ![v].at = next]

\* The challenge as the first SELECT finds it decides how the request goes on.
Verdict(c, right) ==
    CASE ~Live(c) -> "rejected"
      [] Live(c) /\ (Expired(c) \/ codes[c].attempts >= MaxAttempts) -> "expire"
      [] OTHER -> IF right THEN "consume" ELSE "miss"

\* A client holds the challenge of a request that was answered "sent"; the right
\* code is typed from the message.
Submit(v, c, right) ==
    /\ check[v].at = "new" /\ ask[c].at = "sent"
    /\ check' = [check EXCEPT ![v] =
          [NoCheck EXCEPT !.code = c, !.right = right, !.at = Verdict(c, right)]]
    /\ UNCHANGED << now, codeVars, ask, accountVars, form, sweepVars, crashes >>

\* A wrong guess is counted by one UPDATE; the last one retires the code.
Miss(v) ==
    /\ check[v].at = "miss"
    /\ LET c == check[v].code
           guesses == codes[c].attempts + 1
       IN /\ RowFree(c)
          /\ codes' = IF codes[c].state = "none" THEN codes
                      ELSE [codes EXCEPT ![c].attempts = guesses]
          /\ Goto(v, IF guesses >= MaxAttempts THEN "expire" ELSE "rejected")
    /\ UNCHANGED << now, inbox, ask, accountVars, form, sweepVars, crashes >>

\* invalidated_at is set whatever else the row says.
Expire(v) ==
    /\ check[v].at = "expire" /\ RowFree(check[v].code)
    /\ codes' = IF Live(check[v].code)
                THEN [codes EXCEPT ![check[v].code].state = "invalidated"] ELSE codes
    /\ Goto(v, "rejected")
    /\ UNCHANGED << now, inbox, ask, accountVars, form, sweepVars, crashes >>

\* Mutant: the UPDATE looks only for the id the SELECT has found good.
UsableById(c) == codes[c].state # "none"

\* Mutant: the UPDATE does not ask whether the code has been retired since.
UsableIfUnused(c) == codes[c].state \in {"live", "invalidated"} /\ ~Expired(c)

\* What the consuming UPDATE asks of the row again.
Usable(c) == Live(c) /\ ~Expired(c)

Consume(v) ==
    /\ check[v].at = "consume" /\ RowFree(check[v].code)
    /\ IF Usable(check[v].code)
       THEN /\ codes' = [codes EXCEPT ![check[v].code].state = "consumed"]
            /\ Goto(v, "exact")
       ELSE UNCHANGED codes /\ Goto(v, "rejected")
    /\ UNCHANGED << now, inbox, ask, accountVars, form, sweepVars, crashes >>

-----------------------------------------------------------------------------
(* The account of a proven number: establishPhoneSession.                  *)

\* The number stored with the challenge, never one the client sent.
Number(v) == ask[check[v].code].phone

Open(i) == i \in DOMAIN accounts /\ ~accounts[i].closed
Holders(p) == {i \in DOMAIN accounts : Open(i) /\ accounts[i].number = p}

\* Accounts known to the number only by what somebody typed.
Typed(p) == {i \in DOMAIN accounts :
                Open(i) /\ accounts[i].number = None /\ accounts[i].typed = p}

\* Mutant: the unique index on phone_e164 is missing.
NumberTakenNever(p) == FALSE

\* idx_customers_phone_e164_unique, over the accounts that are not closed.
NumberTaken(p) == Holders(p) # {}

FindExact(v) ==
    /\ check[v].at = "exact"
    /\ IF Holders(Number(v)) = {} THEN Goto(v, "legacy")
       ELSE \E i \in Holders(Number(v)) :
               check' = [check EXCEPT ![v].account = i,
                                      ![v].at = IF check[v].again THEN "session" ELSE "touch"]
    /\ UNCHANGED << now, codeVars, ask, accountVars, form, sweepVars, crashes >>

Oldest(S) == CHOOSE i \in S : \A j \in S : i <= j

FindLegacy(v) ==
    /\ check[v].at = "legacy"
    /\ LET found == Typed(Number(v))
       IN IF found # {}
          THEN check' = [check EXCEPT ![v].account = Oldest(found),
                                      ![v].at = IF check[v].again THEN "session" ELSE "claim"]
          ELSE Goto(v, IF check[v].again THEN "error" ELSE "create")
    /\ UNCHANGED << now, codeVars, ask, accountVars, form, sweepVars, crashes >>

\* phone_e164 is pinned to the account found; a conflict is logged and ignored.
Claim(v) ==
    /\ check[v].at = "claim"
    /\ LET i == check[v].account
       IN accounts' = IF accounts[i].number = None
                         /\ (accounts[i].closed \/ ~NumberTaken(Number(v)))
                      THEN [accounts EXCEPT ![i].number = Number(v)] ELSE accounts
    /\ Goto(v, "touch")
    /\ UNCHANGED << now, codeVars, ask, sessions, form, sweepVars, crashes >>

\* phone_verified, and the display number of an account without one.
Touch(v) ==
    /\ check[v].at = "touch"
    /\ accounts' = IF accounts[check[v].account].typed = None
                   THEN [accounts EXCEPT ![check[v].account].typed = Number(v)] ELSE accounts
    /\ Goto(v, "session")
    /\ UNCHANGED << now, codeVars, ask, sessions, form, sweepVars, crashes >>

\* INSERT; the loser of a race looks the winner's account up.
Create(v) ==
    /\ check[v].at = "create"
    /\ IF NumberTaken(Number(v))
       THEN /\ check' = [check EXCEPT ![v].again = TRUE, ![v].at = "exact"]
            /\ UNCHANGED accounts
       ELSE /\ accounts' = Append(accounts, Account(Number(v), Number(v)))
            /\ check' = [check EXCEPT ![v].account = Len(accounts'), ![v].at = "bonus"]
    /\ UNCHANGED << now, codeVars, ask, sessions, form, sweepVars, crashes >>

\* grantSignupBonus: one row for each account, whoever inserts it.
Welcome(i) == accounts' = [accounts EXCEPT ![i].bonus = TRUE]

GrantBonus(v) ==
    /\ check[v].at = "bonus" /\ Welcome(check[v].account) /\ Goto(v, "session")
    /\ UNCHANGED << now, codeVars, ask, sessions, form, sweepVars, crashes >>

OpenSession(v) ==
    /\ check[v].at = "session"
    /\ sessions' = sessions \cup
          {[by |-> v, code |-> check[v].code, account |-> check[v].account]}
    /\ Goto(v, "signedIn")
    /\ UNCHANGED << now, codeVars, ask, accounts, form, sweepVars, crashes >>

-----------------------------------------------------------------------------
(* The other writers of customers: the registration form and the sweep.    *)

Register(f, typed) ==
    /\ form[f].at = "new"
    /\ accounts' = Append(accounts, Account(None, typed))
    /\ form' = [form EXCEPT ![f] = [at |-> "bonus", account |-> Len(accounts')]]
    /\ UNCHANGED << now, codeVars, ask, sessions, check, sweepVars, crashes >>

WelcomeRegistered(f) ==
    /\ form[f].at = "bonus" /\ Welcome(form[f].account)
    /\ form' = [form EXCEPT ![f].at = "session"]
    /\ UNCHANGED << now, codeVars, ask, sessions, check, sweepVars, crashes >>

OpenRegistered(f) ==
    /\ form[f].at = "session"
    /\ sessions' = sessions \cup {[by |-> f, code |-> None, account |-> form[f].account]}
    /\ form' = [form EXCEPT ![f].at = "done"]
    /\ UNCHANGED << now, codeVars, ask, accounts, check, sweepVars, crashes >>

\* A signed-in customer asks for deletion, or changes their mind.
AskDeletion(s) ==
    /\ closings < MaxClosing /\ Open(s.account) /\ ~accounts[s.account].closing
    /\ accounts' = [accounts EXCEPT ![s.account].closing = TRUE]
    /\ closings' = closings + 1
    /\ UNCHANGED << now, codeVars, ask, sessions, check, form, due, drop, crashes >>

CancelDeletion(s) ==
    /\ Open(s.account) /\ accounts[s.account].closing
    /\ accounts' = [accounts EXCEPT ![s.account].closing = FALSE]
    /\ UNCHANGED << now, codeVars, ask, sessions, check, form, sweepVars, crashes >>

\* processScheduledAccountDeletions: the accounts whose grace has run out (any
\* that asked, in this model's scale of time) ...
SelectDue ==
    /\ due = {} /\ drop = 0
    /\ due' = {i \in DOMAIN accounts : Open(i) /\ accounts[i].closing}
    /\ due' # {}
    /\ UNCHANGED << now, codeVars, ask, accountVars, check, form, drop, closings, crashes >>

\* ... are closed one after the other ...
Close(i) ==
    /\ i \in due /\ drop = 0
    /\ accounts' = [accounts EXCEPT ![i].closed = TRUE, ![i].typed = None]
    /\ due' = due \ {i} /\ drop' = i
    /\ UNCHANGED << now, codeVars, ask, sessions, check, form, closings, crashes >>

\* ... and by the next statement the sessions of each are dropped.
DropSessions ==
    /\ drop # 0 /\ drop' = 0
    /\ sessions' = {s \in sessions : s.account # drop}
    /\ UNCHANGED << now, codeVars, ask, accounts, check, form, due, closings, crashes >>

-----------------------------------------------------------------------------

\* The lock covers nothing but SQL: a transaction waits, but not for long.
Tick ==
    /\ now < MaxTime /\ now' = now + 1
    /\ \A c \in Asks : ask[c].at \in {"waiting", "locked", "clear", "marked"} =>
                         now - ask[c].began < MaxWait
    /\ UNCHANGED << codeVars, ask, accountVars, check, form, sweepVars, crashes >>

\* The server restarts: open transactions roll back, and every request in hand
\* is gone; of the messages being sent some have left.
Restart ==
    /\ crashes < MaxCrashes /\ crashes' = crashes + 1
    /\ LET dies(at) == IF at \in {"new", "sent", "refused", "failed", "signedIn",
                                  "rejected", "error", "done"} THEN at ELSE "dead"
           sending == {c \in Asks : ask[c].at = "sending"}
       IN /\ ask' = [c \in Asks |->
                [ask[c] EXCEPT !.at = dies(ask[c].at), !.locks = {}]]
          /\ check' = [v \in Checks |-> [check[v] EXCEPT !.at = dies(check[v].at)]]
          /\ form' = [f \in Forms |-> [form[f] EXCEPT !.at = dies(form[f].at)]]
          /\ \E S \in SUBSET sending :
                inbox' = inbox \cup {Message(c) : c \in S}
    /\ due' = {} /\ drop' = 0
    /\ UNCHANGED << now, codes, accountVars, closings >>

Asking(c) ==
    \/ \E p \in Phones : AskIp(c, p)
    \/ LockPhone(c) \/ MayIssue(c) \/ Supersede(c) \/ Issue(c)
    \/ Sent(c) \/ NotSent(c) \/ Retire(c)

Checking(v) ==
    \/ \E c \in Asks, right \in BOOLEAN : Submit(v, c, right)
    \/ Miss(v) \/ Expire(v) \/ Consume(v)

SigningIn(v) ==
    \/ FindExact(v) \/ FindLegacy(v) \/ Claim(v) \/ Touch(v) \/ Create(v)
    \/ GrantBonus(v) \/ OpenSession(v)

Registering(f) ==
    \/ \E typed \in FormNumbers : Register(f, typed)
    \/ WelcomeRegistered(f) \/ OpenRegistered(f)

Closing ==
    \/ \E s \in sessions : AskDeletion(s) \/ CancelDeletion(s)
    \/ SelectDue
    \/ \E i \in due : Close(i)
    \/ DropSessions

Next ==
    \/ \E c \in Asks : Asking(c)
    \/ \E v \in Checks : Checking(v) \/ SigningIn(v)
    \/ \E f \in Forms : Registering(f)
    \/ Closing \/ Purge \/ Tick \/ Restart

Spec == Init /\ [][Next]_vars

-----------------------------------------------------------------------------
(* Properties.                                                             *)

\* A number has at most one code that can still be used, however many requests
\* for one overlap: the older ones die in the transaction that issues the next.
OneLiveCode == \A p \in Phones : Cardinality(LiveRows(p)) <= 1

\* No handset receives more than the daily quota of codes within any Window,
\* although the check and the insert are separate statements, rows of messages
\* that were not sent are removed, and old rows are purged.
DailyQuota ==
    \A p \in Phones, t \in 0 .. MaxTime :
        Cardinality({m \in inbox : ask[m.code].phone = p /\ m.at \in t .. t + Window - 1})
            <= Quota

Successful(v) == check[v].at \in {"exact", "legacy", "claim", "touch", "create", "bonus",
                                  "session", "signedIn"}

\* One code signs in once: of requests racing with the same right code one wins.
CodeSignsInOnce ==
    \A v, w \in Checks :
        Successful(v) /\ Successful(w) /\ check[v].code = check[w].code => v = w

\* And it signs in only while it is the one code of the number that can be used: not
\* when a newer code has replaced it, or wrong guesses have used it up, between the
\* SELECT that finds it good and the UPDATE that consumes it.
ReplacedNeverSignsIn ==
    [][\A v \in Checks :
          ~Successful(v) /\ Successful(v)' =>
              LiveRows(ask[check[v].code].phone) = {check[v].code}]_vars

\* Whoever proves a number is signed into the same account each time, found,
\* adopted from the time before phone sign-in or created by one of two racing
\* requests, unless that account has been closed since.
SameAccount ==
    \A s, t \in sessions :
        /\ s.code # None /\ t.code # None
        /\ ask[s.code].phone = ask[t.code].phone
        => s.account = t.account
           \/ accounts[s.account].closed \/ accounts[t.account].closed

-----------------------------------------------------------------------------
(* What the documentation says and the code does not do.                   *)

\* The bonus is granted at most once, "which is what makes this endpoint safe to
\* retry at all": but only the request that inserts the account grants it, so after
\* a restart between the two no retry welcomes the customer it signs in.
SignedInIsWelcomed == \A s \in sessions : accounts[s.account].bonus

\* "an accidental or coerced deletion can be undone by the owner": not between
\* the sweep's SELECT and its UPDATE, which does not look again.
ClosedWantedIt == \A i \in DOMAIN accounts : accounts[i].closed => accounts[i].closing
=============================================================================
