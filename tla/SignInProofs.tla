------------------------------ MODULE SignInProofs ------------------------------
(***************************************************************************)
(* Theorems about PhoneSignIn for every set of requests, numbers and       *)
(* accounts, every quota and every number of restarts.                     *)
(*                                                                         *)
(* Four layers, each resting on the one before.  Issuing: what a           *)
(* transaction that issues a code knows of the rows of its number while it *)
(* holds the number's lock.  Proving: what a request that submits a code   *)
(* knows of the code.  Posting: which codes have been sent, or may still   *)
(* be, and how many in any window of a day.  Owning: which open account a  *)
(* number belongs to.                                                      *)
(***************************************************************************)
EXTENDS PhoneSignIn, SumProofs, FiniteSetTheorems, SequenceTheorems, TLAPS

AskSteps == {"new", "waiting", "locked", "clear", "marked", "sending", "retiring", "sent",
             "refused", "failed", "dead"}
CheckSteps == {"new", "miss", "expire", "consume", "exact", "legacy", "claim", "touch",
               "create", "bonus", "session", "signedIn", "rejected", "error", "dead"}

CodeType == [phone : Phones \cup {None}, created : Nat, attempts : Nat,
             state : {"none", "live", "consumed", "invalidated"}]
AskType == [at : AskSteps, phone : Phones \cup {None}, began : Nat, locks : SUBSET Asks]
CheckType == [at : CheckSteps, code : Asks \cup {None}, right : BOOLEAN, account : Nat,
              again : BOOLEAN]

\* The types of what the first three layers are about.
CodeTypes ==
    /\ now \in Nat
    /\ codes \in [Asks -> CodeType]
    /\ ask \in [Asks -> AskType]
    /\ inbox \subseteq [code : Asks, at : Nat]
    /\ check \in [Checks -> CheckType]

\* The request is in the transaction that holds its number's lock.
Holding == {"locked", "clear", "marked"}

\* A row is its request's.  Who holds a number's lock is alone with the live rows of
\* the number, and when about to insert has every one of them locked.
Issuing ==
    /\ \A c \in Asks :
          /\ ask[c].at # "new" => ask[c].phone \in Phones
          /\ codes[c].state # "none" =>
                /\ ask[c].at \in {"sending", "retiring", "sent", "dead"}
                /\ codes[c].phone = ask[c].phone /\ codes[c].created = ask[c].began
          /\ ask[c].at = "marked" => LiveRows(ask[c].phone) \subseteq ask[c].locks
          /\ ask[c].locks # {} => ask[c].at = "marked"
          /\ \A d \in ask[c].locks : codes[d].state # "none"
    /\ \A c, d \in Asks :
          ask[c].at \in Holding /\ ask[d].at \in Holding /\ ask[c].phone = ask[d].phone => c = d
    /\ \A c, d \in Asks : Live(c) /\ Live(d) /\ codes[c].phone = codes[d].phone => c = d

\* A code that was submitted had been sent, and one that was accepted is not live again.
Proving ==
    /\ \A v \in Checks :
          /\ check[v].at # "new" => check[v].code \in Asks /\ ask[check[v].code].at = "sent"
          /\ Successful(v) => ~Live(check[v].code)
    /\ CodeSignsInOnce

CInv == CodeTypes /\ Issuing /\ Proving

-----------------------------------------------------------------------------
(* Codes: one lemma for each step on them.                                 *)

LEMMA InitCodes == Init => CInv
  BY SMTT(30), SignInConstants
     DEF Init, CInv, CodeTypes, CodeType, AskType, CheckType, Issuing, Proving,
         CodeSignsInOnce, NoCode, NoAsk, NoCheck, Live, LiveRows, Rows, Successful, Holding,
         AskSteps, CheckSteps

\* A request's own step leaves the submissions alone.
LEMMA ProvingStays ==
    ASSUME CInv, UNCHANGED check, \A c \in Asks : ask[c].at = "sent" => ask'[c].at = "sent",
           \A c \in Asks : Live(c)' => Live(c) \/ ask[c].at # "sent"
    PROVE  Proving'
  BY DEF CInv, Proving, CodeSignsInOnce, Successful

\* What a request is after a step of its own.
LEMMA NextAsk ==
    ASSUME NEW r \in AskType, NEW at \in AskSteps, NEW L \in SUBSET Asks
    PROVE  /\ [r EXCEPT !.at = at, !.locks = L] \in AskType
           /\ [r EXCEPT !.at = at, !.locks = L].at = at
           /\ [r EXCEPT !.at = at, !.locks = L].locks = L
           /\ [r EXCEPT !.at = at, !.locks = L].phone = r.phone
           /\ [r EXCEPT !.at = at, !.locks = L].began = r.began
  BY DEF AskType

LEMMA NextAsks ==
    ASSUME NEW f \in [Asks -> AskType], NEW c \in Asks, NEW at \in AskSteps,
           NEW L \in SUBSET Asks
    PROVE  [f EXCEPT ![c].at = at, ![c].locks = L] \in [Asks -> AskType]
  <1>1. [f EXCEPT ![c].at = at, ![c].locks = L]
           = [f EXCEPT ![c] = [f[c] EXCEPT !.at = at, !.locks = L]]
    BY DEF AskType
  <1> QED
    BY <1>1, NextAsk

\* A request for a code is turned away at once, or waits for the lock.
LEMMA AskedIp ==
    ASSUME CodeTypes, NEW c \in Asks, NEW p \in Phones, AskIp(c, p)
    PROVE  /\ \A d \in Asks \ {c} : ask'[d] = ask[d]
           /\ ask'[c].at \in {"waiting", "refused"} /\ ask'[c].phone = p
           /\ ask'[c].began = now /\ ask'[c].locks = {} /\ ask' \in [Asks -> AskType]
           /\ ask[c].at = "new" /\ UNCHANGED << now, codes, inbox, check >>
  <1> USE DEF AskIp, codeVars
  <1>1. PICK at \in {"waiting", "refused"} :
            ask' = [ask EXCEPT ![c] = [NoAsk EXCEPT !.phone = p, !.began = now, !.at = at]]
    BY Zenon
  <1>a. at \in AskSteps /\ now \in Nat
    BY <1>1 DEF AskSteps, CodeTypes
  <1> DEFINE r == [NoAsk EXCEPT !.phone = p, !.began = now, !.at = at]
  <1>2. r \in AskType /\ r.at = at /\ r.phone = p /\ r.began = now /\ r.locks = {}
    BY <1>a DEF NoAsk, AskType, AskSteps
  <1>3. ask' = [ask EXCEPT ![c] = r]
    BY <1>1
  <1> HIDE DEF r
  <1>4. ask[c].at = "new" /\ UNCHANGED << now, codes, inbox, check >>
    OBVIOUS
  <1>5. /\ \A d \in Asks \ {c} : ask'[d] = ask[d]
        /\ ask'[c] = r /\ ask' \in [Asks -> AskType]
    BY <1>2, <1>3 DEF CodeTypes
  <1> QED
    BY <1>1, <1>2, <1>4, <1>5

LEMMA AskIpCodes ==
    ASSUME CInv, NEW c \in Asks, NEW p \in Phones, AskIp(c, p) PROVE CInv'
  <1> USE DEF CInv
  <1>0. ask[c].locks = {} /\ codes[c].state = "none" /\ ask'[c].at \notin Holding
    BY AskedIp DEF Issuing, CodeTypes, CodeType, Holding
  <1>2. CodeTypes'
    BY AskedIp DEF CodeTypes
  <1>3. Issuing'
    <2>1. \A q : LiveRows(q)' = LiveRows(q)
      BY AskedIp DEF LiveRows, Rows, Live
    <2> QED
      BY AskedIp, <1>0, <2>1 DEF Issuing, Live, Holding
  <1>4. Proving'
    BY AskedIp, ProvingStays DEF Live
  <1> QED
    BY <1>2, <1>3, <1>4

\* The four steps of the transaction before its INSERT.
LEMMA WaitingCodes ==
    ASSUME CInv, NEW c \in Asks, LockPhone(c) \/ MayIssue(c) \/ Supersede(c) PROVE CInv'
  <1> USE DEF CInv, codeVars
  <1>1. CASE LockPhone(c)
    <2>1. CodeTypes'
      BY <1>1 DEF LockPhone, CodeTypes, AskType, AskSteps
    <2>2. Issuing'
      BY <1>1 DEF LockPhone, Issuing, CodeTypes, AskType, Live, LiveRows, Rows, Holding, PhoneFree
    <2>3. Proving'
      BY <1>1, ProvingStays DEF LockPhone, CodeTypes, AskType, Live
    <2> QED
      BY <2>1, <2>2, <2>3
  <1>2. CASE MayIssue(c)
    <2>1. PICK at \in {"refused", "clear"} :
              ask[c].at = "locked" /\ ask' = [ask EXCEPT ![c].at = at]
      BY <1>2 DEF MayIssue
    <2>2. UNCHANGED << now, codes, inbox, check >>
      BY <1>2 DEF MayIssue
    <2>3. CodeTypes'
      BY <2>1, <2>2 DEF CodeTypes, AskType, AskSteps
    <2>4. Issuing'
      BY <2>1, <2>2 DEF Issuing, CodeTypes, AskType, Live, LiveRows, Rows, Holding
    <2>5. Proving'
      BY <2>1, <2>2, ProvingStays DEF CodeTypes, AskType, Live
    <2> QED
      BY <2>3, <2>4, <2>5
  <1>3. CASE Supersede(c)
    <2> DEFINE L == LiveRows(ask[c].phone)
    <2>1. /\ ask[c].at = "clear" /\ ask' = [ask EXCEPT ![c].at = "marked", ![c].locks = L]
          /\ L \subseteq Asks /\ \A d \in L : codes[d].state # "none"
          /\ UNCHANGED << now, codes, inbox, check >>
      BY <1>3 DEF Supersede, LiveRows, Rows
    <2>2. CodeTypes'
      <3> HIDE DEF L
      <3>1. ask' \in [Asks -> AskType]
        BY <2>1, NextAsks DEF CodeTypes, AskSteps
      <3> QED
        BY <2>1, <3>1 DEF CodeTypes
    <2>3. \A p : LiveRows(p)' = LiveRows(p)
      BY <2>1 DEF LiveRows, Rows, Live
    <2>4. Issuing'
      BY <2>1, <2>3 DEF Issuing, CodeTypes, AskType, Live, Holding
    <2>5. Proving'
      BY <2>1, ProvingStays DEF CodeTypes, AskType, Live
    <2> QED
      BY <2>2, <2>4, <2>5
  <1> QED
    BY <1>1, <1>2, <1>3

LEMMA IssueCodes == ASSUME CInv, NEW c \in Asks, Issue(c) PROVE CInv'
  <1> USE DEF CInv, Issue
  <1>0. /\ ask[c].at = "marked" /\ codes[c].state = "none" /\ ask[c].phone \in Phones
        /\ c \notin ask[c].locks
    BY DEF Issuing
  <1>1. CodeTypes'
    <2>1. ask' \in [Asks -> AskType]
      BY NextAsks DEF CodeTypes, AskSteps
    <2>2. codes' \in [Asks -> CodeType]
      <3>1. ask[c].phone \in Phones \cup {None} /\ ask[c].began \in Nat
        BY DEF CodeTypes, AskType
      <3>2. [NoCode EXCEPT !.phone = ask[c].phone, !.created = ask[c].began, !.state = "live"]
              \in CodeType
        BY <3>1 DEF CodeType, NoCode
      <3>3. \A d \in Asks : [codes[d] EXCEPT !.state = "invalidated"] \in CodeType
        BY DEF CodeTypes, CodeType
      <3> QED
        BY <3>2, <3>3 DEF CodeTypes
    <2> QED
      BY <2>1, <2>2 DEF CodeTypes
  <1>2. \A d \in Asks : /\ d # c => ask'[d] = ask[d]
                        /\ ask'[c].at = "sending" /\ ask'[c].locks = {}
                        /\ ask'[c].phone = ask[c].phone /\ ask'[c].began = ask[c].began
    BY DEF CodeTypes, AskType
  <1>3. \A d \in Asks : d # c =>
            /\ codes'[d].phone = codes[d].phone /\ codes'[d].created = codes[d].created
            /\ codes'[d].state = "none" <=> codes[d].state = "none"
            /\ Live(d)' => Live(d) /\ d \notin ask[c].locks
    BY DEF Live, CodeTypes, CodeType, Issuing
  <1>4. /\ codes'[c].state = "live" /\ codes'[c].phone = ask[c].phone
        /\ codes'[c].created = ask[c].began
    BY DEF NoCode
  <1>5. \A d \in Asks : d # c /\ Live(d)' => codes'[d].phone # ask[c].phone
    BY <1>0, <1>3 DEF Issuing, LiveRows, Rows, Live
  <1>6. \A d \in Asks : d # c /\ ask[d].at = "marked" => ask[d].phone # ask[c].phone
    BY <1>0 DEF Issuing, Holding
  <1>7. Issuing'
    <2>1. \A d \in Asks : /\ ask'[d].at # "new" => ask'[d].phone \in Phones
                          /\ ask'[d].locks # {} => ask'[d].at = "marked"
      BY ZenonT(30), <1>0, <1>2 DEF Issuing
    <2>2. \A d \in Asks : codes'[d].state # "none" =>
                /\ ask'[d].at \in {"sending", "retiring", "sent", "dead"}
                /\ codes'[d].phone = ask'[d].phone /\ codes'[d].created = ask'[d].began
      <3> TAKE d \in Asks
      <3>1. CASE d = c
        BY <3>1, <1>2, <1>4
      <3>2. CASE d # c
        BY <3>2, <1>2, <1>3 DEF Issuing, CodeTypes, CodeType
      <3> QED
        BY <3>1, <3>2
    <2>3. \A d \in Asks : ask'[d].at = "marked" => LiveRows(ask[d].phone)' \subseteq ask'[d].locks
      <3> SUFFICES ASSUME NEW d \in Asks, ask'[d].at = "marked", NEW e \in Asks,
                          Live(e)', codes'[e].phone = ask'[d].phone
                   PROVE  e \in ask'[d].locks
        BY DEF LiveRows, Rows
      <3>1. d # c /\ ask'[d] = ask[d]
        BY <1>2
      <3>2. e # c
        BY <3>1, <1>4, <1>6
      <3>3. e \in LiveRows(ask[d].phone)
        BY <3>1, <3>2, <1>3 DEF LiveRows, Rows, Live
      <3> QED
        BY <3>1, <3>3 DEF Issuing
    <2>4. \A d \in Asks : \A e \in ask'[d].locks : codes'[e].state # "none"
      BY <1>2, <1>3, <1>4 DEF Issuing, CodeTypes, AskType
    <2>5. \A d, e \in Asks : ask'[d].at \in Holding /\ ask'[e].at \in Holding
                               /\ ask'[d].phone = ask'[e].phone => d = e
      <3>1. \A d \in Asks : ask'[d].at \in Holding => d # c /\ ask'[d] = ask[d]
        BY <1>2 DEF Holding
      <3> QED
        BY <3>1 DEF Issuing
    <2>6. \A d, e \in Asks : Live(d)' /\ Live(e)' /\ codes'[d].phone = codes'[e].phone => d = e
      BY <1>3, <1>4, <1>5 DEF Issuing
    <2> QED
      BY <2>1, <2>2, <2>3, <2>4, <2>5, <2>6 DEF Issuing
  <1>8. Proving'
    BY <1>0, <1>2, <1>3, ProvingStays
  <1> QED
    BY <1>1, <1>7, <1>8

\* A request that is past its transaction moves on, and its row may go.
Later(c) ==
    /\ ask[c].at \in {"sending", "retiring"}
    /\ ask' \in [Asks -> AskType] /\ \A d \in Asks \ {c} : ask'[d] = ask[d]
    /\ ask'[c].phone = ask[c].phone /\ ask'[c].began = ask[c].began
    /\ ask'[c].locks = ask[c].locks
    /\ UNCHANGED << now, check >>

LEMMA LaterCodes ==
    ASSUME CInv, NEW c \in Asks, Sent(c) \/ NotSent(c) \/ Retire(c) PROVE CInv' /\ Later(c)
  <1> USE DEF CInv, codeVars
  <1>1. CASE Sent(c)
    <2>1. Later(c) /\ ask'[c].at = "sent" /\ UNCHANGED codes
      BY <1>1 DEF Sent, Later, CodeTypes, AskType, AskSteps
    <2>2. CodeTypes'
      <3>1. Message(c) \in [code : Asks, at : Nat]
        BY DEF Message, CodeTypes, AskType
      <3> QED
        BY <1>1, <2>1, <3>1 DEF Sent, Later, CodeTypes, Arrives
    <2>3. Issuing'
      <3>1. \A p : LiveRows(p)' = LiveRows(p)
        BY <2>1 DEF LiveRows, Rows, Live
      <3>2. \A d \in Asks : ask'[d].phone = ask[d].phone /\ ask'[d].began = ask[d].began
                            /\ ask'[d].locks = ask[d].locks
        BY <2>1 DEF Later
      <3>3. \A d \in Asks : ask'[d].at \in {"new", "marked"} \cup Holding => d # c
        BY <2>1 DEF Holding
      <3>4. \A d \in Asks : d # c => ask'[d] = ask[d]
        BY <2>1 DEF Later
      <3>5. ask[c].at \notin {"new", "marked"} /\ UNCHANGED codes
        BY <2>1 DEF Later
      <3> QED
        BY <2>1, <3>1, <3>2, <3>3, <3>4, <3>5 DEF Issuing, Live
    <2>4. Proving'
      BY <2>1, ProvingStays DEF Later, CodeTypes, AskType, Live
    <2> QED
      BY <2>1, <2>2, <2>3, <2>4
  <1>2. CASE NotSent(c)
    <2>1. Later(c) /\ ask'[c].at = "retiring" /\ UNCHANGED << codes, inbox >>
      BY <1>2 DEF NotSent, Later, CodeTypes, AskType, AskSteps
    <2>2. CodeTypes'
      BY <2>1 DEF Later, CodeTypes
    <2>3. Issuing'
      <3>1. \A p : LiveRows(p)' = LiveRows(p)
        BY <2>1 DEF LiveRows, Rows, Live
      <3>2. \A d \in Asks : ask'[d].phone = ask[d].phone /\ ask'[d].began = ask[d].began
                            /\ ask'[d].locks = ask[d].locks
        BY <2>1 DEF Later
      <3>3. \A d \in Asks : ask'[d].at \in {"new", "marked"} \cup Holding => d # c
        BY <2>1 DEF Holding
      <3>4. \A d \in Asks : d # c => ask'[d] = ask[d]
        BY <2>1 DEF Later
      <3>5. ask[c].at \notin {"new", "marked"} /\ UNCHANGED codes
        BY <2>1 DEF Later
      <3> QED
        BY <2>1, <3>1, <3>2, <3>3, <3>4, <3>5 DEF Issuing, Live
    <2>4. Proving'
      BY <2>1, ProvingStays DEF Later, CodeTypes, AskType, Live
    <2> QED
      BY <2>1, <2>2, <2>3, <2>4
  <1>3. CASE Retire(c)
    <2>1. /\ Later(c) /\ ask'[c].at = "failed" /\ UNCHANGED inbox
          /\ ask[c].at = "retiring" /\ RowFree(c)
      BY <1>3 DEF Retire, Later, CodeTypes, AskType, AskSteps
    <2>2. NoCode \in CodeType /\ NoCode.state = "none"
      BY DEF NoCode, CodeType
    <2>3. /\ \A d \in Asks \ {c} : codes'[d] = codes[d]
          /\ codes'[c].state = "none" /\ codes' \in [Asks -> CodeType]
      BY <1>3, <2>2 DEF Retire, CodeTypes
    <2>4. CodeTypes'
      BY <2>1, <2>3 DEF Later, CodeTypes
    <2>5. \A p : LiveRows(p)' \subseteq LiveRows(p)
      BY <2>3 DEF LiveRows, Rows, Live
    <2>6. Issuing'
      <3>1. \A d \in Asks : ask'[d].phone = ask[d].phone /\ ask'[d].began = ask[d].began
                            /\ ask'[d].locks = ask[d].locks
        BY <2>1 DEF Later
      <3>2. \A d \in Asks : ask'[d].at \in {"new", "marked"} \cup Holding => d # c
        BY <2>1 DEF Holding
      <3>3. \A d \in Asks : d # c => ask'[d] = ask[d]
        BY <2>1 DEF Later
      <3>4. \A d \in Asks : c \notin ask[d].locks
        BY <2>1 DEF RowFree
      <3>5. \A d \in Asks : codes'[d].state # "none" => d # c /\ codes'[d] = codes[d]
        BY <2>3
      <3>6. \A d \in Asks : ask[d].locks \subseteq Asks
        BY DEF CodeTypes, AskType
      <3>7. \A d \in Asks : \A e \in ask'[d].locks : codes'[e].state # "none"
        BY <3>1, <3>4, <3>6, <2>3 DEF Issuing
      <3> QED
        BY <2>1, <2>5, <3>1, <3>2, <3>3, <3>5, <3>7 DEF Issuing, Live
    <2>7. Proving'
      BY <2>1, <2>3, ProvingStays DEF Later, Live
    <2> QED
      BY <2>1, <2>4, <2>6, <2>7
  <1> QED
    BY <1>1, <1>2, <1>3

\* Rows change where nobody has them locked; none becomes live, and no row appears.
Withers ==
    /\ codes' \in [Asks -> CodeType]
    /\ \A c \in Asks :
          /\ codes'[c].state # "none" =>
                /\ codes[c].state # "none" /\ codes'[c].phone = codes[c].phone
                /\ codes'[c].created = codes[c].created
          /\ Live(c)' => Live(c)
          /\ codes'[c].state # codes[c].state => RowFree(c)
    /\ UNCHANGED << now, ask, inbox >>

LEMMA WithersCodes ==
    ASSUME CodeTypes, Issuing, Withers
    PROVE  Issuing' /\ (UNCHANGED check => CodeTypes')
  <1>1. \A p : LiveRows(p)' \subseteq LiveRows(p)
    BY DEF Withers, LiveRows, Rows, Live
  <1>2. \A c, d \in Asks : c \in ask[d].locks => codes'[c].state = codes[c].state
    BY DEF Withers, RowFree
  <1>3. \A c \in Asks : ask[c].locks \subseteq Asks
    BY DEF CodeTypes, AskType
  <1> QED
    BY <1>1, <1>2, <1>3 DEF Withers, Issuing, CodeTypes, Live

LEMMA PurgeCodes == ASSUME CInv, Purge PROVE CInv' /\ Withers
  <1>1. NoCode \in CodeType /\ NoCode.state = "none"
    BY DEF NoCode, CodeType
  <1>2. Withers
    BY <1>1 DEF Purge, Withers, CInv, CodeTypes, Live
  <1>3. Proving'
    BY <1>2, ProvingStays DEF Purge, Withers
  <1> QED
    BY <1>2, <1>3, WithersCodes DEF Purge, CInv

\* A submission moves by itself, and succeeds only on a code that dies with the step.
LEMMA CheckMoves ==
    ASSUME CInv, NEW v \in Checks, NEW c \in Asks, check' \in [Checks -> CheckType],
           \A w \in Checks \ {v} : check'[w] = check[w],
           check'[v].code = c, ask[c].at = "sent",
           \/ ~Successful(v)' \/ (Successful(v) /\ check[v].code = c)
           \/ Live(c) /\ ~Live(c)',
           UNCHANGED ask, \A d \in Asks : Live(d)' => Live(d)
    PROVE  Proving'
  <1>1. \A w \in Checks \ {v} : Successful(w)' <=> Successful(w)
    BY DEF Successful
  <1>2. \A w \in Checks : /\ check'[w].at # "new" => check'[w].code \in Asks
                          /\ check'[w].at # "new" => ask'[check'[w].code].at = "sent"
    BY DEF CInv, Proving
  <1>3. \A w \in Checks \ {v} : Successful(w) =>
            /\ check[w].code \in Asks /\ ~Live(check[w].code)
            /\ codes'[check[w].code].state # "live"
    BY DEF CInv, Proving, Successful, Live
  <1>4. Successful(v)' => ~Live(c)'
    BY DEF CInv, Proving
  <1>5. \A w \in Checks \ {v} : Successful(v)' /\ Successful(w) => check[w].code # c
    BY <1>3 DEF CInv, Proving, CodeSignsInOnce
  <1>6. \A w \in Checks : Successful(w)' => codes'[check'[w].code].state # "live"
    BY <1>1, <1>3, <1>4 DEF Live
  <1>7. CodeSignsInOnce'
    <2> SUFFICES ASSUME NEW x \in Checks, NEW w \in Checks, Successful(x)', Successful(w)',
                        check'[x].code = check'[w].code
                 PROVE  x = w
      BY DEF CodeSignsInOnce
    <2> QED
      BY <1>1, <1>5 DEF CInv, Proving, CodeSignsInOnce
  <1> QED
    BY <1>2, <1>6, <1>7 DEF Proving, Live

\* What Goto does.
LEMMA Goes ==
    ASSUME CodeTypes, NEW v \in Checks, NEW next \in CheckSteps, Goto(v, next)
    PROVE  /\ check' \in [Checks -> CheckType] /\ \A w \in Checks \ {v} : check'[w] = check[w]
           /\ check'[v].at = next /\ check'[v].code = check[v].code
           /\ check'[v].account = check[v].account /\ check'[v].again = check[v].again
  BY DEF CodeTypes, CheckType, Goto

LEMMA SubmitCodes ==
    ASSUME CInv, NEW v \in Checks, NEW c \in Asks, NEW right \in BOOLEAN, Submit(v, c, right)
    PROVE  CInv'
  <1> DEFINE r == [NoCheck EXCEPT !.code = c, !.right = right, !.at = Verdict(c, right)]
  <1>1. Verdict(c, right) \in {"rejected", "expire", "consume", "miss"}
    BY DEF Verdict
  <1>2. /\ r \in CheckType /\ r.code = c /\ r.at \in {"rejected", "expire", "consume", "miss"}
    <2> DEFINE at == Verdict(c, right)
    <2> HIDE DEF at
    <2> QED
      BY <1>1 DEF NoCheck, CheckType, CheckSteps, at
  <1>3. /\ check' = [check EXCEPT ![v] = r] /\ ask[c].at = "sent"
        /\ UNCHANGED << now, codes, inbox, ask >>
    BY DEF Submit, codeVars
  <1> HIDE DEF r
  <1>4. /\ check' \in [Checks -> CheckType] /\ \A w \in Checks \ {v} : check'[w] = check[w]
        /\ check'[v] = r
    BY <1>2, <1>3 DEF CInv, CodeTypes
  <1>5. CodeTypes' /\ Issuing'
    BY <1>3, <1>4 DEF CInv, CodeTypes, Issuing, Live, LiveRows, Rows
  <1>6. ~Successful(v)'
    BY <1>2, <1>4 DEF Successful
  <1>7. Proving'
    BY <1>2, <1>3, <1>4, <1>6, CheckMoves DEF Live
  <1> QED
    BY <1>5, <1>7 DEF CInv

LEMMA CheckCodes ==
    ASSUME CInv, NEW v \in Checks, Miss(v) \/ Expire(v) \/ Consume(v)
    PROVE  CInv' /\ Withers
  <1> USE DEF CInv
  <1>1. PICK c \in Asks : c = check[v].code /\ ask[c].at = "sent" /\ RowFree(c)
    BY DEF Proving, Miss, Expire, Consume
  <1>2. \E next \in CheckSteps : Goto(v, next)
    BY DEF Miss, Expire, Consume, CheckSteps
  <1>3. /\ check' \in [Checks -> CheckType] /\ \A w \in Checks \ {v} : check'[w] = check[w]
        /\ check'[v].code = c
    BY <1>1, <1>2, Goes
  <1>4. UNCHANGED << now, inbox, ask >>
    BY DEF Miss, Expire, Consume
  <1>5. /\ \A d \in Asks \ {c} : codes'[d] = codes[d]
        /\ codes' \in [Asks -> CodeType]
        /\ codes'[c].phone = codes[c].phone /\ codes'[c].created = codes[c].created
        /\ codes[c].state = "none" => codes'[c].state = "none"
        /\ Live(c)' => Live(c)
        /\ Successful(v)' => Live(c) /\ ~Live(c)'
    <2>1. CASE Miss(v)
      <3>1. codes[c].attempts + 1 \in Nat
        BY <1>1 DEF CodeTypes, CodeType
      <3>2. ~Successful(v)'
        BY <2>1, <1>1, Goes DEF Miss, Successful, CheckSteps
      <3>3. \/ codes' = codes \/ codes' = [codes EXCEPT ![c].attempts = codes[c].attempts + 1]
        BY <1>1, <2>1 DEF Miss
      <3> QED
        BY <1>1, <3>1, <3>2, <3>3 DEF CodeTypes, CodeType, Live
    <2>2. CASE Expire(v)
      <3>1. ~Successful(v)'
        BY <2>2, Goes DEF Expire, Successful, CheckSteps
      <3> QED
        BY <1>1, <2>2, <3>1 DEF Expire, CodeTypes, CodeType, Live
    <2>3. CASE Consume(v)
      <3>1. CASE Usable(c)
        BY <1>1, <2>3, <3>1 DEF Consume, CodeTypes, CodeType, Live, Usable
      <3>2. CASE ~Usable(c)
        <4>1. UNCHANGED codes /\ Goto(v, "rejected")
          BY <1>1, <2>3, <3>2 DEF Consume
        <4>2. ~Successful(v)'
          BY <4>1, Goes DEF Successful, CheckSteps
        <4> QED
          BY <4>1, <4>2 DEF CodeTypes, Live
      <3> QED
        BY <3>1, <3>2
    <2> QED
      BY <2>1, <2>2, <2>3
  <1>6. Withers
    BY <1>1, <1>4, <1>5 DEF Withers, Live
  <1>7. CodeTypes' /\ Issuing'
    BY <1>3, <1>4, <1>5, <1>6, WithersCodes DEF CodeTypes
  <1>8. \A d \in Asks : Live(d)' => Live(d)
    BY <1>6 DEF Withers
  <1>9. Proving'
    BY <1>1, <1>3, <1>4, <1>5, <1>8, CheckMoves
  <1> QED
    BY <1>6, <1>7, <1>9

-----------------------------------------------------------------------------
(* Steps that leave the codes alone.                                       *)

AccountType == [number : Phones \cup {None}, typed : Phones \cup {None}, bonus : BOOLEAN,
                closing : BOOLEAN, closed : BOOLEAN]

Chosen == {"claim", "touch", "bonus", "session", "signedIn"}

\* Accounts are never removed, and whoever refers to one refers to one that is there.
AccountTypes ==
    /\ accounts \in Seq(AccountType)
    /\ sessions \subseteq [by : Checks \cup Forms, code : Asks \cup {None},
                           account : DOMAIN accounts]
    /\ form \in [Forms -> [at : {"new", "bonus", "session", "done", "dead"}, account : Nat]]
    /\ \A f \in Forms : form[f].at \in {"bonus", "session"} => form[f].account \in DOMAIN accounts
    /\ due \subseteq DOMAIN accounts
    /\ \A v \in Checks : check[v].at \in Chosen => check[v].account \in DOMAIN accounts

\* A request goes on from one step after the code to the next, or ends in an error.
LEMMA SignsOn ==
    ASSUME CodeTypes, AccountTypes, NEW v \in Checks, SigningIn(v)
    PROVE  /\ Successful(v) /\ check' \in [Checks -> CheckType]
           /\ \A w \in Checks \ {v} : check'[w] = check[w]
           /\ check'[v].code = check[v].code
           /\ check'[v].at # "new"
           /\ UNCHANGED << now, codes, inbox, ask >>
  <1>0. DOMAIN accounts \subseteq Nat
    BY DEF AccountTypes
  <1> USE DEF codeVars
  <1>1. CASE FindExact(v)
    <2>1. CASE Holders(Number(v)) = {}
      BY <1>1, <2>1, Goes DEF FindExact, Successful, CheckSteps
    <2>2. CASE Holders(Number(v)) # {}
      <3>1. PICK i \in Holders(Number(v)) :
               check' = [check EXCEPT ![v].account = i,
                                      ![v].at = IF check[v].again THEN "session" ELSE "touch"]
        BY <1>1, <2>2 DEF FindExact
      <3>2. i \in Nat
        BY <1>0 DEF Holders
      <3>3. PICK at \in {"session", "touch"} : check' = [check EXCEPT ![v].account = i, ![v].at = at]
        BY <3>1
      <3>4. Successful(v) /\ UNCHANGED << now, codes, inbox, ask >>
        BY <1>1 DEF FindExact, Successful
      <3> QED
        BY ZenonT(30), <3>2, <3>3, <3>4 DEF CodeTypes, CheckType, CheckSteps
    <2> QED
      BY <2>1, <2>2
  <1>2. CASE FindLegacy(v)
    <2>1. CASE Typed(Number(v)) = {}
      <3>1. Goto(v, "error") \/ Goto(v, "create")
        BY <1>2, <2>1 DEF FindLegacy
      <3> QED
        BY <1>2, <3>1, Goes DEF FindLegacy, Successful, CheckSteps
    <2>2. CASE Typed(Number(v)) # {}
      <3> DEFINE i == Oldest(Typed(Number(v)))
      <3>1. i \in Nat
        <4>1. Typed(Number(v)) \in SUBSET Nat
          BY <1>0 DEF Typed
        <4>2. \E j \in Typed(Number(v)) : \A k \in Typed(Number(v)) : j <= k
          BY <2>2, <4>1, LeastNumber
        <4> QED
          BY <4>1, <4>2 DEF Oldest
      <3>2. \E at \in {"session", "claim"} : check' = [check EXCEPT ![v].account = i, ![v].at = at]
        BY <1>2, <2>2 DEF FindLegacy
      <3> HIDE DEF i
      <3> QED
        BY <1>2, <3>1, <3>2 DEF FindLegacy, Successful, CodeTypes, CheckType, CheckSteps
    <2> QED
      BY <2>1, <2>2
  <1>3. CASE Claim(v) \/ Touch(v) \/ GrantBonus(v) \/ OpenSession(v)
    <2>1. Goto(v, "touch") \/ Goto(v, "session") \/ Goto(v, "signedIn")
      BY <1>3 DEF Claim, Touch, GrantBonus, OpenSession
    <2>2. Successful(v) /\ UNCHANGED << now, codes, inbox, ask >>
      BY <1>3 DEF Claim, Touch, GrantBonus, OpenSession, Successful
    <2> QED
      BY <2>1, <2>2, Goes DEF CheckSteps
  <1>4. CASE Create(v)
    <2>1. CASE NumberTaken(Number(v))
      BY <1>4, <2>1 DEF Create, Successful, CodeTypes, CheckType, CheckSteps
    <2>2. CASE ~NumberTaken(Number(v))
      <3> DEFINE n == Len(accounts')
      <3>1. n \in Nat
        <4>1. Account(Number(v), Number(v)) \in AccountType
          <5>1. Number(v) \in Phones \cup {None}
            BY <1>4 DEF Create, Number, CodeTypes, AskType, CheckType
          <5> QED
            BY <5>1 DEF Account, AccountType
        <4> QED
          BY <1>4, <2>2, <4>1 DEF Create, AccountTypes
      <3>2. check' = [check EXCEPT ![v].account = n, ![v].at = "bonus"]
        BY <1>4, <2>2 DEF Create
      <3> HIDE DEF n
      <3> QED
        BY <1>4, <3>1, <3>2 DEF Create, Successful, CodeTypes, CheckType, CheckSteps
    <2> QED
      BY <2>1, <2>2
  <1> QED
    BY <1>1, <1>2, <1>3, <1>4 DEF SigningIn

LEMMA SigningCodes ==
    ASSUME CInv, AccountTypes, NEW v \in Checks, SigningIn(v) PROVE CInv'
  <1>1. PICK c \in Asks : c = check[v].code /\ ask[c].at = "sent" /\ Successful(v)
    BY SignsOn DEF CInv, Proving, Successful
  <1>2. CodeTypes' /\ Issuing'
    BY SignsOn DEF CInv, CodeTypes, Issuing, Live, LiveRows, Rows
  <1>3. Proving'
    BY <1>1, SignsOn, CheckMoves DEF CInv, Live
  <1> QED
    BY <1>2, <1>3 DEF CInv

\* The registration form, the deletion of accounts and a stutter.
Elsewhere == UNCHANGED << now, codeVars, ask, check >>

LEMMA ElsewhereCodes == ASSUME CInv, Elsewhere PROVE CInv'
  BY DEF Elsewhere, codeVars, CInv, CodeTypes, Issuing, Proving, CodeSignsInOnce, Successful,
     Live, LiveRows, Rows

LEMMA TickCodes == ASSUME CInv, Tick PROVE CInv'
  BY DEF Tick, codeVars, CInv, CodeTypes, Issuing, Proving, CodeSignsInOnce, Successful,
     Live, LiveRows, Rows

\* What a restart does to the requests.
LEMMA Restarted ==
    ASSUME CodeTypes, Restart
    PROVE  /\ UNCHANGED << now, codes, accounts, sessions >>
           /\ ask' \in [Asks -> AskType] /\ check' \in [Checks -> CheckType]
           /\ \A c \in Asks :
                /\ ask'[c].phone = ask[c].phone /\ ask'[c].began = ask[c].began
                /\ ask'[c].locks = {}
                /\ \/ ask[c].at \in {"new", "sent", "refused", "failed"} /\ ask'[c].at = ask[c].at
                   \/ ask[c].at \notin {"new", "sent", "refused", "failed"} /\ ask'[c].at = "dead"
           /\ \A v \in Checks :
                /\ check'[v].code = check[v].code /\ check'[v].account = check[v].account
                /\ \/ check[v].at \in {"new", "signedIn", "rejected", "error", "dead"}
                      /\ check'[v].at = check[v].at
                   \/ check[v].at # "new" /\ check'[v].at = "dead"
           /\ \E S \in SUBSET {c \in Asks : ask[c].at = "sending"} :
                inbox' = inbox \cup {Message(c) : c \in S}
  <1> DEFINE dies(at) == IF at \in {"new", "sent", "refused", "failed", "signedIn",
                                    "rejected", "error", "done"} THEN at ELSE "dead"
  <1>1. /\ ask' = [c \in Asks |-> [ask[c] EXCEPT !.at = dies(ask[c].at), !.locks = {}]]
        /\ check' = [v \in Checks |-> [check[v] EXCEPT !.at = dies(check[v].at)]]
        /\ UNCHANGED << now, codes, accounts, sessions >>
        /\ \E S \in SUBSET {c \in Asks : ask[c].at = "sending"} :
                inbox' = inbox \cup {Message(c) : c \in S}
    BY DEF Restart, accountVars
  <1>2. \A at \in AskSteps : dies(at) \in AskSteps
    BY DEF AskSteps
  <1>3. \A at \in CheckSteps : dies(at) \in CheckSteps
    BY DEF CheckSteps
  <1>4. ASSUME NEW c \in Asks
        PROVE  /\ ask'[c] \in AskType /\ ask'[c].at = dies(ask[c].at) /\ ask'[c].locks = {}
               /\ ask'[c].phone = ask[c].phone /\ ask'[c].began = ask[c].began
    <2>1. ask[c] \in AskType /\ ask[c].at \in AskSteps
      BY DEF CodeTypes, AskType
    <2>2. PICK at \in AskSteps :
              at = dies(ask[c].at) /\ ask'[c] = [ask[c] EXCEPT !.at = at, !.locks = {}]
      BY <1>1, <1>2, <2>1
    <2>3. at = dies(ask[c].at)
      BY <2>2
    <2> HIDE DEF dies
    <2> QED
      BY <2>1, <2>2, <2>3 DEF AskType
  <1>5. ASSUME NEW v \in Checks
        PROVE  /\ check'[v] \in CheckType /\ check'[v].at = dies(check[v].at)
               /\ check'[v].code = check[v].code /\ check'[v].account = check[v].account
    <2>1. check[v] \in CheckType /\ check[v].at \in CheckSteps
      BY DEF CodeTypes, CheckType
    <2> DEFINE at == dies(check[v].at)
    <2>2. at \in CheckSteps /\ check'[v] = [check[v] EXCEPT !.at = at]
      BY <1>1, <1>3, <2>1
    <2> HIDE DEF at
    <2>3. at = dies(check[v].at)
      BY DEF at
    <2> QED
      BY <2>1, <2>2, <2>3 DEF CheckType
  <1>6. /\ ask' = [c \in Asks |-> ask'[c]] /\ check' = [v \in Checks |-> check'[v]]
    BY <1>1
  <1>7. \A c \in Asks : ask[c].at \in AskSteps
    BY DEF CodeTypes, AskType
  <1>8. \A v \in Checks : check[v].at \in CheckSteps
    BY DEF CodeTypes, CheckType
  <1> QED
    <2>1. \A c \in Asks :
             \/ ask[c].at \in {"new", "sent", "refused", "failed"} /\ dies(ask[c].at) = ask[c].at
             \/ ask[c].at \notin {"new", "sent", "refused", "failed"} /\ dies(ask[c].at) = "dead"
      BY <1>7 DEF AskSteps
    <2>2. \A v \in Checks :
             \/ /\ check[v].at \in {"new", "signedIn", "rejected", "error", "dead"}
                /\ dies(check[v].at) = check[v].at
             \/ check[v].at # "new" /\ dies(check[v].at) = "dead"
      BY <1>8 DEF CheckSteps
    <2>3. ask' \in [Asks -> AskType] /\ check' \in [Checks -> CheckType]
      BY <1>4, <1>5, <1>6
    <2> HIDE DEF dies
    <2> QED
      BY ZenonT(30), <1>1, <1>4, <1>5, <2>1, <2>2, <2>3

LEMMA RestartCodes == ASSUME CInv, Restart PROVE CInv'
  <1> USE DEF CInv
  <1>1. PICK S \in SUBSET {c \in Asks : ask[c].at = "sending"} :
              inbox' = inbox \cup {Message(c) : c \in S}
    BY Restarted
  <1>2. CodeTypes'
    <2>1. \A c \in Asks : Message(c) \in [code : Asks, at : Nat]
      BY DEF Message, CodeTypes, AskType
    <2> QED
      BY <1>1, <2>1, Restarted DEF CodeTypes
  <1>3. \A p : LiveRows(p)' = LiveRows(p)
    BY Restarted DEF LiveRows, Rows, Live
  <1>4. Issuing'
    BY <1>3, Restarted DEF Issuing, Live, Holding
  <1>5. \A v \in Checks : Successful(v)' => Successful(v)
    BY Restarted DEF Successful
  <1>6. Proving'
    BY <1>5, Restarted DEF Proving, CodeSignsInOnce, Live
  <1> QED
    BY <1>2, <1>4, <1>6

-----------------------------------------------------------------------------
(* Messages: how many codes of a number are sent in a window of a day.     *)

\* The code has been sent, or may still be, or counts as if it had been.
OnBooks(d) ==
    \/ codes[d].state # "none" \/ ask[d].at = "sending"
    \/ \E m \in inbox : m.code = d

InWindow(p, t) ==
    {d \in Asks : OnBooks(d) /\ ask[d].phone = p /\ ask[d].began \in t .. t + Window - 1}

\* A row that is gone while its code may have been sent is older than the quota looks back,
\* so a request that is let through has seen every code of any window that it falls into.
Posted ==
    /\ \A m \in inbox : m.at = ask[m.code].began /\ ask[m.code].at \in {"sent", "dead"}
    /\ \A d \in Asks :
          /\ ask[d].began <= now
          /\ OnBooks(d) => ask[d].at \in {"sending", "retiring", "sent", "dead"}
          /\ OnBooks(d) /\ codes[d].state = "none" => ask[d].began < now - Retention
          /\ ask[d].at \in {"waiting"} \cup Holding => now <= ask[d].began + MaxWait

LetIn(d, p, t) ==
    /\ ask[d].at \in {"clear", "marked"} /\ ask[d].phone = p
    /\ ask[d].began \in t .. t + Window - 1

Bounded ==
    \A p \in Phones, t \in Nat :
        /\ Cardinality(InWindow(p, t)) <= Quota
        /\ \A d \in Asks : LetIn(d, p, t) => Cardinality(InWindow(p, t)) < Quota

Posting == Posted /\ Bounded

LEMMA Consts ==
    /\ Window \in Nat \ {0} /\ Quota \in Nat \ {0} /\ MaxWait \in Nat /\ Retention \in Nat
    /\ Retention >= Window + MaxWait - 1 /\ IsFiniteSet(Asks)
    /\ None \notin Asks /\ None \notin Phones
  BY SignInConstants

LEMMA Windows ==
    ASSUME NEW p, NEW t
    PROVE  InWindow(p, t) \subseteq Asks /\ IsFiniteSet(InWindow(p, t))
           /\ Cardinality(InWindow(p, t)) \in Nat
  <1>1. InWindow(p, t) \subseteq Asks
    BY DEF InWindow
  <1> QED
    BY <1>1, Consts, FS_Subset, FS_CardinalityType

LEMMA InitPosting == Init => Posting
  <1> SUFFICES ASSUME Init PROVE Posting
    OBVIOUS
  <1>1. \A d \in Asks : ~OnBooks(d) /\ ask[d].at = "new" /\ ask[d].began = 0
    BY DEF Init, OnBooks, NoAsk, NoCode
  <1>2. \A p, t : InWindow(p, t) = {}
    BY <1>1 DEF InWindow
  <1>3. \A p, t : Cardinality(InWindow(p, t)) = 0
    BY <1>2, FS_EmptySet
  <1> QED
    BY <1>1, <1>3, Consts DEF Init, Posting, Posted, Bounded, LetIn, Holding

\* The codes on the books only become fewer, and their requests keep number and time.
Fewer ==
    \A d \in Asks : OnBooks(d)' => /\ OnBooks(d) /\ ask'[d].phone = ask[d].phone
                                   /\ ask'[d].began = ask[d].began

LEMMA FewerInWindow ==
    ASSUME Fewer, NEW p, NEW t
    PROVE  /\ InWindow(p, t)' \subseteq InWindow(p, t)
           /\ Cardinality(InWindow(p, t)') <= Cardinality(InWindow(p, t))
           /\ Cardinality(InWindow(p, t)') \in Nat /\ Cardinality(InWindow(p, t)) \in Nat
  <1>1. InWindow(p, t)' \subseteq InWindow(p, t)
    BY DEF Fewer, InWindow
  <1> QED
    BY <1>1, Windows, FS_Subset, FS_CardinalityType

LEMMA FewerBounded ==
    ASSUME Bounded, Fewer,
           \A d \in Asks : ask'[d].at \in {"clear", "marked"} =>
              /\ ask[d].at \in {"clear", "marked"}
              /\ ask'[d].phone = ask[d].phone /\ ask'[d].began = ask[d].began
    PROVE  Bounded'
  <1>1. ASSUME NEW p \in Phones, NEW t \in Nat
        PROVE  /\ Cardinality(InWindow(p, t)') <= Cardinality(InWindow(p, t))
               /\ Cardinality(InWindow(p, t)') \in Nat /\ Cardinality(InWindow(p, t)) \in Nat
    BY FewerInWindow
  <1>2. \A d \in Asks : \A p, t : LetIn(d, p, t)' => LetIn(d, p, t)
    BY DEF LetIn
  <1> QED
    BY <1>1, <1>2, Consts DEF Bounded

\* Steps on the requests, but for the one that looks at the quota and the one that inserts.
LEMMA AskPosting ==
    ASSUME CInv, Posting, NEW c \in Asks,
           \/ \E p \in Phones : AskIp(c, p)
           \/ LockPhone(c) \/ Supersede(c) \/ Sent(c) \/ NotSent(c) \/ Retire(c)
    PROVE  Posting'
  <1> USE DEF CInv, codeVars
  <1>1. CASE \E p \in Phones : AskIp(c, p)
    <2>1. PICK p \in Phones : AskIp(c, p)
      BY <1>1
    <2>2. /\ \A d \in Asks \ {c} : ask'[d] = ask[d]
          /\ ask'[c].at \in {"waiting", "refused"} /\ ask'[c].began = now
          /\ UNCHANGED << now, codes, inbox >>
      BY <2>1, AskedIp DEF AskIp
    <2>3. ask[c].at = "new" /\ ~OnBooks(c) /\ codes[c].state = "none"
      BY <2>1 DEF AskIp, Posting, Posted, OnBooks, CodeTypes, CodeType
    <2>4. \A d \in Asks : OnBooks(d)' => d # c /\ OnBooks(d)
      BY <2>2, <2>3 DEF OnBooks
    <2>5. \A m \in inbox : m.code # c
      BY <2>3 DEF Posting, Posted
    <2>6. Bounded'
      BY <2>2, <2>4, FewerBounded DEF Posting, Fewer
    <2>7. Posted'
      BY <2>2, <2>4, <2>5, Consts DEF Posting, Posted, CodeTypes, Holding
    <2> QED
      BY <2>6, <2>7 DEF Posting
  <1>2. CASE LockPhone(c) \/ Supersede(c) \/ NotSent(c)
    <2>1. /\ \A d \in Asks \ {c} : ask'[d] = ask[d]
          /\ ask'[c].phone = ask[c].phone /\ ask'[c].began = ask[c].began
          /\ \/ ask[c].at = "waiting" /\ ask'[c].at = "locked"
             \/ ask[c].at = "clear" /\ ask'[c].at = "marked"
             \/ ask[c].at = "sending" /\ ask'[c].at = "retiring"
          /\ UNCHANGED << now, codes, inbox >>
      BY <1>2 DEF LockPhone, Supersede, NotSent, CodeTypes, AskType
    <2>2. \A d \in Asks : OnBooks(d)' => OnBooks(d)
      BY <2>1 DEF OnBooks
    <2>3. Bounded'
      BY <2>1, <2>2, FewerBounded DEF Posting, Fewer
    <2>4. Posted'
      BY <2>1, <2>2 DEF Posting, Posted, CodeTypes, Holding
    <2> QED
      BY <2>3, <2>4 DEF Posting
  <1>3. CASE Sent(c)
    <2>a. Later(c)
      BY <1>3, LaterCodes
    <2>b. /\ ask[c].at = "sending" /\ ask'[c].at = "sent" /\ inbox' = inbox \cup {Message(c)}
          /\ UNCHANGED codes
      BY <1>3 DEF Sent, Arrives, CodeTypes, AskType
    <2>1. /\ Later(c) /\ ask'[c].at = "sent" /\ inbox' = inbox \cup {Message(c)} /\ UNCHANGED codes
          /\ ask[c].at = "sending"
      BY <2>a, <2>b
    <2>2. \A d \in Asks : OnBooks(d)' => OnBooks(d)
      BY <2>1 DEF OnBooks, Message, Later
    <2>3. Bounded'
      BY <2>1, <2>2, FewerBounded DEF Posting, Fewer, Later
    <2>4. Posted'
      BY <2>1, <2>2 DEF Posting, Posted, CodeTypes, Holding, Later, Message
    <2> QED
      BY <2>3, <2>4 DEF Posting
  <1>4. CASE Retire(c)
    <2>a. Later(c)
      BY <1>4, LaterCodes
    <2>b. /\ ask'[c].at = "failed" /\ UNCHANGED inbox /\ ask[c].at = "retiring"
          /\ \A d \in Asks \ {c} : codes'[d] = codes[d]
          /\ codes'[c].state = "none"
      BY <1>4 DEF Retire, CodeTypes, AskType, NoCode
    <2>1. /\ Later(c) /\ ask'[c].at = "failed" /\ UNCHANGED inbox /\ ask[c].at = "retiring"
          /\ \A d \in Asks \ {c} : codes'[d] = codes[d]
          /\ codes'[c].state = "none"
      BY <2>a, <2>b
    <2>2. \A d \in Asks : OnBooks(d)' => d # c /\ OnBooks(d)
      BY <2>1 DEF OnBooks, Later, Posting, Posted
    <2>3. Bounded'
      BY <2>1, <2>2, FewerBounded DEF Posting, Fewer, Later
    <2>4. Posted'
      BY <2>1, <2>2 DEF Posting, Posted, CodeTypes, Holding, Later
    <2> QED
      BY <2>3, <2>4 DEF Posting
  <1> QED
    BY <1>1, <1>2, <1>3, <1>4

\* The quota has been checked against every code of the window.
LEMMA MayIssuePosting ==
    ASSUME CInv, Posting, NEW c \in Asks, MayIssue(c) PROVE Posting'
  <1> USE DEF CInv, codeVars
  <1> DEFINE q == ask[c].phone
  <1>1. /\ ask[c].at = "locked" /\ ask[c].phone \in Phones
        /\ \A d \in Asks \ {c} : ask'[d] = ask[d]
        /\ ask'[c].phone = ask[c].phone /\ ask'[c].began = ask[c].began
        /\ \/ ask'[c].at = "refused"
           \/ ask'[c].at = "clear" /\ ~UsedUp(ask[c].phone, ask[c].began)
        /\ UNCHANGED << now, codes, inbox >>
    BY DEF MayIssue, CodeTypes, AskType, Issuing
  <1>2. \A d \in Asks : OnBooks(d)' <=> OnBooks(d)
    BY <1>1 DEF OnBooks
  <1>3. Posted'
    BY <1>1, <1>2 DEF Posting, Posted, CodeTypes, Holding
  <1>4. \A p, t : InWindow(p, t)' = InWindow(p, t)
    BY <1>1, <1>2 DEF InWindow
  <1>5. ASSUME NEW t \in Nat, NEW p \in Phones, LetIn(c, p, t)'
        PROVE  Cardinality(InWindow(p, t)) < Quota
    <2>0. p = q /\ ask'[c].at = "clear"
      BY <1>1, <1>5 DEF LetIn
    <2> DEFINE seen == {d \in Rows(q) : codes[d].created > ask[c].began - Window}
    <2>1. IsFiniteSet(seen) /\ Cardinality(seen) < Quota /\ Cardinality(seen) \in Nat
      <3>1. seen \subseteq Asks
        BY DEF Rows
      <3> QED
        BY <1>1, <2>0, <3>1, Consts, FS_Subset, FS_CardinalityType DEF UsedUp
    <2>2. InWindow(q, t) \subseteq seen
      <3> SUFFICES ASSUME NEW d \in InWindow(q, t) PROVE d \in seen
        OBVIOUS
      <3>1. /\ d \in Asks /\ OnBooks(d) /\ ask[d].phone = q /\ t <= ask[d].began
            /\ ask[d].began \in Nat /\ ask[c].began \in Nat /\ now \in Nat
        BY DEF InWindow, CodeTypes, AskType
      <3>2. ask[c].began <= t + Window - 1 /\ now <= ask[c].began + MaxWait
        BY <1>1, <1>5 DEF LetIn, Posting, Posted, Holding
      <3>3. codes[d].state # "none"
        BY <3>1, <3>2, Consts DEF Posting, Posted
      <3> QED
        BY <3>1, <3>2, <3>3, Consts DEF Rows, Issuing
    <2> QED
      BY <2>0, <2>1, <2>2, FS_Subset, Windows, Consts
  <1>6. Bounded'
    <2> SUFFICES ASSUME NEW p \in Phones, NEW t \in Nat
                 PROVE  /\ Cardinality(InWindow(p, t)) <= Quota
                        /\ \A d \in Asks : LetIn(d, p, t)' => Cardinality(InWindow(p, t)) < Quota
      BY <1>4 DEF Bounded
    <2>1. \A d \in Asks \ {c} : LetIn(d, p, t)' => LetIn(d, p, t)
      BY <1>1 DEF LetIn
    <2> QED
      BY <1>5, <2>1 DEF Posting, Bounded
  <1> QED
    BY <1>3, <1>6 DEF Posting

\* The new code is one more in the windows it falls into, where there was room for it.
LEMMA OneMore ==
    ASSUME NEW S, IsFiniteSet(S), NEW x, NEW R, R \subseteq S \cup {x}
    PROVE  /\ Cardinality(R) \in Nat /\ Cardinality(S) \in Nat
           /\ Cardinality(R) <= Cardinality(S) + 1
  <1>0. Cardinality(S) \in Nat
    BY FS_CardinalityType
  <1>1. IsFiniteSet(S \cup {x}) /\ Cardinality(S \cup {x}) <= Cardinality(S) + 1
    <2>1. /\ IsFiniteSet(S \cup {x})
          /\ Cardinality(S \cup {x}) = IF x \in S THEN Cardinality(S) ELSE Cardinality(S) + 1
      BY FS_AddElement
    <2> QED
      BY <1>0, <2>1
  <1>2. IsFiniteSet(R) /\ Cardinality(R) <= Cardinality(S \cup {x})
    BY <1>1, FS_Subset
  <1> QED
    BY <1>0, <1>1, <1>2, FS_CardinalityType

LEMMA IssuePosting ==
    ASSUME CInv, Posting, NEW c \in Asks, Issue(c) PROVE Posting'
  <1> USE DEF CInv
  <1>1. /\ ask[c].at = "marked" /\ ask[c].phone \in Phones /\ c \notin ask[c].locks
        /\ \A d \in Asks \ {c} : ask'[d] = ask[d]
        /\ ask'[c].phone = ask[c].phone /\ ask'[c].began = ask[c].began
        /\ ask'[c].at = "sending" /\ UNCHANGED << now, inbox >>
        /\ codes'[c].state = "live"
    <2>1. /\ ask[c].at = "marked" /\ ask[c].phone \in Phones /\ c \notin ask[c].locks
          /\ UNCHANGED << now, inbox >>
      BY DEF Issue, Issuing
    <2>2. /\ \A d \in Asks \ {c} : ask'[d] = ask[d]
          /\ ask'[c].phone = ask[c].phone /\ ask'[c].began = ask[c].began
          /\ ask'[c].at = "sending"
      BY DEF Issue, CodeTypes, AskType
    <2>3. codes'[c].state = "live"
      BY DEF Issue, NoCode
    <2> QED
      BY <2>1, <2>2, <2>3
  <1>2. \A d \in Asks \ {c} : codes'[d].state = "none" <=> codes[d].state = "none"
    BY DEF Issue, CodeTypes, CodeType, Issuing
  <1>3. \A d \in Asks \ {c} : OnBooks(d)' <=> OnBooks(d)
    BY <1>1, <1>2 DEF OnBooks
  <1>4. Posted'
    BY <1>1, <1>2, <1>3 DEF Posting, Posted, CodeTypes, Holding
  <1>5. \A p, t : InWindow(p, t)' \subseteq InWindow(p, t) \cup {c}
    BY <1>1, <1>3 DEF InWindow
  <1>6. \A p, t : ~LetIn(c, p, t) => InWindow(p, t)' \subseteq InWindow(p, t)
    BY <1>1, <1>3 DEF InWindow, LetIn
  <1>7. Bounded'
    <2> SUFFICES ASSUME NEW p \in Phones, NEW t \in Nat
                 PROVE  /\ Cardinality(InWindow(p, t)') <= Quota
                        /\ \A d \in Asks : LetIn(d, p, t)' => Cardinality(InWindow(p, t)') < Quota
      BY DEF Bounded
    <2>1. \A d \in Asks : LetIn(d, p, t)' => d # c /\ LetIn(d, p, t) /\ ~LetIn(c, p, t)
      BY <1>1 DEF LetIn, Issuing, Holding
    <2>2. CASE LetIn(c, p, t)
      <3>1. Cardinality(InWindow(p, t)) < Quota /\ IsFiniteSet(InWindow(p, t))
            /\ Cardinality(InWindow(p, t)) \in Nat
        BY <2>2, Windows DEF Posting, Bounded
      <3>2. /\ Cardinality(InWindow(p, t)') <= Cardinality(InWindow(p, t)) + 1
            /\ Cardinality(InWindow(p, t)') \in Nat
        BY <1>5, <3>1, OneMore
      <3> QED
        BY <2>1, <2>2, <3>1, <3>2, Consts
    <2>3. CASE ~LetIn(c, p, t)
      <3>1. /\ Cardinality(InWindow(p, t)') <= Cardinality(InWindow(p, t))
            /\ Cardinality(InWindow(p, t)') \in Nat /\ Cardinality(InWindow(p, t)) \in Nat
        BY <1>6, <2>3, Windows, FS_Subset, FS_CardinalityType
      <3> QED
        BY <2>1, <3>1, Consts DEF Posting, Bounded
    <2> QED
      BY <2>2, <2>3
  <1> QED
    BY <1>4, <1>7 DEF Posting

\* Rows go, guesses are counted, time passes, the server restarts.
LEMMA RestPosting ==
    ASSUME CInv, Posting,
           \/ Purge \/ Elsewhere \/ Tick \/ Restart
           \/ \E v \in Checks : Miss(v) \/ Expire(v) \/ Consume(v)
           \/ UNCHANGED << now, codes, inbox, ask >>
    PROVE  Posting'
  <1> USE DEF CInv, codeVars
  <1>1. CASE Purge
    <2>1. Withers
      BY <1>1, PurgeCodes
    <2>2. \A d \in Asks : codes'[d].state = "none" =>
              codes[d].state = "none" \/ ask[d].began < now - Retention
      BY <1>1 DEF Purge, TooOld, Issuing, CodeTypes
    <2>3. Fewer
      BY <2>1 DEF Withers, Fewer, OnBooks
    <2>4. Bounded'
      BY <2>1, <2>3, FewerBounded DEF Withers, Posting
    <2>5. Posted'
      BY <2>1, <2>2, <2>3 DEF Withers, Fewer, Posting, Posted
    <2> QED
      BY <2>4, <2>5 DEF Posting
  <1>2. CASE Elsewhere \/ UNCHANGED << now, codes, inbox, ask >>
    <2>1. UNCHANGED << now, codes, inbox, ask >>
      BY <1>2 DEF Elsewhere
    <2>2. \A d \in Asks : OnBooks(d)' <=> OnBooks(d)
      BY <2>1 DEF OnBooks
    <2>3. Bounded'
      BY <2>1, <2>2, FewerBounded DEF Fewer, Posting
    <2>4. Posted'
      BY <2>1, <2>2 DEF Posting, Posted
    <2> QED
      BY <2>3, <2>4 DEF Posting
  <1>3. CASE Tick
    <2>1. UNCHANGED << codes, inbox, ask >> /\ now' = now + 1
          /\ \A c \in Asks : ask[c].at \in {"waiting"} \cup Holding => now - ask[c].began < MaxWait
      BY <1>3 DEF Tick, Holding
    <2>2. \A d \in Asks : OnBooks(d)' <=> OnBooks(d)
      BY <2>1 DEF OnBooks
    <2>3. Bounded'
      BY <2>1, <2>2, FewerBounded DEF Fewer, Posting
    <2>4. Posted'
      <3>1. \A d \in Asks : ask[d].began \in Nat /\ now \in Nat
        BY DEF CodeTypes, AskType
      <3> QED
        BY <2>1, <2>2, <3>1, Consts DEF Posting, Posted
    <2> QED
      BY <2>3, <2>4 DEF Posting
  <1>4. CASE Restart
    <2>1. PICK S \in SUBSET {c \in Asks : ask[c].at = "sending"} :
              inbox' = inbox \cup {Message(c) : c \in S}
      BY <1>4, Restarted
    <2>2. Fewer
      BY <1>4, <2>1, Restarted DEF Fewer, OnBooks, Message
    <2>3. Bounded'
      BY <1>4, <2>2, FewerBounded, Restarted DEF Posting
    <2>4. \A m \in inbox' : m.at = ask'[m.code].began /\ ask'[m.code].at \in {"sent", "dead"}
      <3>1. \A m \in inbox : m.code \in Asks
        BY DEF CodeTypes
      <3> QED
        BY <1>4, <2>1, <3>1, Restarted DEF Posting, Posted, Message
    <2>5. Posted'
      BY <1>4, <2>2, <2>4, Restarted DEF Fewer, Posting, Posted, Holding
    <2> QED
      BY <2>3, <2>5 DEF Posting
  <1>5. CASE \E v \in Checks : Miss(v) \/ Expire(v) \/ Consume(v)
    <2>1. Withers
      BY <1>5, CheckCodes
    <2>2. \A d \in Asks : codes[d].state # "none" => codes'[d].state # "none"
      <3>1. PICK v \in Checks : Miss(v) \/ Expire(v) \/ Consume(v)
        BY <1>5
      <3> DEFINE c == check[v].code
      <3>2. \/ UNCHANGED codes
            \/ codes' = [codes EXCEPT ![c].attempts = codes[c].attempts + 1]
            \/ codes' = [codes EXCEPT ![c].state = "invalidated"]
            \/ codes' = [codes EXCEPT ![c].state = "consumed"]
        BY <3>1 DEF Miss, Expire, Consume
      <3> HIDE DEF c
      <3> QED
        BY <3>2 DEF CodeTypes, CodeType
    <2>3. Fewer
      BY <2>1 DEF Withers, Fewer, OnBooks
    <2>4. Bounded'
      BY <2>1, <2>3, FewerBounded DEF Withers, Posting
    <2>5. Posted'
      BY <2>1, <2>2, <2>3 DEF Withers, Fewer, Posting, Posted
    <2> QED
      BY <2>4, <2>5 DEF Posting
  <1> QED
    BY <1>1, <1>2, <1>3, <1>4, <1>5

-----------------------------------------------------------------------------
(* Accounts: what each step does to them.                                  *)

LEMMA Appended ==
    ASSUME accounts \in Seq(AccountType), NEW a \in AccountType, accounts' = Append(accounts, a)
    PROVE  /\ accounts' \in Seq(AccountType) /\ Len(accounts') \in Nat
           /\ DOMAIN accounts' = DOMAIN accounts \cup {Len(accounts')}
           /\ Len(accounts') \notin DOMAIN accounts
           /\ \A i \in DOMAIN accounts : accounts'[i] = accounts[i]
           /\ accounts'[Len(accounts')] = a
  BY AppendProperties

LEMMA Updated ==
    ASSUME accounts \in Seq(AccountType), NEW i \in DOMAIN accounts, NEW a \in AccountType,
           accounts' = [accounts EXCEPT ![i] = a]
    PROVE  /\ accounts' \in Seq(AccountType) /\ DOMAIN accounts' = DOMAIN accounts
           /\ \A j \in DOMAIN accounts \ {i} : accounts'[j] = accounts[j]
           /\ accounts'[i] = a
  OBVIOUS

LEMMA InitAccounts == Init => AccountTypes
  <1> SUFFICES ASSUME Init PROVE AccountTypes
    OBVIOUS
  <1>1. PICK old \in OldAccounts :
            accounts = [i \in DOMAIN old |-> [Account(None, old[i]) EXCEPT !.bonus = TRUE]]
    BY DEF Init
  <1>2. old \in Seq(Phones)
    BY SignInConstants
  <1>3. \A p \in Phones : [Account(None, p) EXCEPT !.bonus = TRUE] \in AccountType
    BY DEF Account, AccountType
  <1>4. accounts \in Seq(AccountType)
    <2>1. \A i \in DOMAIN old : old[i] \in Phones
      BY <1>2
    <2>2. \A i \in DOMAIN old : [Account(None, old[i]) EXCEPT !.bonus = TRUE] \in AccountType
      BY <1>3, <2>1
    <2>3. DOMAIN old = 1 .. Len(old) /\ Len(old) \in Nat
      BY <1>2
    <2> QED
      BY <1>1, <2>2, <2>3
  <1> QED
    BY <1>4 DEF Init, AccountTypes, NoForm, NoCheck, Chosen

\* One account changes, and no open account changes hands: what is known of the others,
\* and of the accounts of other numbers, stays.
Owns(i, p) ==
    /\ Open(i)
    /\ accounts[i].number = p \/ (accounts[i].number = None /\ accounts[i].typed = p)

Keeps ==
    /\ accounts' \in Seq(AccountType) /\ DOMAIN accounts \subseteq DOMAIN accounts'
    /\ \A i \in DOMAIN accounts :
          /\ accounts[i].closed => accounts'[i].closed
          /\ \A p \in Phones : /\ Owns(i, p)' => Owns(i, p)
                               /\ Owns(i, p) => Owns(i, p)' \/ accounts'[i].closed
                               /\ i \in Typed(p)' => i \in Typed(p)

\* A step that does not find an account for a request.
Follows ==
    \A v \in Checks : check'[v].at \in Chosen \cup {"create"} =>
        /\ check'[v].at \in Chosen => check[v].at \in Chosen
        /\ check'[v].at = "create" => check[v].at = "create"
        /\ check'[v].account = check[v].account /\ check'[v].code = check[v].code

\* The bonus, the wish to close and the flags do not say who owns an account.
LEMMA KeepsOne ==
    ASSUME AccountTypes, NEW i \in DOMAIN accounts, NEW a \in AccountType,
           accounts' = [accounts EXCEPT ![i] = a],
           accounts[i].closed => a.closed,
           \/ a.closed
           \/ a.number = accounts[i].number /\ a.typed = accounts[i].typed
           \/ accounts[i].number \in Phones /\ a.number = accounts[i].number
           \/ /\ accounts[i].number = None /\ accounts[i].typed \in Phones
              /\ a.number = accounts[i].typed
    PROVE  Keeps /\ DOMAIN accounts' = DOMAIN accounts
  <1>1. /\ accounts' \in Seq(AccountType) /\ DOMAIN accounts' = DOMAIN accounts
        /\ \A j \in DOMAIN accounts \ {i} : accounts'[j] = accounts[j]
        /\ accounts'[i] = a
    BY Updated DEF AccountTypes
  <1>2. accounts[i] \in AccountType
    BY DEF AccountTypes
  <1> QED
    BY <1>1, <1>2, Consts DEF Keeps, Owns, Open, Typed, AccountType

\* What a request knows of the account it has found, and a session of its own: who has
\* proven the number is with an owner of it, unless the account has been closed since.
Owned(i, p) == accounts[i].closed \/ Owns(i, p)

Belonging ==
    /\ \A v \in Checks : check[v].at \in Chosen => Owned(check[v].account, Number(v))
    /\ \A s \in sessions : s.code # None =>
          ask[s.code].at = "sent" /\ Owned(s.account, ask[s.code].phone)

\* Where nobody typed a number that another account has, the owner is one.
Owning ==
    /\ Belonging
    /\ \A p \in Phones : \A i, j \in DOMAIN accounts : Owns(i, p) /\ Owns(j, p) => i = j
    /\ \A v \in Checks : check[v].at = "create" => Typed(Number(v)) = {}

Stays == (Belonging => Belonging') /\ (Owning => Owning')

\* A step after which every account is whose it was, and no request has found one.
Quiet ==
    /\ Keeps /\ DOMAIN accounts' = DOMAIN accounts /\ Follows
    /\ sessions' \subseteq sessions /\ check' \in [Checks -> CheckType]
    /\ \A c \in Asks : ask[c].at = "sent" =>
          ask'[c].at = "sent" /\ ask'[c].phone = ask[c].phone

LEMMA QuietOwning ==
    ASSUME CInv, AccountTypes, Belonging, Quiet PROVE Belonging' /\ (Owning => Owning')
  <1>1. \A v \in Checks : check'[v].at \in Chosen \cup {"create"} =>
            Number(v)' = Number(v) /\ Number(v) \in Phones
    BY DEF Quiet, Follows, CInv, Proving, Issuing, Number, Chosen
  <1>2. \A i \in DOMAIN accounts, p \in Phones : Owned(i, p) => Owned(i, p)'
    BY DEF Quiet, Keeps, Owned
  <1>3. Owning => \A p \in Phones : \A i, j \in DOMAIN accounts' :
            Owns(i, p)' /\ Owns(j, p)' => i = j
    BY DEF Quiet, Keeps, Owning
  <1>4. ASSUME NEW v \in Checks
        PROVE  /\ check'[v].at \in Chosen => Owned(check[v].account, Number(v))'
               /\ Owning /\ check'[v].at = "create" => Typed(Number(v))' = {}
    <2>1. CASE check'[v].at \in Chosen
      <3>1. /\ check[v].account \in DOMAIN accounts /\ check'[v].account = check[v].account
            /\ Owned(check[v].account, Number(v)) /\ Number(v)' = Number(v) /\ Number(v) \in Phones
        BY <1>1, <2>1 DEF Quiet, Follows, Belonging, AccountTypes
      <3>2. PICK i \in DOMAIN accounts, p \in Phones : i = check[v].account /\ p = Number(v)
        BY <3>1
      <3>3. Owned(i, p)'
        BY <1>2, <3>1, <3>2
      <3> QED
        BY <2>1, <3>1, <3>2, <3>3 DEF Chosen, Owned, Owns, Open
    <2>2. CASE check'[v].at = "create"
      <3>1. (Owning => Typed(Number(v)) = {}) /\ Number(v)' = Number(v) /\ Number(v) \in Phones
        BY <1>1, <2>2 DEF Quiet, Follows, Owning
      <3>2. PICK p \in Phones : p = Number(v)
        BY <3>1
      <3>3. Typed(p)' \subseteq Typed(p)
        BY DEF Quiet, Keeps, Typed
      <3> QED
        BY <2>2, <3>1, <3>2, <3>3 DEF Chosen, Typed, Open
    <2> QED
      BY <2>1, <2>2
  <1>5. ASSUME NEW s \in sessions', s.code # None
        PROVE  ask'[s.code].at = "sent" /\ Owned(s.account, ask[s.code].phone)'
    <2>1. /\ s \in sessions /\ s.code \in Asks /\ s.account \in DOMAIN accounts
          /\ ask[s.code].at = "sent" /\ ask[s.code].phone \in Phones
          /\ Owned(s.account, ask[s.code].phone)
      BY <1>5 DEF Quiet, AccountTypes, Belonging, CInv, Issuing
    <2>2. ask'[s.code].at = "sent" /\ ask'[s.code].phone = ask[s.code].phone
      BY <2>1 DEF Quiet
    <2>3. PICK p \in Phones : p = ask[s.code].phone
      BY <2>1
    <2>4. Owned(s.account, p)'
      BY <1>2, <2>1, <2>3
    <2> QED
      BY <2>2, <2>3, <2>4 DEF Owned, Owns, Open
  <1>6. Belonging'
    BY <1>4, <1>5 DEF Belonging
  <1> QED
    BY <1>3, <1>4, <1>6 DEF Owning

\* A request finds its account, or goes on without having found one.
LEMMA Finds ==
    ASSUME CInv, AccountTypes, NEW v \in Checks,
           UNCHANGED << accounts, sessions, form, due, ask >>,
           check' \in [Checks -> CheckType], \A w \in Checks \ {v} : check'[w] = check[w],
           check'[v].code = check[v].code \/ check'[v].at \notin Chosen \cup {"create"},
           check'[v].at \in Chosen => /\ check'[v].account \in DOMAIN accounts
                                      /\ Belonging => Owned(check'[v].account, Number(v)),
           check'[v].at = "create" => Typed(Number(v)) = {}
    PROVE  AccountTypes' /\ Stays
  <1>1. AccountTypes'
    BY DEF AccountTypes
  <1>2. Stays
    <2>1. \A w \in Checks : w # v \/ check'[v].at \in Chosen \cup {"create"} => Number(w)' = Number(w)
      BY DEF Number
    <2>2. \A w \in Checks :
             /\ Belonging /\ check'[w].at \in Chosen => Owned(check'[w].account, Number(w))
             /\ Owning /\ check'[w].at = "create" => Typed(Number(w)) = {}
      BY DEF Owning, Belonging
    <2>3. "create" \notin Chosen
      BY DEF Chosen
    <2>4. Belonging => Belonging'
      BY <2>1, <2>2 DEF Belonging, Owned, Owns, Open
    <2>5. Owning => Owning'
      BY <2>1, <2>2, <2>3, <2>4 DEF Owning, Owned, Owns, Open, Typed
    <2> QED
      BY <2>4, <2>5 DEF Stays
  <1> QED
    BY <1>1, <1>2

\* A request writes to the account it has found.
LEMMA Rewrites ==
    ASSUME CInv, AccountTypes, NEW v \in Checks, check[v].at \in Chosen,
           NEW next \in {"touch", "session"}, Goto(v, next),
           NEW a \in AccountType, accounts' = [accounts EXCEPT ![check[v].account] = a],
           a.closed = accounts[check[v].account].closed,
           UNCHANGED << ask, sessions, form, due >>,
           Belonging =>
              \/ a.closed
              \/ /\ a.number = accounts[check[v].account].number
                 /\ \/ a.typed = accounts[check[v].account].typed
                    \/ a.number \in Phones
              \/ /\ accounts[check[v].account].number = None
                 /\ accounts[check[v].account].typed \in Phones
                 /\ a.number = accounts[check[v].account].typed
    PROVE  AccountTypes' /\ Stays
  <1>1. PICK i \in DOMAIN accounts : i = check[v].account
    BY DEF AccountTypes
  <1>2. /\ check' \in [Checks -> CheckType] /\ \A w \in Checks \ {v} : check'[w] = check[w]
        /\ check'[v].at = next /\ check'[v].code = check[v].code
        /\ check'[v].account = check[v].account
    BY Goes DEF CInv, CheckSteps
  <1>3. accounts' \in Seq(AccountType) /\ DOMAIN accounts' = DOMAIN accounts
    BY <1>1, Updated DEF AccountTypes
  <1>4. AccountTypes'
    BY <1>2, <1>3 DEF AccountTypes
  <1>5. ASSUME Belonging PROVE Belonging' /\ (Owning => Owning')
    <2>1. Keeps
      BY <1>1, <1>5, KeepsOne
    <2>2. Follows
      BY <1>2 DEF Follows, Chosen
    <2> QED
      BY <1>2, <1>3, <1>5, <2>1, <2>2, QuietOwning DEF Quiet
  <1> QED
    BY <1>4, <1>5 DEF Stays, Owning

LEMMA SigningAccounts ==
    ASSUME CInv, AccountTypes, NEW v \in Checks, SigningIn(v)
    PROVE  AccountTypes' /\ Stays
  <1> USE DEF codeVars, sweepVars
  <1>0. /\ Successful(v) /\ check' \in [Checks -> CheckType]
        /\ \A w \in Checks \ {v} : check'[w] = check[w]
        /\ check'[v].code = check[v].code
        /\ UNCHANGED ask
    BY SignsOn DEF CInv
  <1>a. CodeTypes /\ Number(v) \in Phones
    BY <1>0 DEF CInv, Proving, Issuing, Number, Successful
  <1>b. check[v] \in CheckType /\ DOMAIN accounts \subseteq Nat
    BY <1>a DEF CodeTypes, AccountTypes
  <1>1. CASE FindExact(v)
    <2>1. UNCHANGED << accounts, sessions, form, due, ask >>
      BY <1>1 DEF FindExact, accountVars
    <2>2. CASE Holders(Number(v)) = {}
      <3>1. check'[v].at = "legacy"
        BY <1>1, <2>2, <1>a, Goes DEF FindExact, CheckSteps
      <3> QED
        BY <1>0, <2>1, <3>1, Finds DEF Chosen
    <2>3. CASE Holders(Number(v)) # {}
      <3>1. PICK i \in Holders(Number(v)) :
               check' = [check EXCEPT ![v].account = i,
                                      ![v].at = IF check[v].again THEN "session" ELSE "touch"]
        BY <1>1, <2>3 DEF FindExact
      <3>2. PICK at \in {"session", "touch"} : check' = [check EXCEPT ![v].account = i, ![v].at = at]
        BY <3>1
      <3>3. check'[v].at \in {"session", "touch"} /\ check'[v].account = i
        BY <1>a, <3>2 DEF CodeTypes, CheckType
      <3>4. i \in DOMAIN accounts /\ Owned(i, Number(v))
        BY DEF Holders, Owned, Owns
      <3> QED
        BY <1>0, <2>1, <3>3, <3>4, Finds
    <2> QED
      BY <2>2, <2>3
  <1>2. CASE FindLegacy(v)
    <2>1. UNCHANGED << accounts, sessions, form, due, ask >>
      BY <1>2 DEF FindLegacy, accountVars
    <2>2. CASE Typed(Number(v)) = {}
      <3>1. Goto(v, "error") \/ Goto(v, "create")
        BY <1>2, <2>2 DEF FindLegacy
      <3>2. check'[v].at \in {"error", "create"}
        BY <1>a, <3>1, Goes DEF CheckSteps
      <3> QED
        BY <1>0, <2>1, <2>2, <3>2, Finds DEF Chosen
    <2>3. CASE Typed(Number(v)) # {}
      <3> DEFINE i == Oldest(Typed(Number(v)))
      <3>1. i \in Typed(Number(v))
        <4>1. Typed(Number(v)) \in SUBSET Nat
          BY <1>b DEF Typed
        <4>2. \E j \in Typed(Number(v)) : \A k \in Typed(Number(v)) : j <= k
          BY <2>3, <4>1, LeastNumber
        <4> QED
          BY <4>1, <4>2 DEF Oldest
      <3>2. PICK at \in {"session", "claim"} : check' = [check EXCEPT ![v].account = i, ![v].at = at]
        BY <1>2, <2>3 DEF FindLegacy
      <3>3. i \in DOMAIN accounts /\ Owned(i, Number(v))
        BY <3>1 DEF Typed, Owned, Owns
      <3> HIDE DEF i
      <3>4. check'[v].at \in {"session", "claim"} /\ check'[v].account = i
        BY <1>a, <3>2 DEF CodeTypes, CheckType
      <3> QED
        BY <1>0, <2>1, <3>3, <3>4, Finds
    <2> QED
      BY <2>2, <2>3
  <1>c. ASSUME check[v].at \in Chosen
        PROVE  /\ check[v].account \in DOMAIN accounts
               /\ accounts[check[v].account] \in AccountType
               /\ accounts = [accounts EXCEPT ![check[v].account] = accounts[check[v].account]]
    BY <1>c DEF AccountTypes
  <1>d. ASSUME NEW b \in AccountType
        PROVE  /\ [b EXCEPT !.number = Number(v)] \in AccountType
               /\ [b EXCEPT !.typed = Number(v)] \in AccountType
               /\ [b EXCEPT !.bonus = TRUE] \in AccountType
    BY <1>a DEF AccountType
  <1>e. /\ "touch" \in {"touch", "session"} /\ "session" \in {"touch", "session"}
        /\ {"claim", "touch", "bonus", "session"} \subseteq Chosen
    BY DEF Chosen
  <1>3. CASE Claim(v)
    <2>1. /\ check[v].at \in Chosen /\ Goto(v, "touch") /\ UNCHANGED << ask, sessions, form, due >>
      BY <1>3, <1>e DEF Claim
    <2>2. PICK i \in DOMAIN accounts : i = check[v].account
      BY <1>c, <2>1
    <2>3. CASE /\ accounts[i].number = None
               /\ accounts' = [accounts EXCEPT ![i].number = Number(v)]
      <3> DEFINE a == [accounts[i] EXCEPT !.number = Number(v)]
      <3>1. a \in AccountType /\ a.closed = accounts[i].closed /\ a.number = Number(v)
        BY <1>c, <1>d, <2>1, <2>2 DEF AccountType
      <3>2. accounts' = [accounts EXCEPT ![i] = a]
        BY <2>3, <1>c, <2>1, <2>2 DEF AccountType
      <3>3. Belonging =>
               \/ a.closed
               \/ /\ accounts[i].typed \in Phones /\ a.number = accounts[i].typed
        BY <1>a, <2>1, <2>2, <2>3, <3>1, Consts DEF Belonging, Owned, Owns
      <3> HIDE DEF a
      <3> QED
        BY <1>e, <2>1, <2>2, <2>3, <3>1, <3>2, <3>3, Rewrites
    <2>4. CASE UNCHANGED accounts
      BY <1>c, <1>e, <2>1, <2>4, Rewrites
    <2> QED
      BY <1>3, <2>2, <2>3, <2>4 DEF Claim
  <1>4. CASE Touch(v)
    <2>1. /\ check[v].at \in Chosen /\ Goto(v, "session") /\ UNCHANGED << ask, sessions, form, due >>
      BY <1>4, <1>e DEF Touch
    <2>2. PICK i \in DOMAIN accounts : i = check[v].account
      BY <1>c, <2>1
    <2>3. CASE /\ accounts[i].typed = None
               /\ accounts' = [accounts EXCEPT ![i].typed = Number(v)]
      <3> DEFINE a == [accounts[i] EXCEPT !.typed = Number(v)]
      <3>1. /\ a \in AccountType /\ a.closed = accounts[i].closed
            /\ a.number = accounts[i].number
        BY <1>c, <1>d, <2>1, <2>2 DEF AccountType
      <3>2. accounts' = [accounts EXCEPT ![i] = a]
        BY <2>3, <1>c, <2>1, <2>2 DEF AccountType
      <3>3. Belonging => a.closed \/ a.number \in Phones
        BY <1>a, <2>1, <2>2, <2>3, <3>1, Consts DEF Belonging, Owned, Owns
      <3> HIDE DEF a
      <3> QED
        BY <1>e, <2>1, <2>2, <2>3, <3>1, <3>2, <3>3, Rewrites
    <2>4. CASE UNCHANGED accounts
      BY <1>c, <1>e, <2>1, <2>4, Rewrites
    <2> QED
      BY <1>4, <2>2, <2>3, <2>4 DEF Touch
  <1>5. CASE GrantBonus(v)
    <2>1. /\ check[v].at \in Chosen /\ Goto(v, "session") /\ UNCHANGED << ask, sessions, form, due >>
      BY <1>5, <1>e DEF GrantBonus
    <2>2. PICK i \in DOMAIN accounts : i = check[v].account
      BY <1>c, <2>1
    <2> DEFINE a == [accounts[i] EXCEPT !.bonus = TRUE]
    <2>3. /\ a \in AccountType /\ a.closed = accounts[i].closed
          /\ a.number = accounts[i].number /\ a.typed = accounts[i].typed
      BY <1>c, <1>d, <2>1, <2>2 DEF AccountType
    <2>4. accounts' = [accounts EXCEPT ![i] = a]
      BY <1>5, <1>c, <2>1, <2>2 DEF GrantBonus, Welcome, AccountType
    <2> HIDE DEF a
    <2> QED
      BY <1>e, <2>1, <2>2, <2>3, <2>4, Rewrites
  <1>6. CASE Create(v)
    <2>1. CASE NumberTaken(Number(v))
      <3>1. /\ UNCHANGED << accounts, sessions, form, due, ask >> /\ check'[v].at = "exact"
        BY <1>6, <2>1, <1>a DEF Create, CodeTypes, CheckType
      <3> QED
        BY <1>0, <3>1, Finds DEF Chosen
    <2>2. CASE ~NumberTaken(Number(v))
      <3>0. PICK p \in Phones : p = Number(v)
        BY <1>a
      <3> DEFINE a == Account(p, p)
      <3>1. a \in AccountType /\ a.number = p /\ ~a.closed
        BY DEF Account, AccountType
      <3>2. /\ accounts' = Append(accounts, a) /\ check[v].at = "create"
            /\ check' = [check EXCEPT ![v].account = Len(accounts'), ![v].at = "bonus"]
            /\ UNCHANGED << sessions, form, due >>
        BY <1>6, <2>2, <3>0 DEF Create
      <3> HIDE DEF a
      <3>3. PICK n \in Nat :
                /\ n = Len(accounts') /\ accounts' \in Seq(AccountType)
                /\ DOMAIN accounts' = DOMAIN accounts \cup {n} /\ n \notin DOMAIN accounts
                /\ \A i \in DOMAIN accounts : accounts'[i] = accounts[i]
                /\ accounts'[n] = a
        BY <3>1, <3>2, Appended DEF AccountTypes
      <3>4. check'[v].at = "bonus" /\ check'[v].account = n
        BY <1>a, <3>2, <3>3 DEF CodeTypes, CheckType
      <3>5. AccountTypes'
        BY <1>0, <3>2, <3>3, <3>4 DEF AccountTypes
      <3>6. Stays
        <4>1. \A i \in DOMAIN accounts : \A q : Owns(i, q)' <=> Owns(i, q)
          BY <3>3 DEF Owns, Open
        <4>2. \A q \in Phones : Owns(n, q)' <=> q = p
          BY <3>1, <3>3, Consts DEF Owns, Open
        <4>3. \A q : Typed(q)' = Typed(q)
          BY <3>1, <3>3, Consts DEF Open, Typed
        <4>4. Owning => \A i \in DOMAIN accounts : ~Owns(i, p)
          <5>1. Owning => Typed(p) = {} /\ Holders(p) = {}
            BY <2>2, <3>0, <3>2 DEF Owning, NumberTaken
          <5> QED
            BY <5>1 DEF Owns, Holders, Typed
        <4>5. Owning => \A q \in Phones : \A i, j \in DOMAIN accounts' :
                  Owns(i, q)' /\ Owns(j, q)' => i = j
          BY <3>3, <4>1, <4>2, <4>4 DEF Owning
        <4>6. \A i \in DOMAIN accounts : \A q : Owned(i, q) <=> Owned(i, q)'
          BY <3>3, <4>1 DEF Owned
        <4>7. ASSUME NEW w \in Checks
              PROVE  /\ Belonging /\ check'[w].at \in Chosen =>
                            Owned(check[w].account, Number(w))'
                     /\ Owning /\ check'[w].at = "create" => Typed(Number(w))' = {}
          <5>1. CASE w = v
            <6>1. Number(v)' = p
              BY <1>0, <3>0 DEF Number
            <6> QED
              BY <3>3, <3>4, <4>2, <5>1, <6>1 DEF Owned
          <5>2. CASE w # v
            <6>1. check'[w] = check[w] /\ Number(w)' = Number(w)
              BY <1>0, <5>2 DEF Number
            <6>2. Belonging /\ check[w].at \in Chosen =>
                     check[w].account \in DOMAIN accounts /\ Owned(check[w].account, Number(w))
              BY DEF AccountTypes, Belonging
            <6>3. Owning /\ check[w].at = "create" => Typed(Number(w)) = {}
              BY DEF Owning
            <6>4. Owning /\ check[w].at = "create" => Typed(Number(w))' = {}
              BY <4>3, <6>1, <6>3
            <6>5. Belonging /\ check[w].at \in Chosen => Owned(check[w].account, Number(w))'
              BY <4>6, <6>1, <6>2
            <6> QED
              BY <6>1, <6>4, <6>5
          <5> QED
            BY <5>1, <5>2
        <4>8. Belonging => \A s \in sessions : s.code # None =>
                 ask'[s.code].at = "sent" /\ Owned(s.account, ask[s.code].phone)'
          BY <1>0, <4>6 DEF Belonging, AccountTypes
        <4>9. Belonging => Belonging'
          BY <3>2, <4>7, <4>8 DEF Belonging
        <4> QED
          BY <4>5, <4>7, <4>9 DEF Stays, Owning
      <3> QED
        BY <3>5, <3>6
    <2> QED
      BY <2>1, <2>2
  <1>7. CASE OpenSession(v)
    <2>1. PICK s : /\ s = [by |-> v, code |-> check[v].code, account |-> check[v].account]
                   /\ sessions' = sessions \cup {s}
      BY <1>7 DEF OpenSession
    <2>2. /\ check[v].at = "session" /\ check[v].at \in Chosen /\ check'[v].at = "signedIn"
          /\ check'[v].account = check[v].account
          /\ UNCHANGED << accounts, form, due >>
      BY <1>7, <1>a, Goes DEF OpenSession, Chosen, CheckSteps
    <2>3. /\ check[v].code \in Asks /\ ask[check[v].code].at = "sent"
          /\ check[v].account \in DOMAIN accounts
      BY <2>2 DEF CInv, Proving, AccountTypes
    <2>4. AccountTypes'
      BY <1>0, <2>1, <2>2, <2>3 DEF AccountTypes
    <2>5. ASSUME Belonging PROVE Belonging' /\ (Owning => Owning')
      <3>1. \A w \in Checks : Number(w)' = Number(w) /\ check'[w].account = check[w].account
        BY <1>0, <2>2 DEF Number
      <3>2. \A i, p : (Owns(i, p)' <=> Owns(i, p)) /\ (Owned(i, p)' <=> Owned(i, p))
        BY <2>2 DEF Owns, Open, Owned
      <3>3. \A p : Typed(p)' = Typed(p)
        BY <2>2 DEF Typed, Open
      <3>4. ask[s.code].at = "sent" /\ Owned(s.account, ask[s.code].phone)
        BY <2>1, <2>2, <2>3, <2>5 DEF Belonging, Number
      <3>5. \A r \in sessions' : r.code # None =>
               ask'[r.code].at = "sent" /\ Owned(r.account, ask[r.code].phone)'
        BY <1>0, <2>1, <2>5, <3>2, <3>4 DEF Belonging
      <3>6. \A w \in Checks :
               /\ check'[w].at \in Chosen => Owned(check[w].account, Number(w))
               /\ Owning /\ check'[w].at = "create" => Typed(Number(w)) = {}
        BY <1>0, <2>2, <2>5 DEF Owning, Belonging, Chosen
      <3>7. \A w \in Checks :
               /\ check'[w].at \in Chosen => Owned(check[w].account, Number(w))'
               /\ Owning /\ check'[w].at = "create" => Typed(Number(w))' = {}
        BY <3>1, <3>2, <3>3, <3>6
      <3>8. Belonging'
        BY <3>1, <3>5, <3>7 DEF Belonging
      <3> QED
        BY <2>2, <3>2, <3>7, <3>8 DEF Owning
    <2> QED
      BY <2>4, <2>5 DEF Stays, Owning
  <1> QED
    BY <1>1, <1>2, <1>3, <1>4, <1>5, <1>6, <1>7 DEF SigningIn

\* Steps on codes and on requests for them leave the accounts to whom they belong.
LEMMA CodesAccounts ==
    ASSUME CInv, AccountTypes,
           \/ \E c \in Asks : Asking(c)
           \/ \E v \in Checks : Checking(v)
           \/ Purge \/ Tick \/ Restart \/ UNCHANGED vars
    PROVE  AccountTypes' /\ Stays
  <1> USE DEF codeVars, accountVars, sweepVars
  <1>a. ASSUME Quiet, UNCHANGED form /\ UNCHANGED due
        PROVE  AccountTypes' /\ Stays
    BY <1>a, QuietOwning DEF Stays, Owning, AccountTypes, Quiet, Keeps, Follows, Chosen
  <1>b. UNCHANGED << accounts >> => Keeps /\ DOMAIN accounts' = DOMAIN accounts
    BY DEF Keeps, AccountTypes, Owns, Open, Typed
  <1>1. CASE \E c \in Asks : Asking(c)
    <2>1. PICK c \in Asks : Asking(c)
      BY <1>1
    <2>2. UNCHANGED << accounts, sessions, check, form, due >>
      BY <2>1 DEF Asking, AskIp, LockPhone, MayIssue, Supersede, Issue, Sent, NotSent, Retire
    <2>3. ask[c].at # "sent" /\ \A d \in Asks \ {c} : ask'[d] = ask[d]
      BY <2>1 DEF Asking, AskIp, LockPhone, MayIssue, Supersede, Issue, Sent, NotSent, Retire,
         CInv, CodeTypes
    <2> QED
      BY <1>a, <1>b, <2>2, <2>3 DEF Quiet, Follows, CInv, CodeTypes
  <1>2. CASE \E v \in Checks : Checking(v)
    <2>1. PICK v \in Checks : Checking(v)
      BY <1>2
    <2>2. UNCHANGED << accounts, sessions, ask, form, due >>
      BY <2>1 DEF Checking, Submit, Miss, Expire, Consume
    <2>3. /\ check' \in [Checks -> CheckType] /\ \A w \in Checks \ {v} : check'[w] = check[w]
          /\ check'[v].at \notin Chosen \cup {"create"}
      <3>1. CASE \E next \in {"expire", "rejected", "exact"} : Goto(v, next)
        BY <3>1, Goes DEF CInv, CheckSteps, Chosen
      <3>2. CASE \E c \in Asks, right \in BOOLEAN : Submit(v, c, right)
        <4>1. PICK c \in Asks, right \in BOOLEAN :
                 check' = [check EXCEPT ![v] =
                    [NoCheck EXCEPT !.code = c, !.right = right, !.at = Verdict(c, right)]]
          BY <3>2 DEF Submit
        <4>2. Verdict(c, right) \in {"rejected", "expire", "consume", "miss"}
          BY DEF Verdict
        <4>3. PICK at \in {"rejected", "expire", "consume", "miss"} : at = Verdict(c, right)
          BY <4>2
        <4>4. check' = [check EXCEPT ![v] = [NoCheck EXCEPT !.code = c, !.right = right, !.at = at]]
          BY <4>1, <4>3
        <4> QED
          BY <4>4 DEF CInv, CodeTypes, CheckType, CheckSteps, NoCheck, Chosen
      <3> QED
        BY <2>1, <3>1, <3>2 DEF Checking, Miss, Expire, Consume
    <2> QED
      BY <1>a, <1>b, <2>2, <2>3 DEF Quiet, Follows
  <1>3. CASE Purge \/ Tick \/ UNCHANGED vars
    BY <1>a, <1>b, <1>3 DEF Purge, Tick, vars, Quiet, Follows, CInv, CodeTypes
  <1>4. CASE Restart
    <2>1. UNCHANGED << accounts, sessions >> /\ due' = {}
      BY <1>4 DEF Restart
    <2>2. /\ form' \in [Forms -> [at : {"new", "bonus", "session", "done", "dead"}, account : Nat]]
          /\ \A f \in Forms : form'[f].at \notin {"bonus", "session"}
      <3>1. form' = [f \in Forms |-> [form[f] EXCEPT !.at =
                        IF form[f].at \in {"new", "sent", "refused", "failed", "signedIn",
                                           "rejected", "error", "done"}
                        THEN form[f].at ELSE "dead"]]
        BY <1>4 DEF Restart
      <3> QED
        BY <3>1 DEF AccountTypes
    <2>3. Follows
      BY <1>4, Restarted DEF Follows, CInv, Chosen
    <2>4. /\ Quiet /\ \A v \in Checks : check'[v].at \in Chosen =>
                            check[v].at \in Chosen /\ check'[v].account = check[v].account
      BY <1>4, <1>b, <2>1, <2>3, Restarted DEF Quiet, Follows, CInv
    <2>5. AccountTypes'
      BY <2>1, <2>2, <2>4 DEF AccountTypes
    <2> QED
      BY <2>4, <2>5, QuietOwning DEF Stays, Owning
  <1> QED
    BY <1>1, <1>2, <1>3, <1>4

\* Deletion, and what follows a registration.
LEMMA ClosingAccounts ==
    ASSUME CInv, AccountTypes,
           \/ Closing
           \/ \E f \in Forms : WelcomeRegistered(f) \/ OpenRegistered(f)
    PROVE  AccountTypes' /\ Stays
  <1> USE DEF codeVars, accountVars, sweepVars
  <1>a. \A i \in DOMAIN accounts : accounts[i] \in AccountType
    BY DEF AccountTypes
  <1>b. UNCHANGED << ask, check >>
    BY DEF Closing, AskDeletion, CancelDeletion, SelectDue, Close, DropSessions,
       WelcomeRegistered, OpenRegistered
  <1>c. ASSUME Keeps, DOMAIN accounts' = DOMAIN accounts, sessions' \subseteq sessions
        PROVE  Quiet
    BY <1>b, <1>c DEF Quiet, Follows, CInv, CodeTypes
  <1>1. ASSUME NEW s \in sessions, AskDeletion(s) \/ CancelDeletion(s)
        PROVE  AccountTypes' /\ Stays
    <2>1. PICK i \in DOMAIN accounts, b \in BOOLEAN :
              accounts' = [accounts EXCEPT ![i].closing = b]
      BY <1>1 DEF AskDeletion, CancelDeletion, AccountTypes
    <2> DEFINE a == [accounts[i] EXCEPT !.closing = b]
    <2>2. /\ a \in AccountType /\ a.closed = accounts[i].closed
          /\ a.number = accounts[i].number /\ a.typed = accounts[i].typed
          /\ accounts' = [accounts EXCEPT ![i] = a]
      BY <1>a, <2>1 DEF AccountType
    <2> HIDE DEF a
    <2>3. Keeps /\ DOMAIN accounts' = DOMAIN accounts
      BY <2>2, KeepsOne
    <2>4. UNCHANGED << sessions, form, due >>
      BY <1>1 DEF AskDeletion, CancelDeletion
    <2>5. AccountTypes'
      BY <1>b, <2>3, <2>4 DEF AccountTypes, Keeps
    <2> QED
      BY <1>c, <2>3, <2>4, <2>5, QuietOwning DEF Stays, Owning
  <1>2. CASE SelectDue
    <2>1. UNCHANGED << accounts, sessions, form >> /\ due' \subseteq DOMAIN accounts
      BY <1>2 DEF SelectDue
    <2>2. Keeps
      BY <2>1 DEF Keeps, AccountTypes, Owns, Open, Typed
    <2>3. AccountTypes'
      BY <1>b, <2>1 DEF AccountTypes
    <2> QED
      BY <1>c, <2>1, <2>2, <2>3, QuietOwning DEF Stays, Owning
  <1>3. ASSUME NEW i \in due, Close(i) PROVE AccountTypes' /\ Stays
    <2>1. i \in DOMAIN accounts
      BY DEF AccountTypes
    <2> DEFINE a == [accounts[i] EXCEPT !.closed = TRUE, !.typed = None]
    <2>2. a \in AccountType /\ a.closed
      BY <1>a, <2>1 DEF AccountType
    <2>3. accounts' = [accounts EXCEPT ![i] = a]
      BY <1>3 DEF Close
    <2> HIDE DEF a
    <2>4. Keeps /\ DOMAIN accounts' = DOMAIN accounts
      BY <2>1, <2>2, <2>3, KeepsOne
    <2>5. UNCHANGED form /\ due' \subseteq due /\ sessions' \subseteq sessions
      BY <1>3 DEF Close
    <2>6. AccountTypes'
      BY <1>b, <2>4, <2>5 DEF AccountTypes, Keeps
    <2> QED
      BY <1>c, <2>4, <2>5, <2>6, QuietOwning DEF Stays, Owning
  <1>4. ASSUME NEW f \in Forms, WelcomeRegistered(f)
        PROVE  AccountTypes' /\ Stays
    <2>1. PICK i \in DOMAIN accounts : i = form[f].account
      BY <1>4 DEF WelcomeRegistered, AccountTypes
    <2> DEFINE a == [accounts[i] EXCEPT !.bonus = TRUE]
    <2>2. /\ a \in AccountType /\ a.closed = accounts[i].closed
          /\ a.number = accounts[i].number /\ a.typed = accounts[i].typed
      BY <1>a DEF AccountType
    <2>3. accounts' = [accounts EXCEPT ![i] = a]
      BY <1>4, <2>1 DEF WelcomeRegistered, Welcome
    <2> HIDE DEF a
    <2>4. Keeps /\ DOMAIN accounts' = DOMAIN accounts
      BY <2>2, <2>3, KeepsOne
    <2>5. UNCHANGED << sessions, due >> /\ form' = [form EXCEPT ![f].at = "session"]
          /\ form[f].at = "bonus"
      BY <1>4 DEF WelcomeRegistered
    <2>6. AccountTypes'
      BY <1>b, <2>4, <2>5 DEF AccountTypes, Keeps
    <2> QED
      BY <1>c, <2>4, <2>5, <2>6, QuietOwning DEF Stays, Owning
  <1>5. ASSUME NEW f \in Forms, OpenRegistered(f)
        PROVE  AccountTypes' /\ Stays
    <2>1. /\ form[f].at = "session" /\ form[f].account \in DOMAIN accounts
          /\ UNCHANGED << accounts, due >> /\ form' = [form EXCEPT ![f].at = "done"]
          /\ sessions' = sessions \cup {[by |-> f, code |-> None, account |-> form[f].account]}
      BY <1>5 DEF OpenRegistered, AccountTypes
    <2>2. AccountTypes'
      BY <1>b, <2>1 DEF AccountTypes
    <2>3. \A s \in sessions' : s.code # None => s \in sessions
      BY <2>1
    <2>4. Belonging => Belonging'
      BY <1>b, <2>1, <2>3 DEF Belonging, Owned, Owns, Open, Number
    <2>5. Owning => Owning'
      BY <1>b, <2>1, <2>4 DEF Owning, Owns, Open, Typed, Number
    <2> QED
      BY <2>2, <2>4, <2>5 DEF Stays
  <1>6. CASE DropSessions
    <2>1. UNCHANGED << accounts, form, due >> /\ sessions' \subseteq sessions
      BY <1>6 DEF DropSessions
    <2>2. Keeps
      BY <2>1 DEF Keeps, AccountTypes, Owns, Open, Typed
    <2>3. AccountTypes'
      BY <1>b, <2>1 DEF AccountTypes
    <2> QED
      BY <1>c, <2>1, <2>2, <2>3, QuietOwning DEF Stays, Owning
  <1>7. CASE Closing
    <2>1. CASE \E s \in sessions : AskDeletion(s) \/ CancelDeletion(s)
      BY <1>1, <2>1
    <2>2. CASE \E i \in due : Close(i)
      BY <1>3, <2>2
    <2> QED
      BY <1>2, <1>6, <1>7, <2>1, <2>2 DEF Closing
  <1> QED
    BY <1>4, <1>5, <1>7

\* What the form brings is its own account, and no number that anybody has proven.
LEMMA RegisterAccounts ==
    ASSUME CInv, AccountTypes, NEW f \in Forms, NEW typed \in FormNumbers, Register(f, typed)
    PROVE  /\ AccountTypes' /\ (Belonging => Belonging')
           /\ Owning /\ FormNumbers \subseteq {None} => Owning'
  <1> USE DEF codeVars, accountVars, sweepVars
  <1> DEFINE a == Account(None, typed)
  <1>1. a \in AccountType /\ a.number = None /\ a.typed = typed
    BY SignInConstants DEF Account, AccountType
  <1>2. /\ accounts' = Append(accounts, a)
        /\ form' = [form EXCEPT ![f] = [at |-> "bonus", account |-> Len(accounts')]]
        /\ UNCHANGED << ask, sessions, check, due >>
    BY DEF Register
  <1> HIDE DEF a
  <1>3. PICK n \in Nat :
            /\ n = Len(accounts') /\ accounts' \in Seq(AccountType)
            /\ DOMAIN accounts' = DOMAIN accounts \cup {n} /\ n \notin DOMAIN accounts
            /\ \A i \in DOMAIN accounts : accounts'[i] = accounts[i]
            /\ accounts'[n] = a
    BY <1>1, <1>2, Appended DEF AccountTypes
  <1>4. AccountTypes'
    BY <1>2, <1>3 DEF AccountTypes
  <1>5. \A i \in DOMAIN accounts : \A p \in Phones :
            (Owns(i, p)' <=> Owns(i, p)) /\ (Owned(i, p)' <=> Owned(i, p))
    BY <1>3 DEF Owns, Open, Owned
  <1>6. \A v \in Checks : /\ Number(v)' = Number(v)
                          /\ check[v].at # "new" => Number(v) \in Phones
    BY <1>2 DEF CInv, Proving, Issuing, Number
  <1>7. ASSUME Belonging PROVE Belonging'
    <2>1. \A s \in sessions' : s.code # None =>
             ask'[s.code].at = "sent" /\ Owned(s.account, ask[s.code].phone)'
      <3> SUFFICES ASSUME NEW s \in sessions, s.code # None
                   PROVE  ask'[s.code].at = "sent" /\ Owned(s.account, ask[s.code].phone)'
        BY <1>2
      <3>1. PICK p \in Phones : p = ask[s.code].phone
        BY <1>7 DEF Belonging, AccountTypes, CInv, Issuing
      <3> QED
        BY <1>2, <1>5, <1>7, <3>1 DEF Belonging, AccountTypes
    <2>2. ASSUME NEW v \in Checks
          PROVE  check'[v].at \in Chosen => Owned(check[v].account, Number(v))'
      BY <1>2, <1>5, <1>6, <1>7 DEF Belonging, AccountTypes, Chosen
    <2> QED
      BY <1>2, <2>1, <2>2 DEF Belonging
  <1>8. ASSUME Owning, FormNumbers \subseteq {None} PROVE Owning'
    <2>1. \A p \in Phones : ~Owns(n, p)' /\ n \notin Typed(p)'
      BY <1>1, <1>3, <1>8, Consts DEF Owns, Typed
    <2>2. \A p \in Phones : Typed(p)' = Typed(p)
      BY <1>3, <2>1 DEF Typed, Open
    <2>3. \A p \in Phones : \A i, j \in DOMAIN accounts' : Owns(i, p)' /\ Owns(j, p)' => i = j
      BY <1>3, <1>5, <1>8, <2>1 DEF Owning
    <2>4. ASSUME NEW v \in Checks
          PROVE  check'[v].at = "create" => Typed(Number(v))' = {}
      BY <1>2, <1>6, <1>8, <2>2 DEF Owning
    <2> QED
      BY <1>7, <1>8, <2>3, <2>4 DEF Owning
  <1> QED
    BY <1>4, <1>7, <1>8

-----------------------------------------------------------------------------
(* The invariant, and the theorems.                                        *)

IInv == CInv /\ AccountTypes /\ Posting

LEMMA InitIInv == Init => IInv
  BY InitCodes, InitAccounts, InitPosting DEF IInv

LEMMA NextIInv == IInv /\ [Next]_vars => IInv'
  <1> SUFFICES ASSUME IInv, [Next]_vars PROVE IInv'
    OBVIOUS
  <1> USE DEF IInv
  <1>1. ASSUME NEW c \in Asks, Asking(c) PROVE IInv'
    <2>1. CInv'
      BY <1>1, AskIpCodes, WaitingCodes, IssueCodes, LaterCodes DEF Asking
    <2>2. Posting'
      BY <1>1, AskPosting, MayIssuePosting, IssuePosting DEF Asking
    <2> QED
      BY <1>1, <2>1, <2>2, CodesAccounts
  <1>2. ASSUME NEW v \in Checks, Checking(v) PROVE IInv'
    <2>1. CInv'
      BY <1>2, SubmitCodes, CheckCodes DEF Checking
    <2>2. Posting'
      BY <1>2, RestPosting DEF Checking, Submit, codeVars
    <2> QED
      BY <1>2, <2>1, <2>2, CodesAccounts
  <1>3. ASSUME NEW v \in Checks, SigningIn(v) PROVE IInv'
    <2>1. UNCHANGED << now, codes, inbox, ask >>
      BY <1>3, SignsOn DEF CInv
    <2> QED
      BY <1>3, <2>1, SigningCodes, SigningAccounts, RestPosting
  <1>4. ASSUME NEW f \in Forms, Registering(f) PROVE IInv'
    <2>1. Elsewhere
      BY <1>4 DEF Registering, Register, WelcomeRegistered, OpenRegistered, Elsewhere
    <2> QED
      BY <1>4, <2>1, ElsewhereCodes, RestPosting, RegisterAccounts, ClosingAccounts DEF Registering
  <1>5. CASE Closing
    <2>1. Elsewhere
      BY <1>5 DEF Closing, AskDeletion, CancelDeletion, SelectDue, Close, DropSessions, Elsewhere
    <2> QED
      BY <1>5, <2>1, ElsewhereCodes, RestPosting, ClosingAccounts
  <1>6. CASE Purge \/ Tick \/ Restart
    <2>1. CInv'
      BY <1>6, PurgeCodes, TickCodes, RestartCodes
    <2> QED
      BY <1>6, <2>1, RestPosting, CodesAccounts
  <1>7. CASE UNCHANGED vars
    <2>1. Elsewhere
      BY <1>7 DEF vars, Elsewhere
    <2> QED
      BY <1>7, <2>1, ElsewhereCodes, RestPosting, CodesAccounts
  <1> QED
    BY <1>1, <1>2, <1>3, <1>4, <1>5, <1>6, <1>7 DEF Next

LEMMA SpecIInv == Spec => []IInv
  BY InitIInv, NextIInv, PTL DEF Spec

\* A number has at most one live code: an issuing transaction holds the lock of its
\* number from before the UPDATE that retires the older codes to its COMMIT (issueOtp).
THEOREM OneCodeLives == Spec => []OneLiveCode
  <1>1. IInv => OneLiveCode
    <2> SUFFICES ASSUME IInv, NEW p \in Phones PROVE Cardinality(LiveRows(p)) <= 1
      BY DEF OneLiveCode
    <2>1. CASE LiveRows(p) = {}
      BY <2>1, FS_EmptySet
    <2>2. CASE LiveRows(p) # {}
      <3>1. PICK c : c \in LiveRows(p)
        BY <2>2
      <3>2. LiveRows(p) = {c}
        BY <3>1 DEF IInv, CInv, Issuing, LiveRows, Rows
      <3> QED
        BY SMTT(30), <3>2, FS_Singleton
    <2> QED
      BY <2>1, <2>2
  <1> QED
    BY <1>1, SpecIInv, PTL

\* However many requests carry the right code of one challenge, one of them gets past the
\* consuming UPDATE, which asks again for a live row and locks it (verifyOtp).
THEOREM SignsInOnce == Spec => []CodeSignsInOnce
  <1>1. IInv => CodeSignsInOnce
    BY DEF IInv, CInv, Proving
  <1> QED
    BY <1>1, SpecIInv, PTL

\* And it is still the number's one live code when it does: what a newer code has
\* replaced, or wrong guesses have used up, since the SELECT does not sign in (verifyOtp).
THEOREM NewestSignsIn == Spec => ReplacedNeverSignsIn
  <1>1. IInv /\ [Next]_vars =>
           [\A v \in Checks : ~Successful(v) /\ Successful(v)' =>
               LiveRows(ask[check[v].code].phone) = {check[v].code}]_vars
    <2> SUFFICES ASSUME IInv, Next, NEW v \in Checks, ~Successful(v), Successful(v)'
                 PROVE  LiveRows(ask[check[v].code].phone) = {check[v].code}
      BY Zenon
    <2>1. Consume(v) /\ Usable(check[v].code)
      <3>1. ASSUME NEW w \in Checks, SigningIn(w) PROVE FALSE
        BY <3>1, SignsOn DEF IInv, CInv, Successful
      <3>2. ASSUME NEW w \in Checks, Checking(w) PROVE w = v
        <4>1. CASE \E next \in {"expire", "rejected", "exact"} : Goto(w, next)
          BY <4>1, Goes DEF IInv, CInv, CheckSteps, Successful
        <4>2. CASE \E c \in Asks, right \in BOOLEAN : Submit(w, c, right)
          BY <4>2 DEF Submit, IInv, CInv, CodeTypes, Successful
        <4> QED
          BY <3>2, <4>1, <4>2 DEF Checking, Miss, Expire, Consume
      <3>3. CASE Checking(v)
        <4>1. ASSUME NEW next \in CheckSteps, Goto(v, next), next # "exact" PROVE next \in
                  {"claim", "touch", "create", "bonus", "session", "signedIn", "legacy"}
          BY <4>1, Goes DEF IInv, CInv, Successful, CheckSteps
        <4>2. ASSUME NEW c \in Asks, NEW right \in BOOLEAN, Submit(v, c, right) PROVE FALSE
          <5>1. PICK at \in {"rejected", "expire", "consume", "miss"} : at = Verdict(c, right)
            BY DEF Verdict
          <5>2. check' = [check EXCEPT ![v] = [NoCheck EXCEPT !.code = c, !.right = right, !.at = at]]
            BY <4>2, <5>1 DEF Submit
          <5> QED
            BY <5>2 DEF IInv, CInv, CodeTypes, CheckType, NoCheck, Successful
        <4>3. ~Miss(v) /\ ~Expire(v)
          BY <4>1 DEF Miss, Expire, CheckSteps
        <4>4. Consume(v)
          BY <3>3, <4>2, <4>3 DEF Checking
        <4> QED
          BY <4>1, <4>4 DEF Consume, CheckSteps
      <3>4. ASSUME UNCHANGED check PROVE FALSE
        BY <3>4 DEF Successful
      <3>5. CASE Restart
        BY <3>5, Restarted DEF IInv, CInv, Successful
      <3>6. ASSUME NEW c \in Asks, Asking(c) PROVE FALSE
        BY <3>4, <3>6 DEF Asking, AskIp, LockPhone, MayIssue, Supersede, Issue, Sent, NotSent, Retire
      <3>7. ASSUME NEW f \in Forms, Registering(f) PROVE FALSE
        BY <3>4, <3>7 DEF Registering, Register, WelcomeRegistered, OpenRegistered
      <3>8. ~Closing /\ ~Purge /\ ~Tick
        BY <3>4 DEF Closing, AskDeletion, CancelDeletion, SelectDue, Close, DropSessions,
           Purge, Tick
      <3> QED
        BY <3>1, <3>2, <3>3, <3>5, <3>6, <3>7, <3>8 DEF Next
    <2>2. PICK c \in Asks : c = check[v].code /\ Live(c)
      BY <2>1 DEF Consume, Usable, IInv, CInv, Proving
    <2>3. codes[c].phone = ask[c].phone
      BY <2>2 DEF IInv, CInv, Issuing, Live
    <2> QED
      BY <2>2, <2>3 DEF IInv, CInv, Issuing, LiveRows, Rows, Live
  <1> QED
    BY <1>1, SpecIInv, PTL DEF Spec, ReplacedNeverSignsIn

\* No handset receives more codes than the quota within any window of the quota, although
\* the count, the INSERT and the message are separate steps, rows of codes that were not
\* sent are removed and old rows are purged, and a restart may come between any two of them.
THEOREM QuotaHolds == Spec => []DailyQuota
  <1>1. IInv => DailyQuota
    <2> SUFFICES ASSUME IInv, NEW p \in Phones, NEW t \in 0 .. MaxTime
                 PROVE  Cardinality({m \in inbox : ask[m.code].phone = p
                                                   /\ m.at \in t .. t + Window - 1}) <= Quota
      BY DEF DailyQuota
    <2> DEFINE M == {m \in inbox : ask[m.code].phone = p /\ m.at \in t .. t + Window - 1}
               f == [m \in M |-> m.code]
    <2>1. \A m \in M : /\ m \in [code : Asks, at : Nat] /\ m.at = ask[m.code].began
                       /\ m.code \in InWindow(p, t)
      BY DEF IInv, CInv, CodeTypes, Posting, Posted, InWindow, OnBooks
    <2>2. f \in Injection(M, InWindow(p, t))
      <3>1. \A m, n \in M : m.code = n.code => m = n
        BY <2>1
      <3> QED
        BY <2>1, <3>1 DEF Injection, IsInjective
    <2>3. t \in Nat
      BY SignInConstants
    <2>4. Cardinality(InWindow(p, t)) <= Quota /\ IsFiniteSet(InWindow(p, t))
          /\ Cardinality(InWindow(p, t)) \in Nat
      BY <2>3, Windows DEF IInv, Posting, Bounded
    <2>5. IsFiniteSet(M) /\ Cardinality(M) <= Cardinality(InWindow(p, t))
      BY <2>2, <2>4, FS_Injection
    <2>6. Cardinality(M) \in Nat
      BY <2>5, FS_CardinalityType
    <2> QED
      BY <2>4, <2>5, <2>6, Consts
  <1> QED
    BY <1>1, SpecIInv, PTL

\* A verified number is one open account's: idx_customers_phone_e164_unique.
OneHolder ==
    \A p \in Phones : \A i, j \in DOMAIN accounts : i \in Holders(p) /\ j \in Holders(p) => i = j

LEMMA HolderStays == ASSUME AccountTypes, CInv, OneHolder, [Next]_vars PROVE OneHolder'
  <1> USE DEF accountVars, codeVars, sweepVars
  <1>a. ASSUME DOMAIN accounts' = DOMAIN accounts,
               \A i \in DOMAIN accounts : /\ accounts[i].closed => accounts'[i].closed
                                          /\ accounts'[i].number = accounts[i].number
        PROVE  OneHolder'
    BY <1>a DEF OneHolder, Holders, Open
  <1>b. UNCHANGED accounts => OneHolder'
    BY <1>a
  <1>c. \A i \in DOMAIN accounts : accounts[i] \in AccountType
    BY DEF AccountTypes
  <1>1. ASSUME NEW v \in Checks, SigningIn(v) PROVE OneHolder'
    <2>1. CASE FindExact(v) \/ FindLegacy(v) \/ OpenSession(v)
      <3>1. UNCHANGED accounts
        BY <2>1 DEF FindExact, FindLegacy, OpenSession
      <3> QED
        BY <1>b, <3>1
    <2>2. CASE Claim(v)
      <3>1. check[v].account \in DOMAIN accounts
        BY <2>2 DEF Claim, AccountTypes, Chosen
      <3>2. PICK i \in DOMAIN accounts : i = check[v].account
        BY <3>1
      <3>3. CASE /\ accounts[i].closed \/ ~NumberTaken(Number(v))
                 /\ accounts' = [accounts EXCEPT ![i].number = Number(v)]
        <4> DEFINE a == [accounts[i] EXCEPT !.number = Number(v)]
        <4>1. a.number = Number(v) /\ a.closed = accounts[i].closed
          BY <1>c DEF AccountType
        <4>2. accounts' = [accounts EXCEPT ![i] = a]
          BY <3>3, <1>c DEF AccountType
        <4> HIDE DEF a
        <4>3. /\ DOMAIN accounts' = DOMAIN accounts /\ accounts'[i] = a
              /\ \A j \in DOMAIN accounts \ {i} : accounts'[j] = accounts[j]
          BY <4>2
        <4> QED
          BY <3>3, <4>1, <4>3 DEF OneHolder, Holders, Open, NumberTaken
      <3>4. CASE UNCHANGED accounts
        BY <1>b, <3>4
      <3> QED
        BY <2>2, <3>2, <3>3, <3>4 DEF Claim
    <2>3. CASE Touch(v) \/ GrantBonus(v)
      <3>1. PICK i \in DOMAIN accounts : i = check[v].account
        BY <2>3 DEF Touch, GrantBonus, AccountTypes, Chosen
      <3>2. \/ UNCHANGED accounts
            \/ accounts' = [accounts EXCEPT ![i].typed = Number(v)]
            \/ accounts' = [accounts EXCEPT ![i].bonus = TRUE]
        BY <2>3, <3>1 DEF Touch, GrantBonus, Welcome
      <3> QED
        BY <1>a, <1>c, <3>2 DEF AccountType
    <2>4. CASE Create(v)
      <3>1. CASE UNCHANGED accounts
        BY <1>b, <3>1
      <3>2. CASE ~NumberTaken(Number(v)) /\ accounts' = Append(accounts, Account(Number(v), Number(v)))
        <4>1. Number(v) \in Phones
          <5>1. Successful(v)
            BY <2>4 DEF Create, Successful
          <5> QED
            BY <5>1 DEF CInv, Proving, Issuing, Number, Successful
        <4>p. PICK p \in Phones : p = Number(v)
          BY <4>1
        <4> DEFINE a == Account(p, p)
        <4>2. a \in AccountType /\ a.number = Number(v) /\ accounts' = Append(accounts, a)
          BY <3>2, <4>p DEF Account, AccountType
        <4> HIDE DEF a
        <4>3. PICK n \in Nat :
                /\ DOMAIN accounts' = DOMAIN accounts \cup {n} /\ n \notin DOMAIN accounts
                /\ \A i \in DOMAIN accounts : accounts'[i] = accounts[i]
                /\ accounts'[n] = a
          BY <4>2, Appended DEF AccountTypes
        <4>4. \A q \in Phones : n \in Holders(q)' => q = Number(v)
          BY <4>2, <4>3 DEF Holders
        <4>5. \A q \in Phones : \A i \in DOMAIN accounts : i \in Holders(q)' => i \in Holders(q)
          BY <4>3 DEF Holders, Open
        <4>6. \A i \in DOMAIN accounts : i \notin Holders(Number(v))
          BY <3>2 DEF NumberTaken
        <4> QED
          BY <4>3, <4>4, <4>5, <4>6 DEF OneHolder
      <3> QED
        BY <2>4, <3>1, <3>2 DEF Create
    <2> QED
      BY <1>1, <2>1, <2>2, <2>3, <2>4 DEF SigningIn
  <1>2. ASSUME NEW f \in Forms, NEW typed \in FormNumbers, Register(f, typed) PROVE OneHolder'
    <2> DEFINE a == Account(None, typed)
    <2>1. a \in AccountType /\ a.number = None /\ accounts' = Append(accounts, a)
      BY <1>2, SignInConstants DEF Register, Account, AccountType
    <2> HIDE DEF a
    <2>2. PICK n \in Nat :
              /\ DOMAIN accounts' = DOMAIN accounts \cup {n} /\ n \notin DOMAIN accounts
              /\ \A i \in DOMAIN accounts : accounts'[i] = accounts[i]
              /\ accounts'[n] = a
      BY <2>1, Appended DEF AccountTypes
    <2> QED
      BY <2>1, <2>2, Consts DEF OneHolder, Holders, Open
  <1>3. ASSUME NEW f \in Forms, WelcomeRegistered(f) \/ OpenRegistered(f) PROVE OneHolder'
    <2>1. CASE UNCHANGED accounts
      BY <1>b, <2>1
    <2>2. CASE accounts' = [accounts EXCEPT ![form[f].account].bonus = TRUE]
      BY <1>a, <1>c, <2>2 DEF AccountType
    <2> QED
      BY <1>3, <2>1, <2>2 DEF WelcomeRegistered, OpenRegistered, Welcome
  <1>4. CASE Closing
    <2>1. CASE UNCHANGED accounts
      BY <1>b, <2>1
    <2>2. CASE \E i \in DOMAIN accounts, b \in BOOLEAN :
                  accounts' = [accounts EXCEPT ![i].closing = b]
      BY <1>a, <1>c, <2>2 DEF AccountType
    <2>3. CASE \E i \in DOMAIN accounts :
                  accounts' = [accounts EXCEPT ![i].closed = TRUE, ![i].typed = None]
      <3>1. PICK i \in DOMAIN accounts :
                  accounts' = [accounts EXCEPT ![i].closed = TRUE, ![i].typed = None]
        BY <2>3
      <3> DEFINE a == [accounts[i] EXCEPT !.closed = TRUE, !.typed = None]
      <3>2. a.closed /\ a.number = accounts[i].number /\ accounts' = [accounts EXCEPT ![i] = a]
        BY <1>c, <3>1 DEF AccountType
      <3> HIDE DEF a
      <3> QED
        BY <1>a, <3>2
    <2> QED
      BY <1>4, <2>1, <2>2, <2>3
         DEF Closing, AskDeletion, CancelDeletion, SelectDue, Close, DropSessions, AccountTypes
  <1>5. CASE \/ \E c \in Asks : Asking(c)
             \/ \E v \in Checks : Checking(v)
             \/ Purge \/ Tick \/ Restart \/ UNCHANGED vars
    <2>1. UNCHANGED accounts
      BY <1>5 DEF Asking, AskIp, LockPhone, MayIssue, Supersede, Issue, Sent, NotSent, Retire,
         Checking, Submit, Miss, Expire, Consume, Purge, Tick, Restart, vars
    <2> QED
      BY <1>b, <2>1
  <1> QED
    BY <1>1, <1>2, <1>3, <1>4, <1>5 DEF Next, Registering

\* A proven number signs into one account each time, unless it is closed since, or into
\* two of which one has merely had the number typed in and no verified number of its own.
SameOrTyped ==
    \A s, t \in sessions :
        /\ s.code # None /\ t.code # None
        /\ ask[s.code].phone = ask[t.code].phone
        => \/ accounts[s.account].closed \/ accounts[t.account].closed
           \/ s.account = t.account /\ Owns(s.account, ask[s.code].phone)
           \/ \E i, j \in {s.account, t.account} :
                 i # j /\ i \in Typed(ask[s.code].phone) /\ Owns(j, ask[s.code].phone)

\* Whatever numbers were typed into accounts before or at registration, and whoever else
\* signs in at once: whoever proves a number is signed into an account that has it as its
\* verified number or, without one, had it typed in; never into a stranger's, and into two
\* only where the search by what was typed has found one of them (establishPhoneSession).
THEOREM SignsIntoOwner == Spec => []SameOrTyped
  <1>1. Init => Belonging /\ OneHolder
    BY Consts DEF Init, Belonging, OneHolder, Holders, Account, NoCheck, Chosen
  <1>2. IInv /\ Belonging /\ OneHolder /\ [Next]_vars => Belonging' /\ OneHolder'
    <2> SUFFICES ASSUME IInv, Belonging, OneHolder, [Next]_vars PROVE Belonging' /\ OneHolder'
      OBVIOUS
    <2>1. CASE \/ \E c \in Asks : Asking(c)
               \/ \E v \in Checks : Checking(v)
               \/ Purge \/ Tick \/ Restart \/ UNCHANGED vars
      BY <2>1, CodesAccounts, HolderStays DEF IInv, Stays
    <2>2. CASE \E v \in Checks : SigningIn(v)
      BY <2>2, SigningAccounts, HolderStays DEF IInv, Stays
    <2>3. CASE \/ Closing
               \/ \E f \in Forms : WelcomeRegistered(f) \/ OpenRegistered(f)
      BY <2>3, ClosingAccounts, HolderStays DEF IInv, Stays
    <2>4. CASE \E f \in Forms : \E typed \in FormNumbers : Register(f, typed)
      BY <2>4, RegisterAccounts, HolderStays DEF IInv
    <2> QED
      BY <2>1, <2>2, <2>3, <2>4 DEF Next, Registering
  <1>3. IInv /\ Belonging /\ OneHolder => SameOrTyped
    <2> SUFFICES ASSUME IInv, Belonging, OneHolder, NEW s \in sessions, NEW r \in sessions,
                        s.code # None, r.code # None,
                        ask[s.code].phone = ask[r.code].phone,
                        ~accounts[s.account].closed, ~accounts[r.account].closed
                 PROVE  \/ s.account = r.account /\ Owns(s.account, ask[s.code].phone)
                        \/ \E i, j \in {s.account, r.account} :
                              /\ i # j /\ i \in Typed(ask[s.code].phone)
                              /\ Owns(j, ask[s.code].phone)
      BY DEF SameOrTyped
    <2>1. PICK p \in Phones : p = ask[s.code].phone
      BY DEF IInv, AccountTypes, Belonging, CInv, Issuing
    <2>2. /\ Owns(s.account, p) /\ Owns(r.account, p)
          /\ s.account \in DOMAIN accounts /\ r.account \in DOMAIN accounts
      BY <2>1 DEF Belonging, Owned, IInv, AccountTypes
    <2>3. \A i \in {s.account, r.account} : i \in Typed(p) \/ i \in Holders(p)
      BY <2>2 DEF Owns, Typed, Holders
    <2>4. s.account \in Holders(p) /\ r.account \in Holders(p) => s.account = r.account
      BY <2>2 DEF OneHolder
    <2> QED
      BY <2>1, <2>2, <2>3, <2>4
  <1> QED
    BY <1>1, <1>2, <1>3, SpecIInv, PTL DEF Spec

\* The same account each time, unless it has been closed, in the case without ambiguity.  It takes an unambiguous past, no two accounts
\* with the number typed into them, and a registration form that carries no number: with
\* either the search for an account the number was typed into may find another one.
THEOREM OneAccount ==
    ASSUME FormNumbers \subseteq {None},
           \A old \in OldAccounts : \A i, j \in DOMAIN old : old[i] = old[j] => i = j
    PROVE  Spec => []SameAccount
  <1>1. Init => Owning
    <2> SUFFICES ASSUME Init PROVE Owning
      OBVIOUS
    <2>1. PICK old \in OldAccounts :
              accounts = [i \in DOMAIN old |-> [Account(None, old[i]) EXCEPT !.bonus = TRUE]]
      BY DEF Init
    <2>2. \A p \in Phones : \A i \in DOMAIN accounts : Owns(i, p) => old[i] = p
      BY <2>1, Consts DEF Owns, Account
    <2> QED
      BY <2>1, <2>2 DEF Init, Owning, Belonging, NoCheck, Chosen
  <1>2. IInv /\ Owning /\ [Next]_vars => Owning'
    <2> SUFFICES ASSUME IInv, Owning, [Next]_vars PROVE Owning'
      OBVIOUS
    <2>1. CASE \/ \E c \in Asks : Asking(c)
               \/ \E v \in Checks : Checking(v)
               \/ Purge \/ Tick \/ Restart \/ UNCHANGED vars
      BY <2>1, CodesAccounts DEF IInv, Stays
    <2>2. CASE \E v \in Checks : SigningIn(v)
      BY <2>2, SigningAccounts DEF IInv, Stays
    <2>3. CASE \/ Closing
               \/ \E f \in Forms : WelcomeRegistered(f) \/ OpenRegistered(f)
      BY <2>3, ClosingAccounts DEF IInv, Stays
    <2>4. CASE \E f \in Forms : \E typed \in FormNumbers : Register(f, typed)
      BY <2>4, RegisterAccounts DEF IInv
    <2> QED
      BY <2>1, <2>2, <2>3, <2>4 DEF Next, Registering
  <1>3. IInv /\ Owning => SameAccount
    <2> SUFFICES ASSUME IInv, Owning, NEW s \in sessions, NEW r \in sessions,
                        s.code # None, r.code # None,
                        ask[s.code].phone = ask[r.code].phone,
                        ~accounts[s.account].closed, ~accounts[r.account].closed
                 PROVE  s.account = r.account
      BY DEF SameAccount
    <2>1. PICK p \in Phones : p = ask[s.code].phone
      BY DEF IInv, AccountTypes, Owning, Belonging, CInv, Issuing
    <2>2. /\ Owns(s.account, p) /\ Owns(r.account, p)
          /\ s.account \in DOMAIN accounts /\ r.account \in DOMAIN accounts
      BY <2>1 DEF Owning, Belonging, Owned, IInv, AccountTypes
    <2> QED
      BY <2>2 DEF Owning
  <1> QED
    BY <1>1, <1>2, <1>3, SpecIInv, PTL DEF Spec
=============================================================================
