---------------------------- MODULE LifecycleProofs ----------------------------
(***************************************************************************)
(* What the order lifecycle keeps for every set of orders, workers and     *)
(* requests, any number of payment attempts and of redelivered events.     *)
(* The invariants are those of LifecycleInvariants.                        *)
(*                                                                         *)
(* A step shortens one list; a request, a lookup at the gateway or a       *)
(* refused gateway order replaces it.  Closing has Onward for the first    *)
(* and Fits for the second, InEffect has Passing and Fresh; what the step  *)
(* does to the rows is Bystanders and Settles there, Steady and Outcome    *)
(* here, and the few statements that write what an invariant is about have *)
(* a lemma each.                                                           *)
(*                                                                         *)
(* The order of the file: lists, the invariant, one lemma for each         *)
(* statement and each request, the theorems that follow from IInv, then    *)
(* the same for OnItsWay, for Closing and for InEffect.                    *)
(***************************************************************************)
EXTENDS LifecycleInvariants, SumProofs, SequenceTheorems

-----------------------------------------------------------------------------
(* Lists of statements.                                                    *)

\* s is the list t without its first m statements.
Drops(s, t, m) ==
    /\ s \in Seq(Statements)
    /\ Len(s) + m = Len(t)
    /\ \A i \in 1 .. Len(s) : s[i] = t[i + m]

LEMMA SuffixDrops ==
    ASSUME NEW t \in Seq(Statements), NEW m \in 0 .. Len(t)
    PROVE  Drops(SubSeq(t, m + 1, Len(t)), t, m)
  BY DEF Drops

LEMMA TailDrops ==
    ASSUME NEW t \in Seq(Statements), t # << >>
    PROVE  Drops(Tail(t), t, 1)
  BY DEF Drops

LEMMA DropsAfter ==
    ASSUME NEW s, NEW t \in Seq(Statements), NEW m \in Nat, Drops(s, t, m),
           NEW x, NEW p, After(t, x, p)
    PROVE  /\ After(s, x, p)
           /\ s # << >> /\ s[1] = x /\ m > 0 => t[m] = p
<1>1. ASSUME NEW i \in 1 .. Len(s), s[i] = x, i # 1  PROVE  s[i - 1] = p
  <2>1. i + m \in 1 .. Len(t) /\ i + m # 1 /\ t[i + m] = x
    BY <1>1 DEF Drops
  <2>2. t[(i + m) - 1] = p
    BY <2>1 DEF After
  <2>3. i - 1 \in 1 .. Len(s) /\ (i - 1) + m = (i + m) - 1
    BY <1>1 DEF Drops
  <2>4. s[i - 1] = t[(i - 1) + m]
    BY <2>3 DEF Drops
  <2> QED
    BY <2>2, <2>3, <2>4
<1>2. ASSUME s # << >>, s[1] = x, m > 0  PROVE  t[m] = p
  <2>1. Len(s) > 0 /\ Len(s) \in Nat
    BY <1>2 DEF Drops
  <2>2. 1 + m \in 1 .. Len(t) /\ t[1 + m] = x /\ 1 + m # 1
    BY <1>2, <2>1 DEF Drops
  <2>3. (1 + m) - 1 = m
    OBVIOUS
  <2> QED
    BY <2>2, <2>3 DEF After
<1> QED
  BY <1>1, <1>2 DEF After

LEMMA DropsBefore ==
    ASSUME NEW s, NEW t \in Seq(Statements), NEW m \in Nat, Drops(s, t, m),
           NEW x, NEW n, Before(t, x, n)
    PROVE  Before(s, x, n)
<1> SUFFICES ASSUME NEW i \in 1 .. Len(s), s[i] = x  PROVE  i < Len(s) /\ s[i + 1] = n
  BY DEF Before
<1>1. i + m \in 1 .. Len(t) /\ t[i + m] = x
  BY DEF Drops
<1>2. i + m < Len(t) /\ t[(i + m) + 1] = n
  BY <1>1 DEF Before
<1>3. i + 1 \in 1 .. Len(s) /\ (i + 1) + m = (i + m) + 1
  BY <1>2 DEF Drops
<1> QED
  BY <1>2, <1>3 DEF Drops

LEMMA DropsHas ==
    ASSUME NEW s, NEW t \in Seq(Statements), NEW m \in Nat, Drops(s, t, m), NEW S
    PROVE  Has(s, S) => Has(t, S)
  BY DEF Drops, Has

LEMMA DropsInOrder ==
    ASSUME NEW s, NEW t \in Seq(Statements), NEW m \in Nat, Drops(s, t, m), InOrder(t)
    PROVE  InOrder(s)
  BY DropsAfter, DropsBefore DEF InOrder

\* How a list that is put together is written out.
LEMMA Joined ==
    ASSUME NEW s \in Seq(Statements), NEW t \in Seq(Statements), NEW u \in Seq(Statements),
           Len(u) = Len(s) + Len(t), \A i \in 1 .. Len(s) : u[i] = s[i],
           \A i \in 1 .. Len(t) : u[Len(s) + i] = t[i]
    PROVE  s \o t = u
  OBVIOUS

LEMMA Triple ==
    ASSUME NEW a \in Statements, NEW b \in Statements, NEW c \in Statements
    PROVE  /\ << a, b >> \o << c >> = << a, b, c >>
           /\ << a >> \o << b, c >> = << a, b, c >>
<1> DEFINE u == << a, b, c >>
<1>1. /\ u \in Seq(Statements) /\ << a, b >> \in Seq(Statements) /\ << b, c >> \in Seq(Statements)
      /\ << a >> \in Seq(Statements) /\ << c >> \in Seq(Statements)
  OBVIOUS
<1>2. /\ Len(u) = 3 /\ Len(<< a, b >>) = 2 /\ Len(<< b, c >>) = 2
      /\ Len(<< a >>) = 1 /\ Len(<< c >>) = 1
  OBVIOUS
<1>3. /\ u[1] = a /\ u[2] = b /\ u[3] = c
      /\ << a, b >>[1] = a /\ << a, b >>[2] = b /\ << b, c >>[1] = b /\ << b, c >>[2] = c
      /\ << a >>[1] = a /\ << c >>[1] = c
  OBVIOUS
<1> HIDE DEF u
<1>4. \A i \in 1 .. 1 : i = 1
  OBVIOUS
<1>5. \A i \in 1 .. 2 : i = 1 \/ i = 2
  OBVIOUS
<1>6. << a, b >> \o << c >> = u
  <2>1. \A i \in 1 .. 2 : u[i] = << a, b >>[i]
    BY <1>3, <1>5
  <2>2. \A i \in 1 .. 1 : u[2 + i] = << c >>[i]
    <3>1. 2 + 1 = 3
      OBVIOUS
    <3> QED
      BY <1>3, <1>4, <3>1
  <2> QED
    BY <1>1, <1>2, <2>1, <2>2, Joined
<1>7. << a >> \o << b, c >> = u
  <2>1. \A i \in 1 .. 1 : u[i] = << a >>[i]
    BY <1>3, <1>4
  <2>2. \A i \in 1 .. 2 : u[1 + i] = << b, c >>[i]
    <3>1. 1 + 1 = 2 /\ 1 + 2 = 3
      OBVIOUS
    <3> QED
      BY <1>3, <1>5, <3>1
  <2> QED
    BY <1>1, <1>2, <2>1, <2>2, Joined
<1> QED
  BY <1>6, <1>7 DEF u

LEMMA Quadruple ==
    ASSUME NEW a \in Statements, NEW b \in Statements, NEW c \in Statements,
           NEW d \in Statements
    PROVE  << a, b >> \o << c, d >> = << a, b, c, d >>
<1> DEFINE u == << a, b, c, d >>
<1>1. /\ u \in Seq(Statements) /\ << a, b >> \in Seq(Statements) /\ << c, d >> \in Seq(Statements)
      /\ Len(u) = 4 /\ Len(<< a, b >>) = 2 /\ Len(<< c, d >>) = 2
  OBVIOUS
<1>2. /\ u[1] = a /\ u[2] = b /\ u[3] = c /\ u[4] = d
      /\ << a, b >>[1] = a /\ << a, b >>[2] = b /\ << c, d >>[1] = c /\ << c, d >>[2] = d
  OBVIOUS
<1> HIDE DEF u
<1>3. \A i \in 1 .. 2 : i = 1 \/ i = 2
  OBVIOUS
<1>4. \A i \in 1 .. 2 : u[i] = << a, b >>[i]
  BY <1>2, <1>3
<1>5. \A i \in 1 .. 2 : u[2 + i] = << c, d >>[i]
  <2>1. 2 + 1 = 3 /\ 2 + 2 = 4
    OBVIOUS
  <2> QED
    BY <1>2, <1>3, <2>1
<1>6. << a, b >> \o << c, d >> = u
  BY <1>1, <1>4, <1>5, Joined
<1> QED
  BY <1>6 DEF u

\* A statement that no other has to precede.
Opens(s) == s \notin {"insertOrder", "restock", "openPayment", "voidOrder"}

\* Two lists one after the other.
LEMMA JoinedAfter ==
    ASSUME NEW s \in Seq(Statements), NEW t \in Seq(Statements), NEW x, NEW p,
           After(s, x, p), After(t, x, p), t # << >> => t[1] # x
    PROVE  After(s \o t, x, p)
<1> DEFINE u == s \o t
<1>1. Len(s) \in Nat /\ Len(t) \in Nat /\ Len(u) = Len(s) + Len(t)
  OBVIOUS
<1>2. \A i \in 1 .. Len(s) : u[i] = s[i]
  OBVIOUS
<1>3. \A i \in 1 .. Len(u) : i > Len(s) => i - Len(s) \in 1 .. Len(t) /\ u[i] = t[i - Len(s)]
  OBVIOUS
<1>4. t # << >> <=> Len(t) > 0
  OBVIOUS
<1> HIDE DEF u
<1>5. ASSUME NEW i \in 1 .. Len(u), u[i] = x, i # 1  PROVE  u[i - 1] = p
  <2>1. CASE i <= Len(s)
    <3>1. i \in 1 .. Len(s) /\ i - 1 \in 1 .. Len(s)
      BY <1>1, <1>5, <2>1
    <3>2. s[i] = x
      BY <1>2, <1>5, <3>1
    <3> QED
      BY <1>2, <1>5, <3>1, <3>2 DEF After
  <2>2. CASE i > Len(s)
    <3>1. i - Len(s) \in 1 .. Len(t) /\ t[i - Len(s)] = x
      BY <1>3, <1>5, <2>2
    <3>2. i - Len(s) # 1
      BY <1>1, <1>4, <3>1
    <3>3. t[(i - Len(s)) - 1] = p
      BY <3>1, <3>2 DEF After
    <3>4. i - 1 \in 1 .. Len(u) /\ i - 1 > Len(s) /\ (i - 1) - Len(s) = (i - Len(s)) - 1
      BY <1>1, <1>5, <2>2, <3>1, <3>2
    <3> QED
      BY <1>3, <3>3, <3>4
  <2> QED
    BY <1>1, <2>1, <2>2
<1> QED
  BY <1>5 DEF After, u

LEMMA JoinedBefore ==
    ASSUME NEW s \in Seq(Statements), NEW t \in Seq(Statements), NEW x, NEW n,
           Before(s, x, n), Before(t, x, n)
    PROVE  Before(s \o t, x, n)
<1> DEFINE u == s \o t
<1>1. Len(s) \in Nat /\ Len(t) \in Nat /\ Len(u) = Len(s) + Len(t)
  OBVIOUS
<1>2. \A i \in 1 .. Len(s) : u[i] = s[i]
  OBVIOUS
<1>3. \A i \in 1 .. Len(u) : i > Len(s) => i - Len(s) \in 1 .. Len(t) /\ u[i] = t[i - Len(s)]
  OBVIOUS
<1> HIDE DEF u
<1>4. ASSUME NEW i \in 1 .. Len(u), u[i] = x  PROVE  i < Len(u) /\ u[i + 1] = n
  <2>1. CASE i <= Len(s)
    <3>1. i \in 1 .. Len(s) /\ s[i] = x
      BY <1>1, <1>2, <1>4, <2>1
    <3>2. i < Len(s) /\ s[i + 1] = n
      BY <3>1 DEF Before
    <3>3. i + 1 \in 1 .. Len(s)
      BY <1>1, <3>1, <3>2
    <3> QED
      BY <1>1, <1>2, <3>2, <3>3
  <2>2. CASE i > Len(s)
    <3>1. i - Len(s) \in 1 .. Len(t) /\ t[i - Len(s)] = x
      BY <1>3, <1>4, <2>2
    <3>2. i - Len(s) < Len(t) /\ t[(i - Len(s)) + 1] = n
      BY <3>1 DEF Before
    <3>3. i + 1 \in 1 .. Len(u) /\ i + 1 > Len(s) /\ (i + 1) - Len(s) = (i - Len(s)) + 1
      BY <1>1, <1>4, <2>2, <3>2
    <3> QED
      BY <1>1, <1>3, <3>2, <3>3
  <2> QED
    BY <1>1, <2>1, <2>2
<1> QED
  BY <1>4 DEF Before, u

LEMMA JoinedHas ==
    ASSUME NEW s \in Seq(Statements), NEW t \in Seq(Statements), NEW S
    PROVE  /\ Has(s \o t, S) => Has(s, S) \/ Has(t, S)
           /\ s # << >> => s \o t # << >> /\ (s \o t)[1] = s[1]
           /\ s \o t \in Seq(Statements)
  BY DEF Has

LEMMA JoinedInOrder ==
    ASSUME NEW s \in Seq(Statements), NEW t \in Seq(Statements), InOrder(s), InOrder(t),
           t # << >> => Opens(t[1])
    PROVE  InOrder(s \o t)
<1>1. /\ t # << >> => t[1] # "insertOrder" /\ t[1] # "restock"
      /\ t # << >> => t[1] # "openPayment" /\ t[1] # "voidOrder"
  BY DEF Opens
<1>2. /\ After(s, "insertOrder", "deduct") /\ After(t, "insertOrder", "deduct")
      /\ After(s, "restock", "claimRestore") /\ After(t, "restock", "claimRestore")
      /\ After(s, "openPayment", "insertOrder") /\ After(t, "openPayment", "insertOrder")
      /\ After(s, "voidOrder", "restock") /\ After(t, "voidOrder", "restock")
  BY DEF InOrder
<1>3. /\ After(s \o t, "insertOrder", "deduct")
      /\ After(s \o t, "restock", "claimRestore")
      /\ After(s \o t, "openPayment", "insertOrder")
      /\ After(s \o t, "voidOrder", "restock")
  BY <1>1, <1>2, JoinedAfter
<1> QED
  BY <1>3, JoinedBefore DEF InOrder

\* Every statement of t is in R.
Of(t, R) == \A i \in 1 .. Len(t) : t[i] \in R

LEMMA OfHas ==
    ASSUME NEW t, NEW R, Of(t, R), NEW S, R \cap S = {}
    PROVE  ~Has(t, S)
  BY DEF Of, Has

LEMMA OfJoined ==
    ASSUME NEW s \in Seq(Statements), NEW t \in Seq(Statements), NEW R, NEW Q, NEW P,
           Of(s, R), Of(t, Q), R \cup Q \subseteq P
    PROVE  Of(s \o t, P)
  BY DEF Of

\* A list that a handler may start with.
Good(t, R) == t \in Seq(Statements) /\ t # << >> /\ InOrder(t) /\ Of(t, R) /\ Opens(t[1])

LEMMA GoodJoined ==
    ASSUME NEW s, NEW t, NEW R, NEW Q, Good(s, R), Good(t, Q)
    PROVE  Good(s \o t, R \cup Q) /\ (s \o t)[1] = s[1]
<1>1. s \in Seq(Statements) /\ t \in Seq(Statements)
  BY DEF Good
<1>2. InOrder(s \o t)
  BY <1>1, JoinedInOrder DEF Good
<1>3. Of(s \o t, R \cup Q)
  <2>1. Of(s, R) /\ Of(t, Q)
    BY DEF Good
  <2> QED
    BY <1>1, <2>1, OfJoined
<1>4. s \o t \in Seq(Statements) /\ s \o t # << >> /\ (s \o t)[1] = s[1]
  BY <1>1, JoinedHas DEF Good
<1> QED
  BY <1>2, <1>3, <1>4 DEF Good

LEMMA SmallLists ==
    /\ Good(<< "fetch" >>, {"fetch"})
    /\ Good(<< "recordPayment" >>, {"recordPayment"})
    /\ Good(<< "insertAttempt" >>, {"insertAttempt"})
    /\ Good(<< "finish" >>, {"finish"})
    /\ Good(<< "setIfSame" >>, {"setIfSame"})
    /\ Good(<< "refundIfPaid" >>, {"refundIfPaid"})
    /\ Good(<< "deduct", "insertOrder" >>, {"deduct", "insertOrder"})
    /\ Good(<< "collectCash", "sellReserved" >>, {"collectCash", "sellReserved"})
<1>1. Good(<< "fetch" >>, {"fetch"})
  BY DEF Good, InOrder, After, Before, Of, Opens, Statements
<1>2. Good(<< "recordPayment" >>, {"recordPayment"})
  BY DEF Good, InOrder, After, Before, Of, Opens, Statements
<1>3. Good(<< "insertAttempt" >>, {"insertAttempt"})
  BY DEF Good, InOrder, After, Before, Of, Opens, Statements
<1>4. Good(<< "finish" >>, {"finish"})
  BY DEF Good, InOrder, After, Before, Of, Opens, Statements
<1>5. Good(<< "setIfSame" >>, {"setIfSame"})
  BY DEF Good, InOrder, After, Before, Of, Opens, Statements
<1>6. Good(<< "refundIfPaid" >>, {"refundIfPaid"})
  BY DEF Good, InOrder, After, Before, Of, Opens, Statements
<1>7. Good(<< "deduct", "insertOrder" >>, {"deduct", "insertOrder"})
  BY DEF Good, InOrder, After, Before, Of, Opens, Statements
<1>8. Good(<< "collectCash", "sellReserved" >>, {"collectCash", "sellReserved"})
  BY DEF Good, InOrder, After, Before, Of, Opens, Statements
<1> QED
  BY <1>1, <1>2, <1>3, <1>4, <1>5, <1>6, <1>7, <1>8

LEMMA Lists ==
    /\ Good(ReturnStock, Restoring) /\ ReturnStock[1] = "claimRestore"
    /\ Good(Fail, Failing) /\ Fail[1] = "failPayment"
    /\ Good(Pay, Paying) /\ Pay[1] = "claimPaid"
    /\ Good(Recall, Recalling) /\ Recall[1] = "recall"
    /\ Good(<< "openShipment", "assignAwb", "noteAwb" >>, Booking)
<1>1. Good(ReturnStock, Restoring) /\ ReturnStock[1] = "claimRestore"
  BY DEF Good, InOrder, After, Before, Of, Opens, Statements, Restoring, ReturnStock
<1>2. Good(Fail, Failing) /\ Fail[1] = "failPayment"
  <2>1. Fail = << "failPayment", "cancelUnpaid", "claimRestore", "restock" >>
    <3>1. {"failPayment", "cancelUnpaid", "claimRestore", "restock"} \subseteq Statements
      BY DEF Statements
    <3> QED
      BY <3>1, Quadruple DEF Fail, ReturnStock
  <2> HIDE DEF Fail
  <2>2. Fail \in Seq(Statements)
    BY <2>1 DEF Statements
  <2> QED
    BY <2>1, <2>2 DEF Good, InOrder, After, Before, Of, Opens, Failing, Restoring
<1>3. Good(Pay, Paying) /\ Pay[1] = "claimPaid"
  BY DEF Good, InOrder, After, Before, Of, Opens, Statements, Paying, Pay
<1>4. Good(Recall, Recalling) /\ Recall[1] = "recall"
  BY DEF Good, InOrder, After, Before, Of, Opens, Statements, Recalling, Recall
<1>5. Good(<< "openShipment", "assignAwb", "noteAwb" >>, Booking)
  BY DEF Good, InOrder, After, Before, Of, Opens, Statements, Booking
<1> QED
  BY <1>1, <1>2, <1>3, <1>4, <1>5

LEMMA MoreLists ==
    /\ Good(<< "deduct", "insertOrder" >> \o << "openPayment" >>,
            {"deduct", "insertOrder", "openPayment"})
    /\ (<< "deduct", "insertOrder" >> \o << "openPayment" >>)[1] = "deduct"
    /\ Good(ReturnStock \o << "voidOrder" >>, Restoring \cup {"voidOrder"})
    /\ (ReturnStock \o << "voidOrder" >>)[1] = "claimRestore"
<1>1. << "deduct", "insertOrder" >> \o << "openPayment" >>
         = << "deduct", "insertOrder", "openPayment" >>
  <2>1. {"deduct", "insertOrder", "openPayment"} \subseteq Statements
    BY DEF Statements
  <2> QED
    BY <2>1, Triple
<1>2. ReturnStock \o << "voidOrder" >> = << "claimRestore", "restock", "voidOrder" >>
  <2>1. {"claimRestore", "restock", "voidOrder"} \subseteq Statements
    BY DEF Statements
  <2> QED
    BY <2>1, Triple DEF ReturnStock
<1>3. Good(<< "deduct", "insertOrder", "openPayment" >>, {"deduct", "insertOrder", "openPayment"})
  BY DEF Good, InOrder, After, Before, Of, Opens, Statements
<1>4. Good(<< "claimRestore", "restock", "voidOrder" >>, Restoring \cup {"voidOrder"})
  BY DEF Good, InOrder, After, Before, Of, Opens, Statements, Restoring
<1>5. /\ << "deduct", "insertOrder", "openPayment" >>[1] = "deduct"
      /\ << "claimRestore", "restock", "voidOrder" >>[1] = "claimRestore"
  OBVIOUS
<1> QED
  BY <1>1, <1>2, <1>3, <1>4, <1>5

\* applyShippingStatus.
LEMMA ApplyList ==
    ASSUME NEW scan
    PROVE  Good(Apply(scan), Applying)
<1> DEFINE first == << "moveShipment", "moveShipping", "readStatus", "follow" >>
           cash == << "collectCash", "sellReserved" >>
           moving == {"moveShipment", "moveShipping", "readStatus", "follow"}
           sum == moving \cup {"collectCash", "sellReserved"}
<1>1. Good(first, moving)
  BY DEF Good, InOrder, After, Before, Of, Opens, Statements
<1>2. first \o << >> = first /\ (first \o cash) \o << >> = first \o cash
  OBVIOUS
<1>3. Good(first \o cash, sum)
  BY <1>1, SmallLists, GoodJoined
<1>4. Good(first, sum)
  BY <1>1 DEF Good, Of
<1>5. PICK one : one = IF scan = "DELIVERED" THEN first \o cash ELSE first
  OBVIOUS
<1>6. Good(one, sum)
  BY <1>3, <1>4, <1>5
<1>7. one \o << >> = one
  BY <1>6 DEF Good
<1>8. Good(one \o ReturnStock, sum \cup Restoring)
  BY <1>6, Lists, GoodJoined
<1>9. Good(one, sum \cup Restoring)
  BY <1>6 DEF Good, Of
<1>10. Apply(scan) = IF scan = "RTO_DELIVERED" THEN one \o ReturnStock ELSE one
  BY <1>2, <1>5, <1>7 DEF Apply
<1>11. sum \cup Restoring = Applying
  BY DEF Applying
<1> HIDE DEF sum
<1> QED
  BY <1>8, <1>9, <1>10, <1>11

-----------------------------------------------------------------------------
(* A handler that goes on.                                                 *)

LEMMA NoJobWellFormed ==
    ASSUME LifecycleConstants
    PROVE  WellFormed(NoJob) /\ NoJob.todo = << >> /\ NoJob.event = None
<1>1. NoJob.todo = << >> /\ NoJob.verdict = "" /\ NoJob.event = None
  BY DEF NoJob
<1>2. NoJob \in Jobs
  BY DEF NoJob, Jobs, Attempts, LifecycleConstants, Verdicts
<1>3. InOrder(<< >>) /\ \A S : ~Has(<< >>, S)
  BY DEF InOrder, After, Before, Has
<1>4. Before(<< >>, "setIfSame", "claimRestore")
  BY DEF Before
<1> QED
  BY <1>1, <1>2, <1>3, <1>4 DEF WellFormed, Equipped

\* j is the job i without its first m statements.
Rest(j, i, m) ==
    /\ j \in Jobs /\ Drops(j.todo, i.todo, m)
    /\ j.order = i.order /\ j.event = i.event /\ j.verdict = i.verdict

LEMMA NextRest ==
    ASSUME NEW w \in Workers, job \in [Workers -> Jobs], job[w].todo # << >>
    PROVE  Rest(Next1(w), job[w], 1)
<1>1. job[w] \in Jobs /\ job[w].todo \in Seq(Statements)
  BY DEF Jobs
<1>2. Drops(Tail(job[w].todo), job[w].todo, 1)
  BY <1>1, TailDrops
<1>3. Next1(w) = [job[w] EXCEPT !.todo = Tail(job[w].todo)]
  BY DEF Next1
<1>4. Tail(job[w].todo) \in Seq(Statements)
  BY <1>2 DEF Drops
<1> QED
  BY <1>1, <1>2, <1>3, <1>4 DEF Rest, Jobs

LEMMA SkipRest ==
    ASSUME NEW w \in Workers, job \in [Workers -> Jobs], NEW n \in Nat,
           n + 1 <= Len(job[w].todo)
    PROVE  Rest(Skipping(w, n), job[w], n + 1)
<1>1. job[w] \in Jobs /\ job[w].todo \in Seq(Statements)
  BY DEF Jobs
<1>2. (n + 1) + 1 = n + 2 /\ n + 1 \in 0 .. Len(job[w].todo)
  BY <1>1
<1> DEFINE rest == SubSeq(job[w].todo, n + 2, Len(job[w].todo))
<1>3. Drops(rest, job[w].todo, n + 1)
  BY <1>1, <1>2, SuffixDrops
<1>4. Skipping(w, n) = [job[w] EXCEPT !.todo = rest]
  BY DEF Skipping
<1>5. rest \in Seq(Statements)
  BY <1>3 DEF Drops
<1> HIDE DEF rest
<1> QED
  BY <1>1, <1>3, <1>4, <1>5 DEF Rest, Jobs

LEMMA RestWellFormed ==
    ASSUME NEW i, NEW j, NEW m \in Nat, WellFormed(i), Rest(j, i, m)
    PROVE  WellFormed(j)
<1> DEFINE s == j.todo
           t == i.todo
<1>1. t \in Seq(Statements) /\ s \in Seq(Statements) /\ Drops(s, t, m)
  BY DEF WellFormed, Rest, Jobs
<1>2. InOrder(s)
  BY <1>1, DropsInOrder DEF WellFormed
<1>3. \A S : Has(s, S) => Has(t, S)
  BY <1>1, DropsHas
<1>4. s # << >> => t # << >>
  BY <1>1 DEF Drops
<1>5. Before(t, "setIfSame", "claimRestore") => Before(s, "setIfSame", "claimRestore")
  BY <1>1, DropsBefore
<1>6. j.order = i.order /\ j.event = i.event /\ j.verdict = i.verdict
  BY DEF Rest
<1> QED
  BY <1>2, <1>3, <1>4, <1>5, <1>6 DEF WellFormed, Equipped, Rest

LEMMA Started ==
    ASSUME LifecycleConstants, NEW w \in Workers, job \in [Workers -> Jobs], NEW j \in Jobs,
           job' = [job EXCEPT ![w] = j]
    PROVE  /\ job' \in [Workers -> Jobs] /\ job'[w] = j
           /\ \A v \in Workers \ {w} : job'[v] = job[v]
  OBVIOUS

\* What the handler of w is after it went on with the last statements.
LEMMA WentOn ==
    ASSUME LifecycleConstants, NEW w \in Workers, job \in [Workers -> Jobs],
           WellFormed(job[w]), NEW m \in Nat, NEW j, Rest(j, job[w], m), GoOn(w, j)
    PROVE  /\ job' \in [Workers -> Jobs]
           /\ \A v \in Workers \ {w} : job'[v] = job[v]
           /\ WellFormed(job'[w])
           /\ job'[w].todo # << >> => job'[w].order = job[w].order
           /\ job'[w].todo = << >> => job'[w] = NoJob
           /\ job'[w].event # None => job'[w].event = job[w].event
           /\ \A S : Has(job'[w].todo, S) => Has(job[w].todo, S)
           /\ \A x, p : After(job[w].todo, x, p) /\ m > 0 /\ At(w, x)' => job[w].todo[m] = p
<1>1. j \in Jobs /\ WellFormed(j)
  BY RestWellFormed DEF Rest
<1>2. NoJob \in Jobs /\ WellFormed(NoJob) /\ NoJob.todo = << >> /\ NoJob.event = None
  BY NoJobWellFormed DEF WellFormed
<1>3. PICK k : k = IF j.todo = << >> THEN NoJob ELSE j
  OBVIOUS
<1>4. job' = [job EXCEPT ![w] = k] /\ k \in Jobs
  BY <1>1, <1>2, <1>3 DEF GoOn
<1>5. job' \in [Workers -> Jobs] /\ job'[w] = k /\ \A v \in Workers \ {w} : job'[v] = job[v]
  BY <1>4
<1>6. WellFormed(k)
  BY <1>1, <1>2, <1>3
<1>7. k.todo # << >> => k = j
  BY <1>2, <1>3
<1>8. k.event # None => k.event = job[w].event
  BY <1>2, <1>3 DEF Rest
<1>9. job[w].todo \in Seq(Statements) /\ Drops(j.todo, job[w].todo, m)
  BY DEF WellFormed, Jobs, Rest
<1>10. \A S : Has(k.todo, S) => Has(job[w].todo, S)
  <2>1. \A S : ~Has(<< >>, S)
    BY DEF Has
  <2> QED
    BY <1>2, <1>3, <1>9, <2>1, DropsHas
<1>11. ASSUME NEW x, NEW p, After(job[w].todo, x, p), m > 0, k.todo # << >>, Head(k.todo) = x
       PROVE  job[w].todo[m] = p
  <2>1. j.todo # << >> /\ Head(j.todo) = x /\ j.todo \in Seq(Statements)
    BY <1>1, <1>7, <1>11 DEF Jobs
  <2>2. j.todo[1] = x
    BY <2>1
  <2> QED
    BY <1>9, <1>11, <2>1, <2>2, DropsAfter
<1>12. \A x : At(w, x)' <=> k.todo # << >> /\ Head(k.todo) = x
  BY <1>5 DEF At
<1>13. k.todo = << >> => k = NoJob
  BY <1>3
<1> QED
  BY <1>5, <1>6, <1>7, <1>8, <1>10, <1>11, <1>12, <1>13 DEF Rest

-----------------------------------------------------------------------------
(* Being ready, and staying so.                                            *)

\* What no step takes back.
Monotone ==
    /\ \A o \in Orders : status[o] # "none" => status'[o] # "none"
    /\ restored \subseteq restored'
    /\ \A e \in Event : events[e] # "none" => events'[e] # "none"
    /\ \A o \in Orders : Captured(o) => Captured(o)'

\* What a step does not touch while v holds withStockLock.
Calm(v) ==
    stockLock = v =>
        /\ stockLock' = v
        /\ \A o \in Orders : status[o] = "none" => status'[o] = "none"
        /\ \A o \in Orders : gateway[o][0] = {} => gateway'[o][0] = {}

LEMMA OthersReady ==
    ASSUME Types, NEW v \in Workers, Ready(v), job'[v] = job[v], Monotone, Calm(v)
    PROVE  Ready(v)'
<1> DEFINE o == job[v].order
<1>1. \A s : At(v, s)' <=> At(v, s)
  BY DEF At
<1>2. job[v].todo # << >> => o \in Orders
  BY DEF Ready, WellFormed, Equipped
<1>3. WellFormed(job[v])'
  BY DEF Ready
<1>4. At(v, "restock") => stockLock' = v /\ o \in restored'
  BY DEF Ready, Calm, Monotone
<1>5. At(v, "insertOrder") => stockLock' = v /\ status'[o] = "none"
  BY <1>2 DEF Ready, Calm, At
<1>6. At(v, "openPayment") => stockLock' = v /\ gateway'[o][0] = {}
  BY <1>2 DEF Ready, Calm, At
<1>7. job[v].todo # << >> /\ ~At(v, "deduct") /\ ~At(v, "insertOrder") => status'[o] # "none"
  BY <1>2 DEF Ready, Monotone
<1>8. job[v].event # None => events'[job[v].event] # "none"
  BY DEF Ready, Monotone, WellFormed, Jobs
<1>9. Has(job[v].todo, {"claimPaid"}) => Captured(o)'
  <2>1. Has(job[v].todo, {"claimPaid"}) => job[v].todo # << >>
    BY DEF Has
  <2> QED
    BY <1>2, <2>1 DEF Ready, Monotone
<1>10. o' = o
  OBVIOUS
<1>11. (job[v].todo = << >> => Idle(v))'
  BY DEF Ready, Idle
<1> QED
  BY <1>1, <1>11, <1>3, <1>4, <1>5, <1>6, <1>7, <1>8, <1>9, <1>10 DEF Ready

\* Whatever comes next, what it relies on holds.
LEMMA ReadyAfter ==
    ASSUME LifecycleConstants, Types, NEW w \in Workers, Ready(w), job[w].todo # << >>,
           NEW m \in Nat, NEW j, Rest(j, job[w], m), GoOn(w, j), Monotone,
           At(w, "restock")' => stockLock' = w /\ job[w].order \in restored',
           At(w, "insertOrder")' => stockLock' = w /\ status'[job[w].order] = "none",
           At(w, "openPayment")' => stockLock' = w /\ gateway'[job[w].order][0] = {},
           ~At(w, "insertOrder")' => status'[job[w].order] # "none"
    PROVE  /\ Ready(w)' /\ job' \in [Workers -> Jobs]
           /\ \A v \in Workers \ {w} : job'[v] = job[v]
           /\ \A x, p : After(job[w].todo, x, p) /\ m > 0 /\ At(w, x)' => job[w].todo[m] = p
<1> DEFINE o == job[w].order
<1>1. job \in [Workers -> Jobs] /\ WellFormed(job[w]) /\ o \in Orders
  BY DEF Types, Ready, WellFormed, Equipped
<1>2. /\ job' \in [Workers -> Jobs]
      /\ \A v \in Workers \ {w} : job'[v] = job[v]
      /\ WellFormed(job'[w])
      /\ job'[w].todo # << >> => job'[w].order = o
      /\ job'[w].todo = << >> => job'[w] = NoJob
      /\ job'[w].event # None => job'[w].event = job[w].event
      /\ \A S : Has(job'[w].todo, S) => Has(job[w].todo, S)
      /\ \A x, p : After(job[w].todo, x, p) /\ m > 0 /\ At(w, x)' => job[w].todo[m] = p
  BY <1>1, WentOn
<1>3. job'[w].event # None => events'[job'[w].event] # "none"
  <2>1. job[w].event # None => job[w].event \in Event /\ events[job[w].event] # "none"
    BY <1>1 DEF WellFormed, Jobs, Ready
  <2> QED
    BY <1>2, <2>1 DEF Monotone
<1>4. Has(job'[w].todo, {"claimPaid"}) => Captured(o)' /\ job'[w].order = o
  <2>1. Has(job'[w].todo, {"claimPaid"}) => job'[w].todo # << >>
    BY DEF Has
  <2>2. Has(job[w].todo, {"claimPaid"}) => Captured(o)
    BY DEF Ready
  <2> QED
    BY <1>1, <1>2, <2>1, <2>2 DEF Monotone
<1>5. Ready(w)'
  <2>1. \A x : At(w, x)' => job'[w].order = o
    BY <1>2 DEF At
  <2>2. /\ (At(w, "restock") => stockLock = w /\ job[w].order \in restored)'
        /\ (At(w, "insertOrder") => stockLock = w /\ status[job[w].order] = "none")'
        /\ (At(w, "openPayment") => stockLock = w /\ gateway[job[w].order][0] = {})'
    BY <2>1
  <2>3. (job[w].todo # << >> /\ ~At(w, "deduct") /\ ~At(w, "insertOrder")
           => status[job[w].order] # "none")'
    BY <1>2
  <2>4. (job[w].event # None => events[job[w].event] # "none")'
    BY <1>3
  <2>5. (Has(job[w].todo, {"claimPaid"}) => Captured(job[w].order))'
    BY <1>4
  <2>6. (job[w].todo = << >> => Idle(w))'
    BY <1>2 DEF Idle
  <2> QED
    BY <1>2, <2>2, <2>3, <2>4, <2>5, <2>6 DEF Ready
<1> QED
  BY <1>2, <1>5

\* Statements after which the next needs no lock.
LEMMA WentOnReady ==
    ASSUME LifecycleConstants, Types, NEW w \in Workers, Ready(w), job[w].todo # << >>,
           ~At(w, "deduct"), ~At(w, "insertOrder"),
           NEW m \in Nat, NEW j, Rest(j, job[w], m), GoOn(w, j), m > 0,
           job[w].todo[m] \notin {"claimRestore", "deduct", "insertOrder", "restock"},
           Monotone
    PROVE  /\ Ready(w)' /\ job' \in [Workers -> Jobs]
           /\ \A v \in Workers \ {w} : job'[v] = job[v]
           /\ ~At(w, "restock")' /\ ~At(w, "insertOrder")' /\ ~At(w, "openPayment")'
           /\ ~At(w, "voidOrder")'
<1>1. job \in [Workers -> Jobs] /\ WellFormed(job[w])
  BY DEF Types, Ready
<1>2. \A x, p : After(job[w].todo, x, p) /\ m > 0 /\ At(w, x)' => job[w].todo[m] = p
  BY <1>1, WentOn
<1>3. /\ ~At(w, "restock")' /\ ~At(w, "insertOrder")' /\ ~At(w, "openPayment")'
      /\ ~At(w, "voidOrder")'
  <2>1. InOrder(job[w].todo)
    BY <1>1 DEF WellFormed
  <2>2. /\ After(job[w].todo, "restock", "claimRestore")
        /\ After(job[w].todo, "insertOrder", "deduct")
        /\ After(job[w].todo, "openPayment", "insertOrder")
        /\ After(job[w].todo, "voidOrder", "restock")
    BY <2>1 DEF InOrder
  <2> QED
    BY <1>2, <2>2
<1>4. job[w].order \in Orders /\ status[job[w].order] # "none"
  BY <1>1 DEF WellFormed, Equipped, Ready
<1>5. status'[job[w].order] # "none"
  BY <1>4 DEF Monotone
<1> QED
  BY <1>3, <1>5, ReadyAfter

LEMMA AtHead ==
    ASSUME NEW w \in Workers, Ready(w), NEW s, At(w, s)
    PROVE  /\ job[w] \in Jobs /\ WellFormed(job[w])
           /\ job[w].todo \in Seq(Statements) /\ job[w].todo # << >>
           /\ Len(job[w].todo) > 0 /\ job[w].todo[1] = s
           /\ job[w].order \in Orders
           /\ s \notin {"deduct", "insertOrder"} => status[job[w].order] # "none"
           /\ \A x : x # s => ~At(w, x)
           /\ \A S : s \in S => Has(job[w].todo, S)
<1>1. job[w] \in Jobs /\ WellFormed(job[w]) /\ job[w].todo \in Seq(Statements)
  BY DEF Ready, WellFormed, Jobs
<1>2. job[w].todo # << >> /\ Head(job[w].todo) = s
  BY DEF At
<1>3. Len(job[w].todo) > 0 /\ job[w].todo[1] = s
  BY <1>1, <1>2
<1>4. job[w].order \in Orders
  BY <1>1, <1>2 DEF WellFormed, Equipped
<1>5. \A x : x # s => ~At(w, x)
  BY <1>2 DEF At
<1>6. s \notin {"deduct", "insertOrder"} => status[job[w].order] # "none"
  BY <1>2, <1>5 DEF Ready
<1>7. \A S : s \in S => Has(job[w].todo, S)
  <2>1. 1 \in 1 .. Len(job[w].todo)
    BY <1>1, <1>3
  <2> QED
    BY <1>3, <2>1 DEF Has
<1> QED
  BY <1>1, <1>2, <1>3, <1>4, <1>5, <1>6, <1>7

\* What the handler carries is what its next statement needs.
LEMMA HeadEquipped ==
    ASSUME NEW w \in Workers, Ready(w), NEW s, At(w, s)
    PROVE  /\ s \in {"openPayment", "insertAttempt"} => Method[job[w].order] = "online"
           /\ s = "recordPayment" => job[w].verdict \in {"PENDING", "PAID", "FAILED"}
           /\ s = "failPayment" => job[w].verdict \in {"FAILED", "CANCELLED", "EXPIRED"}
           /\ s \in {"moveShipment", "moveShipping", "follow"} => job[w].verdict \in Scans
           /\ s = "setIfSame" => job[w].verdict \in OrderStatuses \ {"PENDING_PAYMENT"}
           /\ s = "finish" => job[w].event \in Event
<1>1. Equipped(job[w]) /\ \A S : s \in S => Has(job[w].todo, S)
  BY AtHead DEF WellFormed
<1>2. /\ s \in {"openPayment", "insertAttempt"} => Has(job[w].todo, {"openPayment", "insertAttempt"})
      /\ s = "recordPayment" => Has(job[w].todo, {"recordPayment"})
      /\ s = "failPayment" => Has(job[w].todo, {"failPayment"})
      /\ s \in {"moveShipment", "moveShipping", "follow"}
            => Has(job[w].todo, {"moveShipment", "moveShipping", "follow"})
      /\ s = "setIfSame" => Has(job[w].todo, {"setIfSame"})
      /\ s = "finish" => Has(job[w].todo, {"finish"})
  BY <1>1
<1> QED
  BY <1>1, <1>2 DEF Equipped

\* The units are where they were.
LEMMA BalanceStays ==
    ASSUME Balance, NEW w \in Workers, UNCHANGED << committed, restored, shelf >>,
           \A v \in Workers \ {w} : job'[v] = job[v],
           ~At(w, "restock"), ~At(w, "insertOrder"),
           ~At(w, "restock")', ~At(w, "insertOrder")'
    PROVE  Balance'
<1>1. InTransit' = InTransit
  BY DEF InTransit, At
<1>2. UnitsAccountedFor' = UnitsAccountedFor
  BY <1>1 DEF UnitsAccountedFor
<1> QED
  BY <1>2 DEF Balance, NothingSoldTwice, StockBalance

\* A step that touches neither the claims nor the lock, and inserts no order.
Gentle ==
    /\ UNCHANGED << committed, restored, shelf, stockLock >>
    /\ \A o \in Orders : status'[o] = "none" <=> status[o] = "none"
    /\ \A e \in Event : events[e] # "none" => events'[e] # "none"
    /\ \A o \in Orders : gateway[o][0] = {} => gateway'[o][0] = {}
    /\ \A o \in Orders : Captured(o) => Captured(o)'

LEMMA GentleIsCalm ==
    ASSUME Gentle
    PROVE  Monotone /\ \A v : Calm(v)
  BY DEF Gentle, Monotone, Calm

LEMMA PlainStep ==
    ASSUME LifecycleConstants, IInv, NEW w \in Workers, NEW s, At(w, s),
           s \notin {"deduct", "insertOrder", "claimRestore", "restock"},
           NEW m \in Nat, NEW j, Rest(j, job[w], m), GoOn(w, j), m > 0,
           job[w].todo[m] \notin {"claimRestore", "deduct", "insertOrder", "restock"},
           Gentle
    PROVE  /\ \A v \in Workers : Ready(v)'
           /\ Balance' /\ job' \in [Workers -> Jobs]
           /\ \A v \in Workers \ {w} : job'[v] = job[v]
           /\ ~At(w, "voidOrder")'
<1>1. Types /\ Balance /\ \A v \in Workers : Ready(v)
  BY DEF IInv
<1>2. Monotone /\ \A v : Calm(v)
  BY GentleIsCalm
<1>3. job[w].todo # << >> /\ \A x : x # s => ~At(w, x)
  BY <1>1, AtHead
<1>4. ~At(w, "deduct") /\ ~At(w, "insertOrder") /\ ~At(w, "restock")
  BY <1>3
<1>5. /\ Ready(w)' /\ job' \in [Workers -> Jobs]
      /\ \A v \in Workers \ {w} : job'[v] = job[v]
      /\ ~At(w, "restock")' /\ ~At(w, "insertOrder")' /\ ~At(w, "openPayment")'
      /\ ~At(w, "voidOrder")'
  BY <1>1, <1>2, <1>3, <1>4, WentOnReady
<1>6. \A v \in Workers \ {w} : Ready(v)'
  BY <1>1, <1>2, <1>5, OthersReady
<1>7. Balance'
  BY <1>1, <1>4, <1>5, BalanceStays DEF Gentle
<1> QED
  BY <1>5, <1>6, <1>7

\* The same for the statement that follows the one at the head.
LEMMA NextPlain ==
    ASSUME LifecycleConstants, IInv, NEW w \in Workers, NEW s, At(w, s),
           s \notin {"deduct", "insertOrder", "claimRestore", "restock"},
           GoOn(w, Next1(w)), Gentle
    PROVE  /\ \A v \in Workers : Ready(v)'
           /\ Balance' /\ job' \in [Workers -> Jobs]
           /\ \A v \in Workers \ {w} : job'[v] = job[v]
           /\ ~At(w, "voidOrder")'
<1>1. Ready(w) /\ job \in [Workers -> Jobs]
  BY DEF IInv, Types
<1>2. job[w].todo # << >> /\ job[w].todo[1] = s
  BY <1>1, AtHead
<1>3. Rest(Next1(w), job[w], 1)
  BY <1>1, <1>2, NextRest
<1> QED
  BY <1>2, <1>3, PlainStep

\* The same for a branch that is not taken: n statements after a, up to b.
LEMMA SkipPlain ==
    ASSUME LifecycleConstants, IInv, NEW w \in Workers, NEW s, At(w, s),
           s \notin {"deduct", "insertOrder", "claimRestore", "restock"},
           NEW n \in Nat, n + 1 <= Len(job[w].todo),
           job[w].todo[n + 1] \notin {"claimRestore", "deduct", "insertOrder", "restock"},
           GoOn(w, Skipping(w, n)), Gentle
    PROVE  /\ \A v \in Workers : Ready(v)'
           /\ Balance' /\ job' \in [Workers -> Jobs]
           /\ \A v \in Workers \ {w} : job'[v] = job[v]
           /\ ~At(w, "voidOrder")'
<1>1. job \in [Workers -> Jobs]
  BY DEF IInv, Types
<1>2. Rest(Skipping(w, n), job[w], n + 1)
  BY <1>1, SkipRest
<1> QED
  BY <1>2, PlainStep

\* A handler that ends.
LEMMA EndPlain ==
    ASSUME LifecycleConstants, IInv, NEW w \in Workers,
           ~At(w, "restock"), ~At(w, "insertOrder"),
           job' = [job EXCEPT ![w] = NoJob], Gentle
    PROVE  /\ \A v \in Workers : Ready(v)'
           /\ Balance' /\ job' \in [Workers -> Jobs]
           /\ \A v \in Workers \ {w} : job'[v] = job[v]
           /\ job'[w] = NoJob /\ ~At(w, "voidOrder")'
<1>1. Types /\ Balance /\ \A v \in Workers : Ready(v)
  BY DEF IInv
<1>2. Monotone /\ \A v : Calm(v)
  BY GentleIsCalm
<1>3. WellFormed(NoJob) /\ NoJob.todo = << >> /\ NoJob.event = None
  BY NoJobWellFormed
<1>4. job \in [Workers -> Jobs] /\ NoJob \in Jobs
  BY <1>1, <1>3 DEF Types, WellFormed
<1>5. job' \in [Workers -> Jobs] /\ job'[w] = NoJob /\ \A v \in Workers \ {w} : job'[v] = job[v]
  BY <1>4
<1>6. \A x : ~At(w, x)'
  BY <1>3, <1>5 DEF At
<1>7. ~Has(NoJob.todo, {"claimPaid"})
  BY <1>3 DEF Has
<1>8. Ready(w)'
  BY <1>3, <1>5, <1>6, <1>7 DEF Ready, Idle
<1>9. \A v \in Workers \ {w} : Ready(v)'
  BY <1>1, <1>2, <1>5, OthersReady
<1>10. Balance'
  BY <1>1, <1>5, <1>6, BalanceStays DEF Gentle
<1> QED
  BY <1>5, <1>6, <1>8, <1>9, <1>10

\* A handler that starts, or learns what is left to do.
LEMMA StartPlain ==
    ASSUME LifecycleConstants, IInv, NEW w \in Workers,
           ~At(w, "restock"), ~At(w, "insertOrder"), NEW j, WellFormed(j),
           job' = [job EXCEPT ![w] = j], j.todo # << >>,
           Opens(j.todo[1]),
           j.todo[1] # "deduct" => status'[j.order] # "none",
           j.event # None => events'[j.event] # "none",
           Has(j.todo, {"claimPaid"}) => \A o \in Orders : o = j.order => Captured(o)',
           Gentle
    PROVE  /\ \A v \in Workers : Ready(v)'
           /\ Balance' /\ job' \in [Workers -> Jobs] /\ job'[w] = j
           /\ \A v \in Workers \ {w} : job'[v] = job[v]
           /\ ~At(w, "voidOrder")'
<1>1. Types /\ Balance /\ \A v \in Workers : Ready(v)
  BY DEF IInv
<1>2. Monotone /\ \A v : Calm(v)
  BY GentleIsCalm
<1>4. j \in Jobs /\ job \in [Workers -> Jobs] /\ j.order \in Orders
  BY <1>1 DEF Types, WellFormed, Equipped
<1>5. job' \in [Workers -> Jobs] /\ job'[w] = j /\ \A v \in Workers \ {w} : job'[v] = job[v]
  BY <1>4
<1>7. Head(j.todo) = j.todo[1]
  <2>1. j.todo \in Seq(Statements)
    BY <1>4 DEF Jobs
  <2> QED
    BY <2>1
<1>8. \A x : At(w, x)' <=> x = j.todo[1]
  BY <1>5, <1>7 DEF At
<1>9. /\ ~At(w, "restock")' /\ ~At(w, "insertOrder")' /\ ~At(w, "openPayment")'
      /\ ~At(w, "voidOrder")'
  BY <1>8 DEF Opens
<1>10. Ready(w)'
  <2>1. (job[w].todo # << >> /\ ~At(w, "deduct") /\ ~At(w, "insertOrder")
           => status[job[w].order] # "none")'
    BY <1>5, <1>8
  <2>2. (Has(job[w].todo, {"claimPaid"}) => Captured(job[w].order))'
    BY <1>4, <1>5
  <2>3. (job[w].event # None => events[job[w].event] # "none")'
    BY <1>5
  <2> QED
    BY <1>5, <1>9, <2>1, <2>2, <2>3 DEF Ready
<1>11. \A v \in Workers \ {w} : Ready(v)'
  BY <1>1, <1>2, <1>5, OthersReady
<1>12. Balance'
  BY <1>1, <1>5, <1>9, BalanceStays DEF Gentle
<1> QED
  BY <1>5, <1>9, <1>10, <1>11, <1>12

LEMMA EventOrder ==
    ASSUME NEW e \in Event
    PROVE  e.order \in Orders
  BY DEF Event

LEMMA MoneyStays ==
    ASSUME Money, Types,
           \A o \in Orders : Captured(o) => Captured(o)',
           \A o \in Orders, k \in Attempts : gateway'[o][k] # {} =>
              gateway[o][k] # {} \/ (Method[o] = "online" /\ ledger'[o][k] # "none"),
           \A o \in Orders, k \in Attempts : ledger[o][k] # "none" => ledger'[o][k] # "none",
           \A o \in Orders : Method[o] = "online" /\ (paymentStatus'[o] \in Settled \/ o \in collected')
              => paymentStatus[o] \in Settled \/ o \in collected \/ Captured(o),
           \A e \in Event : events'[e] # "none" /\ e.about = "captured" =>
              events[e] # "none" \/ Captured(e.order)
    PROVE  Money'
<1>1. \A o \in Orders, k \in Attempts : gateway'[o][k] # {} =>
          Method[o] = "online" /\ ledger'[o][k] # "none"
  BY DEF Money
<1>2. \A o \in Orders : Method[o] = "online" /\ (paymentStatus'[o] \in Settled \/ o \in collected')
         => Captured(o)'
  BY DEF Money
<1>3. \A e \in Event : events'[e] # "none" /\ e.about = "captured" => Captured(e.order)'
  BY EventOrder DEF Money
<1> QED
  BY <1>1, <1>2, <1>3 DEF Money

LEMMA IdleNowhere ==
    ASSUME LifecycleConstants, NEW w \in Workers, Idle(w)
    PROVE  \A x : ~At(w, x)
  BY NoJobWellFormed DEF Idle, At

-----------------------------------------------------------------------------
(* The statements, one after the other.                                    *)

LEMMA ConfirmStep ==
    ASSUME LifecycleConstants, IInv, NEW w \in Workers, Confirm(w)
    PROVE  IInv'
<1> DEFINE o == job[w].order
<1>1. At(w, "confirm") /\ Ready(w) /\ Types /\ Inserted /\ Money
  BY DEF Confirm, IInv
<1>2. o \in Orders /\ status[o] # "none" /\ o \in committed
  BY <1>1, AtHead DEF Inserted
<1>6. Gentle
  BY <1>1, <1>2 DEF Confirm, Gentle, Types, Captured, stockVars, orderVars, world, eventVars
<1>7. /\ \A v \in Workers : Ready(v)'
      /\ Balance' /\ job' \in [Workers -> Jobs]
  BY <1>1, <1>6, NextPlain DEF Confirm
<1>8. Types'
  BY <1>1, <1>2, <1>7 DEF Types, Confirm, stockVars, orderVars, world, eventVars, OrderStatuses, PaymentStatuses
<1>9. Inserted'
  BY <1>1, <1>2, <1>6 DEF Inserted, Types, Gentle, Confirm, stockVars, orderVars, world, eventVars
<1>10. Money'
  <2>1. /\ \A p \in Orders : Captured(p) => Captured(p)'
        /\ \A p \in Orders, k \in Attempts : gateway'[p][k] # {} => gateway[p][k] # {}
        /\ \A p \in Orders, k \in Attempts : ledger[p][k] # "none" => ledger'[p][k] # "none"
    BY <1>1, <1>2, <1>6 DEF Types, Gentle, Confirm, stockVars, orderVars, world, eventVars
  <2>2. \A p \in Orders : Method[p] = "online" /\ (paymentStatus'[p] \in Settled \/ p \in collected')
           => paymentStatus[p] \in Settled \/ p \in collected \/ Captured(p)
    BY <1>1, <1>2 DEF Types, Settled, Confirm, stockVars, orderVars, world, eventVars
  <2>3. \A e \in Event : events'[e] # "none" /\ e.about = "captured" =>
           events[e] # "none" \/ Captured(e.order)
    BY <1>1, <1>2 DEF Types, Confirm, stockVars, orderVars, world, eventVars
  <2> QED
    BY <1>1, <2>1, <2>2, <2>3, MoneyStays
<1> QED
  BY <1>7, <1>8, <1>9, <1>10 DEF IInv

LEMMA VoidOrderStep ==
    ASSUME LifecycleConstants, IInv, NEW w \in Workers, VoidOrder(w)
    PROVE  IInv'
<1> DEFINE o == job[w].order
<1>1. At(w, "voidOrder") /\ Ready(w) /\ Types /\ Inserted /\ Money
  BY DEF VoidOrder, IInv
<1>2. o \in Orders /\ status[o] # "none" /\ o \in committed
  BY <1>1, AtHead DEF Inserted
<1>6. Gentle
  BY <1>1, <1>2 DEF VoidOrder, Gentle, Types, Captured, stockVars, orderVars, world, eventVars
<1>7. /\ \A v \in Workers : Ready(v)'
      /\ Balance' /\ job' \in [Workers -> Jobs]
  BY <1>1, <1>6, NextPlain DEF VoidOrder
<1>8. Types'
  BY <1>1, <1>2, <1>7 DEF Types, VoidOrder, stockVars, orderVars, world, eventVars, OrderStatuses, PaymentStatuses
<1>9. Inserted'
  BY <1>1, <1>2, <1>6 DEF Inserted, Types, Gentle, VoidOrder, stockVars, orderVars, world, eventVars
<1>10. Money'
  <2>1. /\ \A p \in Orders : Captured(p) => Captured(p)'
        /\ \A p \in Orders, k \in Attempts : gateway'[p][k] # {} => gateway[p][k] # {}
        /\ \A p \in Orders, k \in Attempts : ledger[p][k] # "none" => ledger'[p][k] # "none"
    BY <1>1, <1>2, <1>6 DEF Types, Gentle, VoidOrder, stockVars, orderVars, world, eventVars
  <2>2. \A p \in Orders : Method[p] = "online" /\ (paymentStatus'[p] \in Settled \/ p \in collected')
           => paymentStatus[p] \in Settled \/ p \in collected \/ Captured(p)
    BY <1>1, <1>2 DEF Types, Settled, VoidOrder, stockVars, orderVars, world, eventVars
  <2>3. \A e \in Event : events'[e] # "none" /\ e.about = "captured" =>
           events[e] # "none" \/ Captured(e.order)
    BY <1>1, <1>2 DEF Types, VoidOrder, stockVars, orderVars, world, eventVars
  <2> QED
    BY <1>1, <2>1, <2>2, <2>3, MoneyStays
<1> QED
  BY <1>7, <1>8, <1>9, <1>10 DEF IInv

LEMMA CancelUnpaidStep ==
    ASSUME LifecycleConstants, IInv, NEW w \in Workers, CancelUnpaid(w)
    PROVE  IInv'
<1> DEFINE o == job[w].order
<1>1. At(w, "cancelUnpaid") /\ Ready(w) /\ Types /\ Inserted /\ Money
  BY DEF CancelUnpaid, IInv
<1>2. o \in Orders /\ status[o] # "none" /\ o \in committed
  BY <1>1, AtHead DEF Inserted
<1>6. Gentle
  BY <1>1, <1>2 DEF CancelUnpaid, Gentle, Types, Captured, stockVars, orderVars, world, eventVars
<1>7. /\ \A v \in Workers : Ready(v)'
      /\ Balance' /\ job' \in [Workers -> Jobs]
  BY <1>1, <1>6, NextPlain DEF CancelUnpaid
<1>8. Types'
  BY <1>1, <1>2, <1>7 DEF Types, CancelUnpaid, stockVars, orderVars, world, eventVars, OrderStatuses, PaymentStatuses
<1>9. Inserted'
  BY <1>1, <1>2, <1>6 DEF Inserted, Types, Gentle, CancelUnpaid, stockVars, orderVars, world, eventVars
<1>10. Money'
  <2>1. /\ \A p \in Orders : Captured(p) => Captured(p)'
        /\ \A p \in Orders, k \in Attempts : gateway'[p][k] # {} => gateway[p][k] # {}
        /\ \A p \in Orders, k \in Attempts : ledger[p][k] # "none" => ledger'[p][k] # "none"
    BY <1>1, <1>2, <1>6 DEF Types, Gentle, CancelUnpaid, stockVars, orderVars, world, eventVars
  <2>2. \A p \in Orders : Method[p] = "online" /\ (paymentStatus'[p] \in Settled \/ p \in collected')
           => paymentStatus[p] \in Settled \/ p \in collected \/ Captured(p)
    BY <1>1, <1>2 DEF Types, Settled, CancelUnpaid, stockVars, orderVars, world, eventVars
  <2>3. \A e \in Event : events'[e] # "none" /\ e.about = "captured" =>
           events[e] # "none" \/ Captured(e.order)
    BY <1>1, <1>2 DEF Types, CancelUnpaid, stockVars, orderVars, world, eventVars
  <2> QED
    BY <1>1, <2>1, <2>2, <2>3, MoneyStays
<1> QED
  BY <1>7, <1>8, <1>9, <1>10 DEF IInv

LEMMA RecordPaymentStep ==
    ASSUME LifecycleConstants, IInv, NEW w \in Workers, RecordPayment(w)
    PROVE  IInv'
<1> DEFINE o == job[w].order
<1>1. At(w, "recordPayment") /\ Ready(w) /\ Types /\ Inserted /\ Money
  BY DEF RecordPayment, IInv
<1>2. o \in Orders /\ status[o] # "none" /\ o \in committed
  BY <1>1, AtHead DEF Inserted
<1>3. job[w].verdict \in {"PENDING", "PAID", "FAILED"} /\ job[w].attempt \in Attempts
  BY <1>1, AtHead, HeadEquipped DEF Jobs
<1>6. Gentle
  BY <1>1, <1>2, <1>3 DEF RecordPayment, Gentle, Types, Captured, stockVars, orderVars, world, eventVars
<1>7. /\ \A v \in Workers : Ready(v)'
      /\ Balance' /\ job' \in [Workers -> Jobs]
  BY <1>1, <1>6, NextPlain DEF RecordPayment
<1>8. Types'
  BY <1>1, <1>2, <1>7, <1>3 DEF Types, RecordPayment, stockVars, orderVars, world, eventVars
<1>9. Inserted'
  BY <1>1, <1>2, <1>6, <1>3 DEF Inserted, Types, Gentle, RecordPayment, stockVars, orderVars, world, eventVars
<1>10. Money'
  <2>1. /\ \A p \in Orders : Captured(p) => Captured(p)'
        /\ \A p \in Orders, k \in Attempts : gateway'[p][k] # {} => gateway[p][k] # {}
        /\ \A p \in Orders, k \in Attempts : ledger[p][k] # "none" => ledger'[p][k] # "none"
    BY <1>1, <1>2, <1>6, <1>3 DEF Types, Gentle, RecordPayment, stockVars, orderVars, world, eventVars
  <2>2. \A p \in Orders : Method[p] = "online" /\ (paymentStatus'[p] \in Settled \/ p \in collected')
           => paymentStatus[p] \in Settled \/ p \in collected \/ Captured(p)
    BY <1>1, <1>2, <1>3 DEF Types, Settled, RecordPayment, stockVars, orderVars, world, eventVars
  <2>3. \A e \in Event : events'[e] # "none" /\ e.about = "captured" =>
           events[e] # "none" \/ Captured(e.order)
    BY <1>1, <1>2, <1>3 DEF Types, RecordPayment, stockVars, orderVars, world, eventVars
  <2> QED
    BY <1>1, <2>1, <2>2, <2>3, MoneyStays
<1> QED
  BY <1>7, <1>8, <1>9, <1>10 DEF IInv

LEMMA NoteAwbStep ==
    ASSUME LifecycleConstants, IInv, NEW w \in Workers, NoteAwb(w)
    PROVE  IInv'
<1> DEFINE o == job[w].order
<1>1. At(w, "noteAwb") /\ Ready(w) /\ Types /\ Inserted /\ Money
  BY DEF NoteAwb, IInv
<1>2. o \in Orders /\ status[o] # "none" /\ o \in committed
  BY <1>1, AtHead DEF Inserted
<1>6. Gentle
  BY <1>1, <1>2 DEF NoteAwb, Gentle, Types, Captured, stockVars, orderVars, world, eventVars
<1>7. /\ \A v \in Workers : Ready(v)'
      /\ Balance' /\ job' \in [Workers -> Jobs]
  BY <1>1, <1>6, NextPlain DEF NoteAwb
<1>8. Types'
  BY <1>1, <1>2, <1>7 DEF Types, NoteAwb, stockVars, orderVars, world, eventVars
<1>9. Inserted'
  BY <1>1, <1>2, <1>6 DEF Inserted, Types, Gentle, NoteAwb, stockVars, orderVars, world, eventVars
<1>10. Money'
  <2>1. /\ \A p \in Orders : Captured(p) => Captured(p)'
        /\ \A p \in Orders, k \in Attempts : gateway'[p][k] # {} => gateway[p][k] # {}
        /\ \A p \in Orders, k \in Attempts : ledger[p][k] # "none" => ledger'[p][k] # "none"
    BY <1>1, <1>2, <1>6 DEF Types, Gentle, NoteAwb, stockVars, orderVars, world, eventVars
  <2>2. \A p \in Orders : Method[p] = "online" /\ (paymentStatus'[p] \in Settled \/ p \in collected')
           => paymentStatus[p] \in Settled \/ p \in collected \/ Captured(p)
    BY <1>1, <1>2 DEF Types, Settled, NoteAwb, stockVars, orderVars, world, eventVars
  <2>3. \A e \in Event : events'[e] # "none" /\ e.about = "captured" =>
           events[e] # "none" \/ Captured(e.order)
    BY <1>1, <1>2 DEF Types, NoteAwb, stockVars, orderVars, world, eventVars
  <2> QED
    BY <1>1, <2>1, <2>2, <2>3, MoneyStays
<1> QED
  BY <1>7, <1>8, <1>9, <1>10 DEF IInv

LEMMA RecallOrderStep ==
    ASSUME LifecycleConstants, IInv, NEW w \in Workers, RecallOrder(w)
    PROVE  IInv'
<1> DEFINE o == job[w].order
<1>1. At(w, "recallOrder") /\ Ready(w) /\ Types /\ Inserted /\ Money
  BY DEF RecallOrder, IInv
<1>2. o \in Orders /\ status[o] # "none" /\ o \in committed
  BY <1>1, AtHead DEF Inserted
<1>6. Gentle
  BY <1>1, <1>2 DEF RecallOrder, Gentle, Types, Captured, stockVars, orderVars, world, eventVars
<1>7. /\ \A v \in Workers : Ready(v)'
      /\ Balance' /\ job' \in [Workers -> Jobs]
  BY <1>1, <1>6, NextPlain DEF RecallOrder
<1>8. Types'
  BY <1>1, <1>2, <1>7 DEF Types, RecallOrder, stockVars, orderVars, world, eventVars
<1>9. Inserted'
  BY <1>1, <1>2, <1>6 DEF Inserted, Types, Gentle, RecallOrder, stockVars, orderVars, world, eventVars
<1>10. Money'
  <2>1. /\ \A p \in Orders : Captured(p) => Captured(p)'
        /\ \A p \in Orders, k \in Attempts : gateway'[p][k] # {} => gateway[p][k] # {}
        /\ \A p \in Orders, k \in Attempts : ledger[p][k] # "none" => ledger'[p][k] # "none"
    BY <1>1, <1>2, <1>6 DEF Types, Gentle, RecallOrder, stockVars, orderVars, world, eventVars
  <2>2. \A p \in Orders : Method[p] = "online" /\ (paymentStatus'[p] \in Settled \/ p \in collected')
           => paymentStatus[p] \in Settled \/ p \in collected \/ Captured(p)
    BY <1>1, <1>2 DEF Types, Settled, RecallOrder, stockVars, orderVars, world, eventVars
  <2>3. \A e \in Event : events'[e] # "none" /\ e.about = "captured" =>
           events[e] # "none" \/ Captured(e.order)
    BY <1>1, <1>2 DEF Types, RecallOrder, stockVars, orderVars, world, eventVars
  <2> QED
    BY <1>1, <2>1, <2>2, <2>3, MoneyStays
<1> QED
  BY <1>7, <1>8, <1>9, <1>10 DEF IInv

LEMMA CollectCashStep ==
    ASSUME LifecycleConstants, IInv, NEW w \in Workers, CollectCash(w)
    PROVE  IInv'
<1> DEFINE o == job[w].order
<1>1. At(w, "collectCash") /\ Ready(w) /\ Types /\ Inserted /\ Money
  BY DEF CollectCash, IInv
<1>2. o \in Orders /\ status[o] # "none" /\ o \in committed
  BY <1>1, AtHead DEF Inserted
<1>6. Gentle
  BY <1>1, <1>2 DEF CollectCash, Gentle, Types, Captured, stockVars, orderVars, world, eventVars
<1>7. /\ \A v \in Workers : Ready(v)'
      /\ Balance' /\ job' \in [Workers -> Jobs]
  BY <1>1, <1>6, NextPlain DEF CollectCash
<1>8. Types'
  BY <1>1, <1>2, <1>7 DEF Types, CollectCash, stockVars, orderVars, world, eventVars, OrderStatuses, PaymentStatuses
<1>9. Inserted'
  BY <1>1, <1>2, <1>6 DEF Inserted, Types, Gentle, CollectCash, stockVars, orderVars, world, eventVars
<1>10. Money'
  <2>1. /\ \A p \in Orders : Captured(p) => Captured(p)'
        /\ \A p \in Orders, k \in Attempts : gateway'[p][k] # {} => gateway[p][k] # {}
        /\ \A p \in Orders, k \in Attempts : ledger[p][k] # "none" => ledger'[p][k] # "none"
    BY <1>1, <1>2, <1>6 DEF Types, Gentle, CollectCash, stockVars, orderVars, world, eventVars
  <2>2. \A p \in Orders : Method[p] = "online" /\ (paymentStatus'[p] \in Settled \/ p \in collected')
           => paymentStatus[p] \in Settled \/ p \in collected \/ Captured(p)
    BY <1>1, <1>2 DEF Types, Settled, CollectCash, stockVars, orderVars, world, eventVars
  <2>3. \A e \in Event : events'[e] # "none" /\ e.about = "captured" =>
           events[e] # "none" \/ Captured(e.order)
    BY <1>1, <1>2 DEF Types, CollectCash, stockVars, orderVars, world, eventVars
  <2> QED
    BY <1>1, <2>1, <2>2, <2>3, MoneyStays
<1> QED
  BY <1>7, <1>8, <1>9, <1>10 DEF IInv

LEMMA SellReservedStep ==
    ASSUME LifecycleConstants, IInv, NEW w \in Workers, SellReserved(w)
    PROVE  IInv'
<1> DEFINE o == job[w].order
<1>1. At(w, "sellReserved") /\ Ready(w) /\ Types /\ Inserted /\ Money
  BY DEF SellReserved, IInv
<1>2. o \in Orders /\ status[o] # "none" /\ o \in committed
  BY <1>1, AtHead DEF Inserted
<1>6. Gentle
  BY <1>1, <1>2 DEF SellReserved, Gentle, Types, Captured, stockVars, orderVars, world, eventVars
<1>7. /\ \A v \in Workers : Ready(v)'
      /\ Balance' /\ job' \in [Workers -> Jobs]
  BY <1>1, <1>6, NextPlain DEF SellReserved
<1>8. Types'
  BY <1>1, <1>2, <1>7 DEF Types, SellReserved, stockVars, orderVars, world, eventVars
<1>9. Inserted'
  BY <1>1, <1>2, <1>6 DEF Inserted, Types, Gentle, SellReserved, stockVars, orderVars, world, eventVars
<1>10. Money'
  <2>1. /\ \A p \in Orders : Captured(p) => Captured(p)'
        /\ \A p \in Orders, k \in Attempts : gateway'[p][k] # {} => gateway[p][k] # {}
        /\ \A p \in Orders, k \in Attempts : ledger[p][k] # "none" => ledger'[p][k] # "none"
    BY <1>1, <1>2, <1>6 DEF Types, Gentle, SellReserved, stockVars, orderVars, world, eventVars
  <2>2. \A p \in Orders : Method[p] = "online" /\ (paymentStatus'[p] \in Settled \/ p \in collected')
           => paymentStatus[p] \in Settled \/ p \in collected \/ Captured(p)
    BY <1>1, <1>2 DEF Types, Settled, SellReserved, stockVars, orderVars, world, eventVars
  <2>3. \A e \in Event : events'[e] # "none" /\ e.about = "captured" =>
           events[e] # "none" \/ Captured(e.order)
    BY <1>1, <1>2 DEF Types, SellReserved, stockVars, orderVars, world, eventVars
  <2> QED
    BY <1>1, <2>1, <2>2, <2>3, MoneyStays
<1> QED
  BY <1>7, <1>8, <1>9, <1>10 DEF IInv

LEMMA FollowStep ==
    ASSUME LifecycleConstants, IInv, NEW w \in Workers, Follow(w)
    PROVE  IInv'
<1> DEFINE o == job[w].order
<1>1. At(w, "follow") /\ Ready(w) /\ Types /\ Inserted /\ Money
  BY DEF Follow, IInv
<1>2. o \in Orders /\ status[o] # "none" /\ o \in committed
  BY <1>1, AtHead DEF Inserted
<1>3. job[w].verdict \in Scans /\ SHIPPING_TO_ORDER_STATUS[job[w].verdict] \in OrderStatuses
                /\ SHIPPING_TO_ORDER_STATUS[job[w].verdict] \notin {"none", "PENDING_PAYMENT"}
  <2>1. job[w].verdict \in Scans
    BY <1>1, HeadEquipped
  <2> QED
    BY <2>1 DEF Scans, SHIPPING_TO_ORDER_STATUS, OrderStatuses
<1>6. Gentle
  BY <1>1, <1>2, <1>3 DEF Follow, Gentle, Types, Captured, stockVars, orderVars, world, eventVars
<1>7. /\ \A v \in Workers : Ready(v)'
      /\ Balance' /\ job' \in [Workers -> Jobs]
  BY <1>1, <1>6, NextPlain DEF Follow
<1>8. Types'
  BY <1>1, <1>2, <1>7, <1>3 DEF Types, Follow, stockVars, orderVars, world, eventVars
<1>9. Inserted'
  BY <1>1, <1>2, <1>6, <1>3 DEF Inserted, Types, Gentle, Follow, stockVars, orderVars, world, eventVars
<1>10. Money'
  <2>1. /\ \A p \in Orders : Captured(p) => Captured(p)'
        /\ \A p \in Orders, k \in Attempts : gateway'[p][k] # {} => gateway[p][k] # {}
        /\ \A p \in Orders, k \in Attempts : ledger[p][k] # "none" => ledger'[p][k] # "none"
    BY <1>1, <1>2, <1>6, <1>3 DEF Types, Gentle, Follow, stockVars, orderVars, world, eventVars
  <2>2. \A p \in Orders : Method[p] = "online" /\ (paymentStatus'[p] \in Settled \/ p \in collected')
           => paymentStatus[p] \in Settled \/ p \in collected \/ Captured(p)
    BY <1>1, <1>2, <1>3 DEF Types, Settled, Follow, stockVars, orderVars, world, eventVars
  <2>3. \A e \in Event : events'[e] # "none" /\ e.about = "captured" =>
           events[e] # "none" \/ Captured(e.order)
    BY <1>1, <1>2, <1>3 DEF Types, Follow, stockVars, orderVars, world, eventVars
  <2> QED
    BY <1>1, <2>1, <2>2, <2>3, MoneyStays
<1> QED
  BY <1>7, <1>8, <1>9, <1>10 DEF IInv

LEMMA RefundIfPaidStep ==
    ASSUME LifecycleConstants, IInv, NEW w \in Workers, RefundIfPaid(w)
    PROVE  IInv'
<1> DEFINE o == job[w].order
<1>1. At(w, "refundIfPaid") /\ Ready(w) /\ Types /\ Inserted /\ Money
  BY DEF RefundIfPaid, IInv
<1>2. o \in Orders /\ status[o] # "none" /\ o \in committed
  BY <1>1, AtHead DEF Inserted
<1>6. Gentle
  BY <1>1, <1>2 DEF RefundIfPaid, Gentle, Types, Captured, stockVars, orderVars, world, eventVars, GiveBack
<1>7. /\ \A v \in Workers : Ready(v)'
      /\ Balance' /\ job' \in [Workers -> Jobs]
  BY <1>1, <1>6, NextPlain DEF RefundIfPaid
<1>8. Types'
  <2>1. /\ refunded' \in [Orders -> {"none", "part", "full"}]
        /\ paymentStatus' \in [Orders -> PaymentStatuses \cup {"none"}]
    BY ZenonT(30), <1>1, <1>2 DEF Types, RefundIfPaid, PaymentStatuses, GiveBack
  <2>2. UNCHANGED << status, shippingStatus, collected, committed, restored, shelf, held, stockLock,
                     ledger, shipment, events, tries, gateway, scanned >>
    BY <1>1 DEF RefundIfPaid, stockVars, world, eventVars
  <2> QED
    BY <1>1, <1>7, <2>1, <2>2 DEF Types
<1>9. Inserted'
  BY <1>1, <1>2, <1>6 DEF Inserted, Types, Gentle, RefundIfPaid, stockVars, orderVars, world, eventVars, GiveBack
<1>10. Money'
  <2>1. /\ \A p \in Orders : Captured(p) => Captured(p)'
        /\ \A p \in Orders, k \in Attempts : gateway'[p][k] # {} => gateway[p][k] # {}
        /\ \A p \in Orders, k \in Attempts : ledger[p][k] # "none" => ledger'[p][k] # "none"
    BY <1>1, <1>2, <1>6 DEF Types, Gentle, RefundIfPaid, stockVars, orderVars, world, eventVars
  <2>2. \A p \in Orders : Method[p] = "online" /\ (paymentStatus'[p] \in Settled \/ p \in collected')
           => paymentStatus[p] \in Settled \/ p \in collected \/ Captured(p)
    BY <1>1, <1>2 DEF Types, Settled, RefundIfPaid, stockVars, orderVars, world, eventVars, GiveBack, Refundable
  <2>3. \A e \in Event : events'[e] # "none" /\ e.about = "captured" =>
           events[e] # "none" \/ Captured(e.order)
    BY <1>1, <1>2 DEF Types, RefundIfPaid, stockVars, orderVars, world, eventVars
  <2> QED
    BY <1>1, <2>1, <2>2, <2>3, MoneyStays
<1> QED
  BY <1>7, <1>8, <1>9, <1>10 DEF IInv

LEMMA FinishStep ==
    ASSUME LifecycleConstants, IInv, NEW w \in Workers, Finish(w)
    PROVE  IInv'
<1> DEFINE o == job[w].order
<1>1. At(w, "finish") /\ Ready(w) /\ Types /\ Inserted /\ Money
  BY DEF Finish, IInv
<1>2. o \in Orders /\ status[o] # "none" /\ o \in committed
  BY <1>1, AtHead DEF Inserted
<1>3. job[w].event \in Event /\ events[job[w].event] # "none"
  BY <1>1, HeadEquipped DEF Ready, LifecycleConstants
<1>6. Gentle
  BY <1>1, <1>2, <1>3 DEF Finish, Gentle, Types, Captured, stockVars, orderVars, world, eventVars, Counted
<1>7. /\ \A v \in Workers : Ready(v)'
      /\ Balance' /\ job' \in [Workers -> Jobs]
  BY <1>1, <1>6, NextPlain DEF Finish
<1>8. Types'
  BY <1>1, <1>2, <1>7, <1>3 DEF Types, Finish, stockVars, orderVars, world, eventVars, Counted
<1>9. Inserted'
  BY <1>1, <1>2, <1>6, <1>3 DEF Inserted, Types, Gentle, Finish, stockVars, orderVars, world, eventVars
<1>10. Money'
  <2>1. /\ \A p \in Orders : Captured(p) => Captured(p)'
        /\ \A p \in Orders, k \in Attempts : gateway'[p][k] # {} => gateway[p][k] # {}
        /\ \A p \in Orders, k \in Attempts : ledger[p][k] # "none" => ledger'[p][k] # "none"
    BY <1>1, <1>2, <1>6, <1>3 DEF Types, Gentle, Finish, stockVars, orderVars, world, eventVars
  <2>2. \A p \in Orders : Method[p] = "online" /\ (paymentStatus'[p] \in Settled \/ p \in collected')
           => paymentStatus[p] \in Settled \/ p \in collected \/ Captured(p)
    BY <1>1, <1>2, <1>3 DEF Types, Settled, Finish, stockVars, orderVars, world, eventVars
  <2>3. \A e \in Event : events'[e] # "none" /\ e.about = "captured" =>
           events[e] # "none" \/ Captured(e.order)
    BY <1>1, <1>2, <1>3 DEF Types, Finish, stockVars, orderVars, world, eventVars
  <2> QED
    BY <1>1, <2>1, <2>2, <2>3, MoneyStays
<1> QED
  BY <1>7, <1>8, <1>9, <1>10 DEF IInv

LEMMA ClaimPaidStep ==
    ASSUME LifecycleConstants, IInv, NEW w \in Workers, ClaimPaid(w)
    PROVE  IInv'
<1> DEFINE o == job[w].order
<1>1. At(w, "claimPaid") /\ Ready(w) /\ Types /\ Inserted /\ Money
  BY DEF ClaimPaid, IInv
<1>2. o \in Orders /\ status[o] # "none" /\ o \in committed
  BY <1>1, AtHead DEF Inserted
<1>3. Captured(o)
  BY <1>1, AtHead DEF Ready
<1>6. Gentle
  BY <1>1, <1>2, <1>3 DEF ClaimPaid, Gentle, Types, Captured, stockVars, orderVars, world, eventVars
<1>7. /\ \A v \in Workers : Ready(v)'
      /\ Balance' /\ job' \in [Workers -> Jobs]
  <2>1. CASE paymentStatus[o] # "PAID"
    BY <1>1, <1>6, <2>1, NextPlain DEF ClaimPaid
  <2>2. CASE paymentStatus[o] = "PAID"
    <3> DEFINE t == job[w].todo
    <3>1. t \in Seq(Statements) /\ Len(t) > 0 /\ t[1] = "claimPaid" /\ InOrder(t)
      BY <1>1, AtHead DEF WellFormed
    <3>2. Before(t, "claimPaid", "commitStock") /\ Before(t, "commitStock", "confirm")
      BY <3>1 DEF InOrder
    <3>3. 1 < Len(t) /\ t[1 + 1] = "commitStock"
      BY <3>1, <3>2 DEF Before
    <3>4. 2 < Len(t) /\ t[2 + 1] = "confirm"
      BY <3>1, <3>2, <3>3 DEF Before
    <3>5. GoOn(w, Skipping(w, 2)) /\ 2 + 1 <= Len(t)
      BY <2>2, <3>1, <3>4 DEF ClaimPaid
    <3> HIDE DEF t
    <3> QED
      BY <1>1, <1>6, <3>4, <3>5, SkipPlain DEF t
  <2> QED
    BY <2>1, <2>2

<1>8. Types'
  <2>1. paymentStatus' \in [Orders -> PaymentStatuses \cup {"none"}]
    <3>1. paymentStatus' = paymentStatus \/ paymentStatus' = [paymentStatus EXCEPT ![o] = "PAID"]
      BY DEF ClaimPaid
    <3>2. paymentStatus \in [Orders -> PaymentStatuses \cup {"none"}]
      BY <1>1 DEF Types
    <3> QED
      BY <1>2, <1>3, <3>1, <3>2 DEF OrderStatuses, PaymentStatuses
  <2>2. collected' \subseteq Orders
    BY <1>1, <1>2, <1>3 DEF Types, ClaimPaid, OrderStatuses, PaymentStatuses
  <2>3. UNCHANGED << status, shippingStatus, refunded, shipment, ledger, eventVars, world, stockVars >>
    BY DEF ClaimPaid
  <2> QED
    BY <1>1, <1>7, <2>1, <2>2, <2>3 DEF Types, stockVars, orderVars, world, eventVars
<1>9. Inserted'
  BY <1>1, <1>2, <1>6, <1>3 DEF Inserted, Types, Gentle, ClaimPaid, stockVars, orderVars, world, eventVars
<1>10. Money'
  <2>1. /\ \A p \in Orders : Captured(p) => Captured(p)'
        /\ \A p \in Orders, k \in Attempts : gateway'[p][k] # {} => gateway[p][k] # {}
        /\ \A p \in Orders, k \in Attempts : ledger[p][k] # "none" => ledger'[p][k] # "none"
    BY <1>1, <1>2, <1>6, <1>3 DEF Types, Gentle, ClaimPaid, stockVars, orderVars, world, eventVars
  <2>2. \A p \in Orders : Method[p] = "online" /\ (paymentStatus'[p] \in Settled \/ p \in collected')
           => paymentStatus[p] \in Settled \/ p \in collected \/ Captured(p)
    BY <1>1, <1>2, <1>3 DEF Types, Settled, ClaimPaid, stockVars, orderVars, world, eventVars
  <2>3. \A e \in Event : events'[e] # "none" /\ e.about = "captured" =>
           events[e] # "none" \/ Captured(e.order)
    BY <1>1, <1>2, <1>3 DEF Types, ClaimPaid, stockVars, orderVars, world, eventVars
  <2> QED
    BY <1>1, <2>1, <2>2, <2>3, MoneyStays
<1> QED
  BY <1>7, <1>8, <1>9, <1>10 DEF IInv

LEMMA CommitStockStep ==
    ASSUME LifecycleConstants, IInv, NEW w \in Workers, CommitStock(w)
    PROVE  IInv'
<1> DEFINE o == job[w].order
<1>1. At(w, "commitStock") /\ Ready(w) /\ Types /\ Inserted /\ Money
  BY DEF CommitStock, IInv
<1>2. o \in Orders /\ status[o] # "none" /\ o \in committed
  BY <1>1, AtHead DEF Inserted
<1>6. Gentle
  BY <1>1, <1>2 DEF CommitStock, Gentle, Types, Captured, stockVars, orderVars, world, eventVars
<1>7. /\ \A v \in Workers : Ready(v)'
      /\ Balance' /\ job' \in [Workers -> Jobs]
  BY <1>1, <1>6, NextPlain DEF CommitStock
<1>8. Types'
  BY <1>1, <1>2, <1>7 DEF Types, CommitStock, stockVars, orderVars, world, eventVars
<1>9. Inserted'
  BY <1>1, <1>2, <1>6 DEF Inserted, Types, Gentle, CommitStock, stockVars, orderVars, world, eventVars
<1>10. Money'
  <2>1. /\ \A p \in Orders : Captured(p) => Captured(p)'
        /\ \A p \in Orders, k \in Attempts : gateway'[p][k] # {} => gateway[p][k] # {}
        /\ \A p \in Orders, k \in Attempts : ledger[p][k] # "none" => ledger'[p][k] # "none"
    BY <1>1, <1>2, <1>6 DEF Types, Gentle, CommitStock, stockVars, orderVars, world, eventVars
  <2>2. \A p \in Orders : Method[p] = "online" /\ (paymentStatus'[p] \in Settled \/ p \in collected')
           => paymentStatus[p] \in Settled \/ p \in collected \/ Captured(p)
    BY <1>1, <1>2 DEF Types, Settled, CommitStock, stockVars, orderVars, world, eventVars
  <2>3. \A e \in Event : events'[e] # "none" /\ e.about = "captured" =>
           events[e] # "none" \/ Captured(e.order)
    BY <1>1, <1>2 DEF Types, CommitStock, stockVars, orderVars, world, eventVars
  <2> QED
    BY <1>1, <2>1, <2>2, <2>3, MoneyStays
<1> QED
  BY <1>7, <1>8, <1>9, <1>10 DEF IInv

LEMMA FailPaymentStep ==
    ASSUME LifecycleConstants, IInv, NEW w \in Workers, FailPayment(w)
    PROVE  IInv'
<1> DEFINE o == job[w].order
<1>1. At(w, "failPayment") /\ Ready(w) /\ Types /\ Inserted /\ Money
  BY DEF FailPayment, IInv
<1>2. o \in Orders /\ status[o] # "none" /\ o \in committed
  BY <1>1, AtHead DEF Inserted
<1>3. job[w].verdict \in {"FAILED", "CANCELLED", "EXPIRED"}
  BY <1>1, HeadEquipped
<1>6. Gentle
  BY <1>1, <1>2, <1>3 DEF FailPayment, Gentle, Types, Captured, stockVars, orderVars, world, eventVars
<1>7. /\ \A v \in Workers : Ready(v)'
      /\ Balance' /\ job' \in [Workers -> Jobs]
  <2>1. CASE GoOn(w, Next1(w))
    BY <1>1, <1>6, <2>1, NextPlain
  <2>2. CASE GoOn(w, Skipping(w, 1))
    <3> DEFINE t == job[w].todo
    <3>1. t \in Seq(Statements) /\ Len(t) > 0 /\ t[1] = "failPayment" /\ InOrder(t)
      BY <1>1, AtHead DEF WellFormed
    <3>2. 1 < Len(t) /\ t[1 + 1] = "cancelUnpaid"
      BY <3>1 DEF InOrder, Before
    <3>3. 1 + 1 <= Len(t)
      BY <3>1, <3>2
    <3> HIDE DEF t
    <3> QED
      BY <1>1, <1>6, <2>2, <3>2, <3>3, SkipPlain DEF t
  <2> QED
    BY <1>1, <2>1, <2>2 DEF FailPayment

<1>8. Types'
  <2>1. paymentStatus' \in [Orders -> PaymentStatuses \cup {"none"}]
    <3>1. paymentStatus' = paymentStatus \/ paymentStatus' = [paymentStatus EXCEPT ![o] = job[w].verdict]
      BY DEF FailPayment
    <3>2. paymentStatus \in [Orders -> PaymentStatuses \cup {"none"}]
      BY <1>1 DEF Types
    <3> QED
      BY <1>2, <1>3, <3>1, <3>2 DEF OrderStatuses, PaymentStatuses
  <2>2. UNCHANGED << status, shippingStatus, refunded, collected, shipment, ledger, eventVars, world, stockVars >>
    BY DEF FailPayment
  <2> QED
    BY <1>1, <1>7, <2>1, <2>2 DEF Types, stockVars, orderVars, world, eventVars
<1>9. Inserted'
  BY <1>1, <1>2, <1>6, <1>3 DEF Inserted, Types, Gentle, FailPayment, stockVars, orderVars, world, eventVars
<1>10. Money'
  <2>1. /\ \A p \in Orders : Captured(p) => Captured(p)'
        /\ \A p \in Orders, k \in Attempts : gateway'[p][k] # {} => gateway[p][k] # {}
        /\ \A p \in Orders, k \in Attempts : ledger[p][k] # "none" => ledger'[p][k] # "none"
    BY <1>1, <1>2, <1>6, <1>3 DEF Types, Gentle, FailPayment, stockVars, orderVars, world, eventVars
  <2>2. \A p \in Orders : Method[p] = "online" /\ (paymentStatus'[p] \in Settled \/ p \in collected')
           => paymentStatus[p] \in Settled \/ p \in collected \/ Captured(p)
    BY <1>1, <1>2, <1>3 DEF Types, Settled, FailPayment, stockVars, orderVars, world, eventVars
  <2>3. \A e \in Event : events'[e] # "none" /\ e.about = "captured" =>
           events[e] # "none" \/ Captured(e.order)
    BY <1>1, <1>2, <1>3 DEF Types, FailPayment, stockVars, orderVars, world, eventVars
  <2> QED
    BY <1>1, <2>1, <2>2, <2>3, MoneyStays
<1> QED
  BY <1>7, <1>8, <1>9, <1>10 DEF IInv

LEMMA SetIfSameStep ==
    ASSUME LifecycleConstants, IInv, NEW w \in Workers, SetIfSame(w)
    PROVE  IInv'
<1> DEFINE o == job[w].order
<1>1. At(w, "setIfSame") /\ Ready(w) /\ Types /\ Inserted /\ Money
  BY DEF SetIfSame, IInv
<1>2. o \in Orders /\ status[o] # "none" /\ o \in committed
  BY <1>1, AtHead DEF Inserted
<1>3. job[w].verdict \in OrderStatuses /\ job[w].verdict \notin {"none", "PENDING_PAYMENT"}
  BY <1>1, HeadEquipped DEF OrderStatuses
<1>6. Gentle
  BY <1>1, <1>2, <1>3 DEF SetIfSame, Gentle, Types, Captured, stockVars, orderVars, world, eventVars
<1>7. /\ \A v \in Workers : Ready(v)'
      /\ Balance' /\ job' \in [Workers -> Jobs]
  <2>1. CASE GoOn(w, Next1(w))
    BY <1>1, <1>6, <2>1, NextPlain
  <2>2. CASE GoOn(w, NoJob)
    <3>1. job' = [job EXCEPT ![w] = NoJob]
      BY <2>2 DEF GoOn
    <3>2. ~At(w, "restock") /\ ~At(w, "insertOrder")
      BY <1>1, AtHead
    <3> QED
      BY <1>6, <3>1, <3>2, EndPlain
  <2> QED
    BY <1>1, <2>1, <2>2 DEF SetIfSame

<1>8. Types'
  <2>1. status' \in [Orders -> OrderStatuses \cup {"none"}]
    <3>1. status' = status \/ status' = [status EXCEPT ![o] = job[w].verdict]
      BY DEF SetIfSame
    <3>2. status \in [Orders -> OrderStatuses \cup {"none"}]
      BY <1>1 DEF Types
    <3> QED
      BY <1>2, <1>3, <3>1, <3>2 DEF OrderStatuses, PaymentStatuses
  <2>2. UNCHANGED << paymentStatus, shippingStatus, refunded, collected, shipment, ledger, eventVars, world, stockVars >>
    BY DEF SetIfSame
  <2> QED
    BY <1>1, <1>7, <2>1, <2>2 DEF Types, stockVars, orderVars, world, eventVars
<1>9. Inserted'
  <2>1. status' = status \/ status' = [status EXCEPT ![o] = job[w].verdict]
    BY DEF SetIfSame
  <2>2. UNCHANGED << paymentStatus, collected, committed, shipment, scanned, ledger, gateway, events >>
    BY DEF SetIfSame, stockVars, world, eventVars
  <2>3. status \in [Orders -> OrderStatuses \cup {"none"}]
    BY <1>1 DEF Types
  <2>4. \A p \in Orders : status'[p] = status[p] \/ (p = o /\ status'[p] = job[w].verdict)
    BY <1>2, <2>1, <2>3
  <2>5. \A e \in Event : events[e] # "none" => status'[e.order] # "none"
    BY <1>1, <1>6, EventOrder DEF Inserted, Gentle
  <2> QED
    BY <1>1, <1>2, <1>3, <1>6, <2>2, <2>4, <2>5 DEF Inserted, Gentle
<1>10. Money'
  <2>1. /\ \A p \in Orders : Captured(p) => Captured(p)'
        /\ \A p \in Orders, k \in Attempts : gateway'[p][k] # {} => gateway[p][k] # {}
        /\ \A p \in Orders, k \in Attempts : ledger[p][k] # "none" => ledger'[p][k] # "none"
    BY <1>1, <1>2, <1>6, <1>3 DEF Types, Gentle, SetIfSame, stockVars, orderVars, world, eventVars
  <2>2. \A p \in Orders : Method[p] = "online" /\ (paymentStatus'[p] \in Settled \/ p \in collected')
           => paymentStatus[p] \in Settled \/ p \in collected \/ Captured(p)
    BY <1>1, <1>2, <1>3 DEF Types, Settled, SetIfSame, stockVars, orderVars, world, eventVars
  <2>3. \A e \in Event : events'[e] # "none" /\ e.about = "captured" =>
           events[e] # "none" \/ Captured(e.order)
    BY <1>1, <1>2, <1>3 DEF Types, SetIfSame, stockVars, orderVars, world, eventVars
  <2> QED
    BY <1>1, <2>1, <2>2, <2>3, MoneyStays
<1> QED
  BY <1>7, <1>8, <1>9, <1>10 DEF IInv

LEMMA RecallShipmentStep ==
    ASSUME LifecycleConstants, IInv, NEW w \in Workers, RecallShipment(w)
    PROVE  IInv'
<1> DEFINE o == job[w].order
<1>1. At(w, "recall") /\ Ready(w) /\ Types /\ Inserted /\ Money
  BY DEF RecallShipment, IInv
<1>2. o \in Orders /\ status[o] # "none" /\ o \in committed
  BY <1>1, AtHead DEF Inserted
<1>3. scanned[o] \in Seq(ScanWords) /\ Append(scanned[o], "CANCELLED") \in Seq(ScanWords)
  <2>1. scanned[o] \in Seq(ScanWords) /\ "CANCELLED" \in ScanWords
    BY <1>1, <1>2 DEF Types, ScanWords
  <2> QED
    BY <2>1
<1>6. Gentle
  BY <1>1, <1>2, <1>3 DEF RecallShipment, Gentle, Types, Captured, stockVars, orderVars, world, eventVars
<1>7. /\ \A v \in Workers : Ready(v)'
      /\ Balance' /\ job' \in [Workers -> Jobs]
  <2>1. CASE GoOn(w, Next1(w))
    BY <1>1, <1>6, <2>1, NextPlain
  <2>2. CASE GoOn(w, Skipping(w, 1))
    <3> DEFINE t == job[w].todo
    <3>1. t \in Seq(Statements) /\ Len(t) > 0 /\ t[1] = "recall" /\ InOrder(t)
      BY <1>1, AtHead DEF WellFormed
    <3>2. 1 < Len(t) /\ t[1 + 1] = "recallOrder"
      BY <3>1 DEF InOrder, Before
    <3>3. 1 + 1 <= Len(t)
      BY <3>1, <3>2
    <3> HIDE DEF t
    <3> QED
      BY <1>1, <1>6, <2>2, <3>2, <3>3, SkipPlain DEF t
  <2> QED
    BY <1>1, <2>1, <2>2 DEF RecallShipment

<1>8. Types'
  <2>1. shipment' \in [Orders -> Scans \cup {"none", "PENDING", "AWB_ASSIGNED", "CANCELLED"}]
    <3>1. shipment' = shipment \/ shipment' = [shipment EXCEPT ![o] = "CANCELLED"]
      BY DEF RecallShipment
    <3>2. shipment \in [Orders -> Scans \cup {"none", "PENDING", "AWB_ASSIGNED", "CANCELLED"}]
      BY <1>1 DEF Types
    <3> QED
      BY <1>2, <1>3, <3>1, <3>2 DEF OrderStatuses, PaymentStatuses
  <2>2. scanned' \in [Orders -> Seq(ScanWords)]
    <3>1. scanned' = scanned \/ scanned' = [scanned EXCEPT ![o] = Append(scanned[o], "CANCELLED")]
      BY DEF RecallShipment
    <3>2. scanned \in [Orders -> Seq(ScanWords)]
      BY <1>1 DEF Types
    <3> QED
      BY <1>2, <1>3, <3>1, <3>2 DEF OrderStatuses, PaymentStatuses
  <2>3. UNCHANGED << orderVars, ledger, eventVars, gateway, stockVars >>
    BY DEF RecallShipment
  <2> QED
    BY <1>1, <1>7, <2>1, <2>2, <2>3 DEF Types, stockVars, orderVars, world, eventVars
<1>9. Inserted'
  BY <1>1, <1>2, <1>6, <1>3 DEF Inserted, Types, Gentle, RecallShipment, stockVars, orderVars, world, eventVars
<1>10. Money'
  <2>1. /\ \A p \in Orders : Captured(p) => Captured(p)'
        /\ \A p \in Orders, k \in Attempts : gateway'[p][k] # {} => gateway[p][k] # {}
        /\ \A p \in Orders, k \in Attempts : ledger[p][k] # "none" => ledger'[p][k] # "none"
    BY <1>1, <1>2, <1>6, <1>3 DEF Types, Gentle, RecallShipment, stockVars, orderVars, world, eventVars
  <2>2. \A p \in Orders : Method[p] = "online" /\ (paymentStatus'[p] \in Settled \/ p \in collected')
           => paymentStatus[p] \in Settled \/ p \in collected \/ Captured(p)
    BY <1>1, <1>2, <1>3 DEF Types, Settled, RecallShipment, stockVars, orderVars, world, eventVars
  <2>3. \A e \in Event : events'[e] # "none" /\ e.about = "captured" =>
           events[e] # "none" \/ Captured(e.order)
    BY <1>1, <1>2, <1>3 DEF Types, RecallShipment, stockVars, orderVars, world, eventVars
  <2> QED
    BY <1>1, <2>1, <2>2, <2>3, MoneyStays
<1> QED
  BY <1>7, <1>8, <1>9, <1>10 DEF IInv

LEMMA OpenShipmentStep ==
    ASSUME LifecycleConstants, IInv, NEW w \in Workers, OpenShipment(w)
    PROVE  IInv'
<1> DEFINE o == job[w].order
<1>1. At(w, "openShipment") /\ Ready(w) /\ Types /\ Inserted /\ Money
  BY DEF OpenShipment, IInv
<1>2. o \in Orders /\ status[o] # "none" /\ o \in committed
  BY <1>1, AtHead DEF Inserted
<1>6. Gentle
  BY <1>1, <1>2 DEF OpenShipment, Gentle, Types, Captured, stockVars, orderVars, world, eventVars
<1>7. /\ \A v \in Workers : Ready(v)'
      /\ Balance' /\ job' \in [Workers -> Jobs]
  <2>1. CASE GoOn(w, Next1(w))
    BY <1>1, <1>6, <2>1, NextPlain
  <2>2. CASE GoOn(w, NoJob)
    <3>1. job' = [job EXCEPT ![w] = NoJob]
      BY <2>2 DEF GoOn
    <3>2. ~At(w, "restock") /\ ~At(w, "insertOrder")
      BY <1>1, AtHead
    <3> QED
      BY <1>6, <3>1, <3>2, EndPlain
  <2> QED
    BY <1>1, <2>1, <2>2 DEF OpenShipment

<1>8. Types'
  <2>1. shipment' \in [Orders -> Scans \cup {"none", "PENDING", "AWB_ASSIGNED", "CANCELLED"}]
    <3>1. shipment' = shipment \/ shipment' = [shipment EXCEPT ![o] = "PENDING"]
      BY DEF OpenShipment
    <3>2. shipment \in [Orders -> Scans \cup {"none", "PENDING", "AWB_ASSIGNED", "CANCELLED"}]
      BY <1>1 DEF Types
    <3> QED
      BY <1>2, <3>1, <3>2 DEF OrderStatuses, PaymentStatuses
  <2>2. UNCHANGED << orderVars, ledger, eventVars, world, stockVars >>
    BY DEF OpenShipment
  <2> QED
    BY <1>1, <1>7, <2>1, <2>2 DEF Types, stockVars, orderVars, world, eventVars
<1>9. Inserted'
  BY <1>1, <1>2, <1>6 DEF Inserted, Types, Gentle, OpenShipment, stockVars, orderVars, world, eventVars
<1>10. Money'
  <2>1. /\ \A p \in Orders : Captured(p) => Captured(p)'
        /\ \A p \in Orders, k \in Attempts : gateway'[p][k] # {} => gateway[p][k] # {}
        /\ \A p \in Orders, k \in Attempts : ledger[p][k] # "none" => ledger'[p][k] # "none"
    BY <1>1, <1>2, <1>6 DEF Types, Gentle, OpenShipment, stockVars, orderVars, world, eventVars
  <2>2. \A p \in Orders : Method[p] = "online" /\ (paymentStatus'[p] \in Settled \/ p \in collected')
           => paymentStatus[p] \in Settled \/ p \in collected \/ Captured(p)
    BY <1>1, <1>2 DEF Types, Settled, OpenShipment, stockVars, orderVars, world, eventVars
  <2>3. \A e \in Event : events'[e] # "none" /\ e.about = "captured" =>
           events[e] # "none" \/ Captured(e.order)
    BY <1>1, <1>2 DEF Types, OpenShipment, stockVars, orderVars, world, eventVars
  <2> QED
    BY <1>1, <2>1, <2>2, <2>3, MoneyStays
<1> QED
  BY <1>7, <1>8, <1>9, <1>10 DEF IInv

LEMMA AssignAwbStep ==
    ASSUME LifecycleConstants, IInv, NEW w \in Workers, AssignAwb(w)
    PROVE  IInv'
<1> DEFINE o == job[w].order
<1>1. At(w, "assignAwb") /\ Ready(w) /\ Types /\ Inserted /\ Money
  BY DEF AssignAwb, IInv
<1>2. o \in Orders /\ status[o] # "none" /\ o \in committed
  BY <1>1, AtHead DEF Inserted
<1>3. << "AWB_ASSIGNED" >> \in Seq(ScanWords)
  BY DEF ScanWords
<1>6. Gentle
  BY <1>1, <1>2, <1>3 DEF AssignAwb, Gentle, Types, Captured, stockVars, orderVars, world, eventVars
<1>7. /\ \A v \in Workers : Ready(v)'
      /\ Balance' /\ job' \in [Workers -> Jobs]
  <2>1. CASE GoOn(w, Next1(w))
    BY <1>1, <1>6, <2>1, NextPlain
  <2>2. CASE GoOn(w, NoJob)
    <3>1. job' = [job EXCEPT ![w] = NoJob]
      BY <2>2 DEF GoOn
    <3>2. ~At(w, "restock") /\ ~At(w, "insertOrder")
      BY <1>1, AtHead
    <3> QED
      BY <1>6, <3>1, <3>2, EndPlain
  <2> QED
    BY <1>1, <2>1, <2>2 DEF AssignAwb

<1>8. Types'
  <2>1. shipment' \in [Orders -> Scans \cup {"none", "PENDING", "AWB_ASSIGNED", "CANCELLED"}]
    <3>1. shipment' = shipment \/ shipment' = [shipment EXCEPT ![o] = "AWB_ASSIGNED"]
      BY DEF AssignAwb
    <3>2. shipment \in [Orders -> Scans \cup {"none", "PENDING", "AWB_ASSIGNED", "CANCELLED"}]
      BY <1>1 DEF Types
    <3> QED
      BY <1>2, <1>3, <3>1, <3>2 DEF OrderStatuses, PaymentStatuses
  <2>2. scanned' \in [Orders -> Seq(ScanWords)]
    <3>1. scanned' = scanned \/ scanned' = [scanned EXCEPT ![o] = << "AWB_ASSIGNED" >>]
      BY DEF AssignAwb
    <3>2. scanned \in [Orders -> Seq(ScanWords)]
      BY <1>1 DEF Types
    <3> QED
      BY <1>2, <1>3, <3>1, <3>2 DEF OrderStatuses, PaymentStatuses
  <2>3. UNCHANGED << orderVars, ledger, eventVars, gateway, stockVars >>
    BY DEF AssignAwb
  <2> QED
    BY <1>1, <1>7, <2>1, <2>2, <2>3 DEF Types, stockVars, orderVars, world, eventVars
<1>9. Inserted'
  BY <1>1, <1>2, <1>6, <1>3 DEF Inserted, Types, Gentle, AssignAwb, stockVars, orderVars, world, eventVars
<1>10. Money'
  <2>1. /\ \A p \in Orders : Captured(p) => Captured(p)'
        /\ \A p \in Orders, k \in Attempts : gateway'[p][k] # {} => gateway[p][k] # {}
        /\ \A p \in Orders, k \in Attempts : ledger[p][k] # "none" => ledger'[p][k] # "none"
    BY <1>1, <1>2, <1>6, <1>3 DEF Types, Gentle, AssignAwb, stockVars, orderVars, world, eventVars
  <2>2. \A p \in Orders : Method[p] = "online" /\ (paymentStatus'[p] \in Settled \/ p \in collected')
           => paymentStatus[p] \in Settled \/ p \in collected \/ Captured(p)
    BY <1>1, <1>2, <1>3 DEF Types, Settled, AssignAwb, stockVars, orderVars, world, eventVars
  <2>3. \A e \in Event : events'[e] # "none" /\ e.about = "captured" =>
           events[e] # "none" \/ Captured(e.order)
    BY <1>1, <1>2, <1>3 DEF Types, AssignAwb, stockVars, orderVars, world, eventVars
  <2> QED
    BY <1>1, <2>1, <2>2, <2>3, MoneyStays
<1> QED
  BY <1>7, <1>8, <1>9, <1>10 DEF IInv

LEMMA MoveShipmentStep ==
    ASSUME LifecycleConstants, IInv, NEW w \in Workers, MoveShipment(w)
    PROVE  IInv'
<1> DEFINE o == job[w].order
<1>1. At(w, "moveShipment") /\ Ready(w) /\ Types /\ Inserted /\ Money
  BY DEF MoveShipment, IInv
<1>2. o \in Orders /\ status[o] # "none" /\ o \in committed
  BY <1>1, AtHead DEF Inserted
<1>3. job[w].verdict \in Scans
  BY <1>1, HeadEquipped
<1>6. Gentle
  BY <1>1, <1>2, <1>3 DEF MoveShipment, Gentle, Types, Captured, stockVars, orderVars, world, eventVars
<1>7. /\ \A v \in Workers : Ready(v)'
      /\ Balance' /\ job' \in [Workers -> Jobs]
  <2> DEFINE j == [Next1(w) EXCEPT !.flag = shipment[o] \notin {"none", job[w].verdict}]
  <2>1. GoOn(w, j)
    BY DEF MoveShipment
  <2>2. Rest(Next1(w), job[w], 1)
    BY <1>1, AtHead, NextRest DEF Types
  <2>3. Rest(j, job[w], 1)
    BY <2>2 DEF Rest, Jobs
  <2>4. job[w].todo[1] = "moveShipment"
    BY <1>1, AtHead
  <2> HIDE DEF j
  <2> QED
    BY <1>1, <1>6, <2>1, <2>3, <2>4, PlainStep

<1>8. Types'
  BY <1>1, <1>2, <1>7, <1>3 DEF Types, MoveShipment, stockVars, orderVars, world, eventVars
<1>9. Inserted'
  BY <1>1, <1>2, <1>6, <1>3 DEF Inserted, Types, Gentle, MoveShipment, stockVars, orderVars, world, eventVars
<1>10. Money'
  <2>1. /\ \A p \in Orders : Captured(p) => Captured(p)'
        /\ \A p \in Orders, k \in Attempts : gateway'[p][k] # {} => gateway[p][k] # {}
        /\ \A p \in Orders, k \in Attempts : ledger[p][k] # "none" => ledger'[p][k] # "none"
    BY <1>1, <1>2, <1>6, <1>3 DEF Types, Gentle, MoveShipment, stockVars, orderVars, world, eventVars
  <2>2. \A p \in Orders : Method[p] = "online" /\ (paymentStatus'[p] \in Settled \/ p \in collected')
           => paymentStatus[p] \in Settled \/ p \in collected \/ Captured(p)
    BY <1>1, <1>2, <1>3 DEF Types, Settled, MoveShipment, stockVars, orderVars, world, eventVars
  <2>3. \A e \in Event : events'[e] # "none" /\ e.about = "captured" =>
           events[e] # "none" \/ Captured(e.order)
    BY <1>1, <1>2, <1>3 DEF Types, MoveShipment, stockVars, orderVars, world, eventVars
  <2> QED
    BY <1>1, <2>1, <2>2, <2>3, MoneyStays
<1> QED
  BY <1>7, <1>8, <1>9, <1>10 DEF IInv

LEMMA MoveShippingStep ==
    ASSUME LifecycleConstants, IInv, NEW w \in Workers, MoveShipping(w)
    PROVE  IInv'
<1> DEFINE o == job[w].order
<1>1. At(w, "moveShipping") /\ Ready(w) /\ Types /\ Inserted /\ Money
  BY DEF MoveShipping, IInv
<1>2. o \in Orders /\ status[o] # "none" /\ o \in committed
  BY <1>1, AtHead DEF Inserted
<1>3. job[w].verdict \in Scans
  BY <1>1, HeadEquipped
<1>6. Gentle
  BY <1>1, <1>2, <1>3 DEF MoveShipping, Gentle, Types, Captured, stockVars, orderVars, world, eventVars
<1>7. /\ \A v \in Workers : Ready(v)'
      /\ Balance' /\ job' \in [Workers -> Jobs]
  <2>1. CASE GoOn(w, Next1(w))
    BY <1>1, <1>6, <2>1, NextPlain
  <2>2. CASE ~GoOn(w, Next1(w))
    <3> DEFINE j == [job[w] EXCEPT !.todo = IF job[w].event = None THEN << >> ELSE << "finish" >>]
    <3>1. GoOn(w, j)
      BY <2>2 DEF MoveShipping
    <3>2. ~At(w, "restock") /\ ~At(w, "insertOrder")
      BY <1>1, AtHead
    <3>3. job[w] \in Jobs
      BY <1>1, AtHead
    <3>4. CASE job[w].event = None
      <4>1. j.todo = << >>
        BY <3>3, <3>4 DEF Jobs
      <4>2. job' = [job EXCEPT ![w] = NoJob]
        BY <3>1, <4>1 DEF GoOn
      <4> QED
        BY <1>6, <3>2, <4>2, EndPlain
    <3>5. CASE job[w].event # None
      <4>1. j.todo = << "finish" >> /\ j \in Jobs /\ j.order = o /\ j.event = job[w].event
            /\ j.verdict = job[w].verdict
        BY <3>3, <3>5, SmallLists DEF Jobs, Good
      <4> HIDE DEF j
      <4>2. Good(j.todo, {"finish"}) /\ j.todo[1] = "finish"
        BY <4>1, SmallLists
      <4>3. ~Has(j.todo, {"openPayment", "insertAttempt"}) /\ ~Has(j.todo, {"recordPayment"})
            /\ ~Has(j.todo, {"failPayment"}) /\ ~Has(j.todo, {"moveShipment", "moveShipping", "follow"})
            /\ ~Has(j.todo, {"setIfSame"}) /\ ~Has(j.todo, {"claimPaid"})
            /\ ~Has(j.todo, {"voidOrder"})
        BY <4>2, OfHas DEF Good
      <4>4. Before(j.todo, "setIfSame", "claimRestore")
        BY <4>3 DEF Before, Has
      <4>5. job[w].event \in Event
        BY <3>3, <3>5 DEF Jobs
      <4>6. WellFormed(j)
        BY <1>2, <4>1, <4>2, <4>3, <4>4, <4>5 DEF WellFormed, Equipped, Good
      <4>7. job' = [job EXCEPT ![w] = j]
        BY <3>1, <4>2 DEF GoOn, Good
      <4>8. j.todo # << >> /\ Opens(j.todo[1])
        BY <4>2 DEF Good
      <4>9. status'[j.order] # "none"
        BY <1>2, <1>6, <4>1 DEF Gentle
      <4>10. j.event # None => events'[j.event] # "none"
        BY <1>1, <1>6, <3>5, <4>1, <4>5 DEF Ready, Gentle
      <4> QED
        BY <1>6, <3>2, <4>3, <4>6, <4>7, <4>8, <4>9, <4>10, StartPlain
    <3> QED
      BY <3>4, <3>5
  <2> QED
    BY <2>1, <2>2

<1>8. Types'
  BY <1>1, <1>2, <1>7, <1>3 DEF Types, MoveShipping, stockVars, orderVars, world, eventVars
<1>9. Inserted'
  BY <1>1, <1>2, <1>6, <1>3 DEF Inserted, Types, Gentle, MoveShipping, stockVars, orderVars, world, eventVars
<1>10. Money'
  <2>1. /\ \A p \in Orders : Captured(p) => Captured(p)'
        /\ \A p \in Orders, k \in Attempts : gateway'[p][k] # {} => gateway[p][k] # {}
        /\ \A p \in Orders, k \in Attempts : ledger[p][k] # "none" => ledger'[p][k] # "none"
    BY <1>1, <1>2, <1>6, <1>3 DEF Types, Gentle, MoveShipping, stockVars, orderVars, world, eventVars
  <2>2. \A p \in Orders : Method[p] = "online" /\ (paymentStatus'[p] \in Settled \/ p \in collected')
           => paymentStatus[p] \in Settled \/ p \in collected \/ Captured(p)
    BY <1>1, <1>2, <1>3 DEF Types, Settled, MoveShipping, stockVars, orderVars, world, eventVars
  <2>3. \A e \in Event : events'[e] # "none" /\ e.about = "captured" =>
           events[e] # "none" \/ Captured(e.order)
    BY <1>1, <1>2, <1>3 DEF Types, MoveShipping, stockVars, orderVars, world, eventVars
  <2> QED
    BY <1>1, <2>1, <2>2, <2>3, MoneyStays
<1> QED
  BY <1>7, <1>8, <1>9, <1>10 DEF IInv

LEMMA ReadStatusStep ==
    ASSUME LifecycleConstants, IInv, NEW w \in Workers, ReadStatus(w)
    PROVE  IInv'
<1> DEFINE o == job[w].order
<1>1. At(w, "readStatus") /\ Ready(w) /\ Types /\ Inserted /\ Money
  BY DEF ReadStatus, IInv
<1>2. o \in Orders /\ status[o] # "none" /\ o \in committed
  BY <1>1, AtHead DEF Inserted
<1>6. Gentle
  BY <1>1, <1>2 DEF ReadStatus, Gentle, Types, Captured, stockVars, orderVars, world, eventVars
<1>7. /\ \A v \in Workers : Ready(v)'
      /\ Balance' /\ job' \in [Workers -> Jobs]
  <2>1. CASE GoOn(w, Next1(w))
    BY <1>1, <1>6, <2>1, NextPlain
  <2>2. CASE GoOn(w, Skipping(w, 1))
    <3> DEFINE t == job[w].todo
    <3>1. t \in Seq(Statements) /\ Len(t) > 0 /\ t[1] = "readStatus" /\ InOrder(t)
      BY <1>1, AtHead DEF WellFormed
    <3>2. 1 < Len(t) /\ t[1 + 1] = "follow"
      BY <3>1 DEF InOrder, Before
    <3>3. 1 + 1 <= Len(t)
      BY <3>1, <3>2
    <3> HIDE DEF t
    <3> QED
      BY <1>1, <1>6, <2>2, <3>2, <3>3, SkipPlain DEF t
  <2> QED
    BY <1>1, <2>1, <2>2 DEF ReadStatus

<1>8. Types'
  BY <1>1, <1>2, <1>7 DEF Types, ReadStatus, stockVars, orderVars, world, eventVars
<1>9. Inserted'
  BY <1>1, <1>2, <1>6 DEF Inserted, Types, Gentle, ReadStatus, stockVars, orderVars, world, eventVars
<1>10. Money'
  <2>1. /\ \A p \in Orders : Captured(p) => Captured(p)'
        /\ \A p \in Orders, k \in Attempts : gateway'[p][k] # {} => gateway[p][k] # {}
        /\ \A p \in Orders, k \in Attempts : ledger[p][k] # "none" => ledger'[p][k] # "none"
    BY <1>1, <1>2, <1>6 DEF Types, Gentle, ReadStatus, stockVars, orderVars, world, eventVars
  <2>2. \A p \in Orders : Method[p] = "online" /\ (paymentStatus'[p] \in Settled \/ p \in collected')
           => paymentStatus[p] \in Settled \/ p \in collected \/ Captured(p)
    BY <1>1, <1>2 DEF Types, Settled, ReadStatus, stockVars, orderVars, world, eventVars
  <2>3. \A e \in Event : events'[e] # "none" /\ e.about = "captured" =>
           events[e] # "none" \/ Captured(e.order)
    BY <1>1, <1>2 DEF Types, ReadStatus, stockVars, orderVars, world, eventVars
  <2> QED
    BY <1>1, <2>1, <2>2, <2>3, MoneyStays
<1> QED
  BY <1>7, <1>8, <1>9, <1>10 DEF IInv

LEMMA InsertAttemptStep ==
    ASSUME LifecycleConstants, IInv, NEW w \in Workers, InsertAttempt(w)
    PROVE  IInv'
<1> DEFINE o == job[w].order
<1>1. At(w, "insertAttempt") /\ Ready(w) /\ Types /\ Inserted /\ Money
  BY DEF InsertAttempt, IInv
<1>2. o \in Orders /\ status[o] # "none" /\ o \in committed
  BY <1>1, AtHead DEF Inserted
<1>3. Method[o] = "online"
  BY <1>1, HeadEquipped
<1>4. \/ UNCHANGED << ledger, gateway >>
      \/ \E k \in Retries : /\ ledger[o][k] = "none"
                          /\ ledger' = [ledger EXCEPT ![o][k] = "PENDING"]
                          /\ gateway' = [gateway EXCEPT ![o][k] = {"open"}]
  <2> DEFINE unused == {k \in Retries : ledger[o][k] = "none"}
             first == CHOOSE k \in unused : \A j \in unused : k <= j
  <2>1. CASE unused = {}
    BY <2>1 DEF InsertAttempt
  <2>2. CASE unused # {}
    <3>1. unused \subseteq Nat
      BY DEF Retries, Attempts
    <3>2. first \in unused
      BY <2>2, <3>1, LeastNumber
    <3>3. ledger' = [ledger EXCEPT ![o][first] = "PENDING"] /\ gateway' = [gateway EXCEPT ![o][first] = {"open"}]
      BY <2>2 DEF InsertAttempt
    <3> QED
      BY <3>2, <3>3
  <2> QED
    BY <2>1, <2>2
<1>5. Retries \subseteq Attempts /\ 0 \notin Retries /\ 0 \in Attempts
  BY DEF Retries, Attempts, LifecycleConstants
<1> DEFINE LT == [Orders -> [Attempts -> {"none", "PENDING", "PAID", "FAILED"}]]
           GT == [Orders -> [Attempts -> SUBSET {"open", "failed", "captured"}]]
<1>51. ledger \in LT /\ gateway \in GT
  BY <1>1 DEF Types
<1>52. /\ ledger' \in LT /\ gateway' \in GT
       /\ \A p \in Orders, k \in Attempts :
             \/ gateway'[p][k] = gateway[p][k] /\ ledger'[p][k] = ledger[p][k]
             \/ /\ p = o /\ k # 0 /\ ledger[p][k] = "none"
                /\ ledger'[p][k] = "PENDING" /\ gateway'[p][k] = {"open"}
       /\ \A p \in Orders : p # o => ledger'[p] = ledger[p] /\ gateway'[p] = gateway[p]
  <2>1. CASE UNCHANGED << ledger, gateway >>
    BY <1>51, <2>1
  <2>2. CASE \E k \in Retries : /\ ledger[o][k] = "none"
                               /\ ledger' = [ledger EXCEPT ![o][k] = "PENDING"]
                               /\ gateway' = [gateway EXCEPT ![o][k] = {"open"}]
    <3>1. PICK k \in Retries : /\ ledger[o][k] = "none"
                               /\ ledger' = [ledger EXCEPT ![o][k] = "PENDING"]
                               /\ gateway' = [gateway EXCEPT ![o][k] = {"open"}]
      BY <2>2
    <3>2. k \in Attempts /\ k # 0
      BY <1>5
    <3>3. ledger' \in LT
      BY <1>2, <1>51, <3>1, <3>2
    <3>4. gateway' \in GT
      BY <1>2, <1>51, <3>1, <3>2
    <3>5. \A p \in Orders : p # o => ledger'[p] = ledger[p] /\ gateway'[p] = gateway[p]
      BY <1>2, <1>51, <3>1
    <3>6. \A i \in Attempts : i # k => ledger'[o][i] = ledger[o][i] /\ gateway'[o][i] = gateway[o][i]
      BY <1>2, <1>51, <3>1
    <3>7. ledger'[o][k] = "PENDING" /\ gateway'[o][k] = {"open"}
      BY <1>2, <1>51, <3>1, <3>2
    <3> QED
      BY <3>1, <3>2, <3>3, <3>4, <3>5, <3>6, <3>7
  <2> QED
    BY <1>4, <2>1, <2>2
<1>6. Gentle
  <2>1. UNCHANGED << committed, restored, shelf, stockLock, status, events >>
    BY DEF InsertAttempt, orderVars, stockVars, eventVars
  <2>3. \A p \in Orders : gateway'[p][0] = gateway[p][0]
    BY <1>5, <1>52
  <2>4. \A p \in Orders, k \in Attempts : "captured" \in gateway[p][k] => "captured" \in gateway'[p][k]
    <3> SUFFICES ASSUME NEW p \in Orders, NEW k \in Attempts, "captured" \in gateway[p][k]
                 PROVE  "captured" \in gateway'[p][k]
      OBVIOUS
    <3>1. ledger[p][k] # "none"
      BY <1>1 DEF Money
    <3>2. gateway'[p][k] = gateway[p][k]
      BY <1>52, <3>1
    <3> QED
      BY <3>2
  <2>5. \A p \in Orders : Captured(p) => Captured(p)'
    BY <2>4 DEF Captured
  <2> QED
    BY <2>1, <2>3, <2>5 DEF Gentle
<1>7. /\ \A v \in Workers : Ready(v)'
      /\ Balance' /\ job' \in [Workers -> Jobs]
  BY <1>1, <1>6, NextPlain DEF InsertAttempt
<1>8. Types'
  <2>1. ledger' \in LT /\ gateway' \in GT
    BY <1>52
  <2>3. UNCHANGED << orderVars, stockVars, shipment, eventVars, scanned >>
    BY DEF InsertAttempt
  <2> QED
    BY <1>1, <1>7, <2>1, <2>3 DEF Types, stockVars, orderVars, eventVars
<1>9. Inserted'
  <2>1. UNCHANGED << status, paymentStatus, collected, committed, shipment, scanned, events >>
    BY DEF InsertAttempt, orderVars, stockVars, eventVars
  <2>2. \A p \in Orders : p # o => ledger'[p] = ledger[p] /\ gateway'[p] = gateway[p]
    BY <1>52
  <2> QED
    BY <1>1, <1>2, <2>1, <2>2 DEF Inserted
<1>10. Money'
  <2>1. UNCHANGED << paymentStatus, collected, events >>
    BY DEF InsertAttempt, orderVars, eventVars
  <2>2. \A p \in Orders, k \in Attempts : \/ gateway'[p][k] = gateway[p][k] /\ ledger'[p][k] = ledger[p][k]
                                          \/ p = o /\ ledger'[p][k] = "PENDING"
    BY <1>52
  <2>3. \A p \in Orders : Captured(p) => Captured(p)'
    BY <1>6 DEF Gentle
  <2> QED
    BY <1>1, <1>3, <2>1, <2>2, <2>3, MoneyStays
<1> QED
  BY <1>7, <1>8, <1>9, <1>10 DEF IInv

-----------------------------------------------------------------------------
(* The statements that move a unit or the lock.                            *)

LEMMA Finite ==
    ASSUME LifecycleConstants, Types
    PROVE  /\ IsFiniteSet(committed \ restored) /\ Cardinality(committed \ restored) \in Nat
           /\ IsFiniteSet(InTransit) /\ Cardinality(InTransit) \in Nat
<1>1. committed \ restored \subseteq Orders /\ InTransit \subseteq Workers
  BY DEF Types, InTransit
<1>2. IsFiniteSet(committed \ restored) /\ IsFiniteSet(InTransit)
  BY <1>1, FS_Subset DEF LifecycleConstants
<1> QED
  BY <1>2, FS_CardinalityType

LEMMA Enters ==
    ASSUME LifecycleConstants, Types, NEW w \in Workers,
           \A v \in Workers \ {w} : job'[v] = job[v],
           w \notin InTransit, At(w, "insertOrder")' \/ At(w, "restock")'
    PROVE  Cardinality(InTransit') = Cardinality(InTransit) + 1
<1>1. InTransit' = InTransit \cup {w}
  BY DEF InTransit, At
<1> QED
  BY <1>1, Finite, FS_AddElement

LEMMA Leaves ==
    ASSUME LifecycleConstants, Types, NEW w \in Workers,
           \A v \in Workers \ {w} : job'[v] = job[v],
           w \in InTransit, ~At(w, "insertOrder")', ~At(w, "restock")'
    PROVE  Cardinality(InTransit') = Cardinality(InTransit) - 1
<1>1. InTransit' = InTransit \ {w}
  BY DEF InTransit, At
<1> QED
  BY <1>1, Finite, FS_RemoveElement

LEMMA Balanced ==
    ASSUME LifecycleConstants, Types, Types', Balance,
           \/ UnitsAccountedFor' = UnitsAccountedFor
           \/ MayFail /\ UnitsAccountedFor' <= UnitsAccountedFor
    PROVE  Balance'
<1>1. UnitsAccountedFor \in Nat
  BY Finite DEF UnitsAccountedFor, Types
<1>2. UnitsAccountedFor' \in Nat
  <2>1. committed' \ restored' \subseteq Orders /\ InTransit' \subseteq Workers
    BY DEF Types, InTransit
  <2>2. IsFiniteSet(committed' \ restored') /\ IsFiniteSet(InTransit')
    BY <2>1, FS_Subset DEF LifecycleConstants
  <2>3. Cardinality(committed' \ restored') \in Nat /\ Cardinality(InTransit') \in Nat
    BY <2>2, FS_CardinalityType
  <2> QED
    BY <2>3 DEF UnitsAccountedFor, Types
<1>3. Supply \in Nat
  BY DEF LifecycleConstants
<1> QED
  BY <1>1, <1>2, <1>3 DEF Balance, NothingSoldTwice, StockBalance

LEMMA DeductStep ==
    ASSUME LifecycleConstants, IInv, NEW w \in Workers, Deduct(w)
    PROVE  IInv'
<1> DEFINE o == job[w].order
<1>1. At(w, "deduct") /\ Ready(w) /\ Types /\ Inserted /\ Money /\ Balance /\ stockLock = None
  BY DEF Deduct, IInv
<1>2. o \in Orders /\ ~At(w, "restock") /\ ~At(w, "insertOrder") /\ \A v \in Workers : Ready(v)
  BY <1>1, AtHead DEF IInv
<1>3. UNCHANGED << status, paymentStatus, shippingStatus, collected, refunded, committed, restored,
                   held, ledger, shipment, events, tries, gateway, scanned >>
  BY DEF Deduct, orderVars, eventVars, world
<1>4. Monotone /\ \A v \in Workers : Calm(v)
  BY <1>1, <1>3 DEF Monotone, Captured, Calm, LifecycleConstants
<1>5. CASE status[o] = "none" /\ shelf > 0
  <2>1. shelf' = shelf - 1 /\ stockLock' = w /\ GoOn(w, Next1(w))
    BY <1>5 DEF Deduct
  <2> DEFINE t == job[w].todo
  <2>2. t \in Seq(Statements) /\ Len(t) > 0 /\ t # << >> /\ t[1] = "deduct" /\ InOrder(t)
        /\ job[w] \in Jobs
    BY <1>1, AtHead DEF WellFormed
  <2>3. 1 < Len(t) /\ t[1 + 1] = "insertOrder"
    BY <2>2 DEF InOrder, Before
  <2>4. Rest(Next1(w), job[w], 1)
    BY <1>1, <2>2, NextRest DEF Types
  <2>5. Next1(w).todo = Tail(t) /\ Tail(t) # << >> /\ Head(Tail(t)) = "insertOrder"
    <3>1. Next1(w).todo = Tail(t)
      BY <2>2 DEF Next1, Jobs
    <3> HIDE DEF t
    <3>2. Tail(t) \in Seq(Statements) /\ Len(Tail(t)) > 0 /\ Tail(t)[1] = t[1 + 1]
      BY <2>2, <2>3
    <3>3. \A r \in Seq(Statements) : Len(r) > 0 => r # << >> /\ Head(r) = r[1]
      OBVIOUS
    <3> QED
      BY <2>3, <3>1, <3>2, <3>3
  <2>6. job' = [job EXCEPT ![w] = Next1(w)] /\ job \in [Workers -> Jobs]
    BY <1>1, <2>1, <2>5 DEF GoOn, Types
  <2>7. \A x : At(w, x)' <=> x = "insertOrder"
    BY <2>5, <2>6 DEF At
  <2>8. /\ Ready(w)' /\ job' \in [Workers -> Jobs]
        /\ \A v \in Workers \ {w} : job'[v] = job[v]
    BY <1>1, <1>3, <1>4, <1>5, <2>1, <2>2, <2>4, <2>7, ReadyAfter
  <2>9. \A v \in Workers : Ready(v)'
    BY <1>1, <1>2, <1>4, <2>8, OthersReady
  <2>10. Types'
    <3>1. shelf' \in Nat
      BY <1>1, <1>5, <2>1 DEF Types
    <3> QED
      BY <1>1, <1>3, <2>1, <2>8, <3>1 DEF Types
  <2>11. Balance'
    <3>1. w \notin InTransit
      BY <1>2 DEF InTransit
    <3>2. Cardinality(InTransit') = Cardinality(InTransit) + 1
      BY <1>1, <2>7, <2>8, <3>1, Enters
    <3>3. UnitsAccountedFor' = UnitsAccountedFor
      BY <1>1, <1>3, <2>1, <3>2, Finite DEF UnitsAccountedFor, Types
    <3> QED
      BY <1>1, <2>10, <3>3, Balanced
  <2>12. Inserted' /\ Money'
    BY <1>1, <1>3 DEF Inserted, Money, Captured
  <2> QED
    BY <2>9, <2>10, <2>11, <2>12 DEF IInv
<1>6. CASE ~(status[o] = "none" /\ shelf > 0)
  <2>1. UNCHANGED << shelf, stockLock >> /\ GoOn(w, NoJob)
    BY <1>6 DEF Deduct
  <2>2. job' = [job EXCEPT ![w] = NoJob]
    BY <2>1 DEF GoOn
  <2>3. Gentle
    BY <1>3, <2>1 DEF Gentle, Captured
  <2>4. /\ \A v \in Workers : Ready(v)'
        /\ Balance' /\ job' \in [Workers -> Jobs]
    BY <1>2, <2>2, <2>3, EndPlain
  <2>5. Types'
    BY <1>1, <1>3, <2>1, <2>4 DEF Types
  <2>6. Inserted' /\ Money'
    BY <1>1, <1>3 DEF Inserted, Money, Captured
  <2> QED
    BY <2>4, <2>5, <2>6 DEF IInv
<1> QED
  BY <1>5, <1>6

LEMMA InsertOrderStep ==
    ASSUME LifecycleConstants, IInv, NEW w \in Workers, InsertOrder(w)
    PROVE  IInv'
<1> DEFINE o == job[w].order
<1>1. At(w, "insertOrder") /\ Ready(w) /\ Types /\ Inserted /\ Money /\ Balance
  BY DEF InsertOrder, IInv
<1>2. /\ o \in Orders /\ ~At(w, "deduct") /\ \A v \in Workers : Ready(v)
      /\ job[w].todo # << >> /\ job[w].todo[1] = "insertOrder" /\ InOrder(job[w].todo)
  BY <1>1, AtHead DEF IInv, WellFormed
<1>3. stockLock = w /\ status[o] = "none" /\ o \notin committed
  BY <1>1, <1>2 DEF Ready, Inserted
<1>4. UNCHANGED << shippingStatus, collected, refunded, restored, shelf, held, ledger, shipment,
                   events, tries, gateway, scanned >>
  BY DEF InsertOrder, eventVars, world
<1>5. PICK s \in {"PENDING_PAYMENT", "PLACED"} :
         status' = [status EXCEPT ![o] = s] /\ (s = "PENDING_PAYMENT" <=> Method[o] = "online")
  BY DEF InsertOrder
<1>6. PICK p \in {"PENDING", "COD_PENDING"} : paymentStatus' = [paymentStatus EXCEPT ![o] = p]
  BY DEF InsertOrder
<1>7. /\ committed' = committed \cup {o} /\ GoOn(w, Next1(w))
      /\ stockLock' = IF Method[o] = "online" THEN w ELSE None
  BY DEF InsertOrder
<1>8. Rest(Next1(w), job[w], 1)
  BY <1>1, <1>2, NextRest DEF Types
<1>9. status \in [Orders -> OrderStatuses \cup {"none"}]
      /\ paymentStatus \in [Orders -> PaymentStatuses \cup {"none"}]
  BY <1>1 DEF Types
<1>10. status'[o] = s /\ \A q \in Orders : q # o => status'[q] = status[q]
  BY <1>2, <1>5, <1>9
<1>11. Monotone /\ \A v \in Workers \ {w} : Calm(v)
  BY <1>3, <1>4, <1>10 DEF Monotone, Captured, Calm
<1>12. /\ job' \in [Workers -> Jobs]
       /\ \A v \in Workers \ {w} : job'[v] = job[v]
       /\ ~At(w, "restock")' /\ ~At(w, "insertOrder")'
       /\ Method[o] # "online" => ~At(w, "openPayment")'
  <2>1. job \in [Workers -> Jobs] /\ WellFormed(job[w])
    BY <1>1, AtHead DEF Types
  <2>2. /\ job' \in [Workers -> Jobs]
        /\ \A v \in Workers \ {w} : job'[v] = job[v]
        /\ WellFormed(job'[w])
        /\ job'[w].todo # << >> => job'[w].order = o
        /\ \A x, q : After(job[w].todo, x, q) /\ 1 > 0 /\ At(w, x)' => job[w].todo[1] = q
    BY <1>7, <1>8, <2>1, WentOn
  <2>3. After(job[w].todo, "restock", "claimRestore") /\ After(job[w].todo, "insertOrder", "deduct")
    BY <1>2 DEF InOrder
  <2>4. ~At(w, "restock")' /\ ~At(w, "insertOrder")'
    BY <1>2, <2>2, <2>3
  <2>5. At(w, "openPayment")' => Has(job'[w].todo, {"openPayment"}) /\ job'[w].todo # << >>
    <3>1. job'[w].todo \in Seq(Statements)
      BY <2>2 DEF WellFormed, Jobs
    <3>2. At(w, "openPayment")' => job'[w].todo # << >> /\ Head(job'[w].todo) = "openPayment"
      BY DEF At
    <3>3. At(w, "openPayment")' => 1 \in 1 .. Len(job'[w].todo) /\ job'[w].todo[1] = "openPayment"
      BY <3>1, <3>2
    <3> QED
      BY <3>2, <3>3 DEF Has
  <2>6. Has(job'[w].todo, {"openPayment"}) => Has(job'[w].todo, {"openPayment", "insertAttempt"})
    BY DEF Has
  <2>7. At(w, "openPayment")' => Method[job'[w].order] = "online"
    BY <2>2, <2>5, <2>6 DEF WellFormed, Equipped
  <2> QED
    BY <2>2, <2>4, <2>5, <2>7
<1>13. Ready(w)'
  <2>1. gateway'[o][0] = {}
    <3>1. 0 \in Attempts
      BY DEF Attempts, LifecycleConstants
    <3> QED
      BY <1>1, <1>2, <1>3, <1>4, <3>1 DEF Inserted
  <2>2. At(w, "openPayment")' => stockLock' = w /\ gateway'[o][0] = {}
    BY <1>7, <1>12, <2>1
  <2>3. status'[o] # "none"
    BY <1>10
  <2> QED
    BY <1>1, <1>2, <1>7, <1>8, <1>11, <1>12, <2>2, <2>3, ReadyAfter
<1>14. \A v \in Workers : Ready(v)'
  BY <1>1, <1>2, <1>11, <1>12, <1>13, OthersReady
<1>15. Types'
  <2>1. status' \in [Orders -> OrderStatuses \cup {"none"}]
    BY <1>5, <1>9 DEF OrderStatuses
  <2>2. paymentStatus' \in [Orders -> PaymentStatuses \cup {"none"}]
    BY <1>6, <1>9 DEF PaymentStatuses
  <2>3. committed' \subseteq Orders /\ restored' \subseteq committed' /\ held' \subseteq committed'
        /\ stockLock' \in Workers \cup {None}
    BY <1>1, <1>2, <1>4, <1>7 DEF Types
  <2> QED
    BY <1>1, <1>4, <1>12, <2>1, <2>2, <2>3 DEF Types
<1>16. Balance'
  <2>1. w \in InTransit
    BY <1>1 DEF InTransit
  <2>2. Cardinality(InTransit') = Cardinality(InTransit) - 1
    BY <1>1, <1>12, <2>1, Leaves
  <2>3. committed' \ restored' = (committed \ restored) \cup {o} /\ o \notin committed \ restored
    BY <1>1, <1>3, <1>4, <1>7 DEF Types
  <2>4. Cardinality(committed' \ restored') = Cardinality(committed \ restored) + 1
    BY <1>1, <2>3, Finite, FS_AddElement
  <2>5. UnitsAccountedFor' = UnitsAccountedFor
    BY <1>1, <1>4, <2>2, <2>4, Finite DEF UnitsAccountedFor, Types
  <2> QED
    BY <1>1, <1>15, <2>5, Balanced
<1>17. Inserted'
  <2>1. \A q \in Orders : q # o => paymentStatus'[q] = paymentStatus[q]
    BY <1>6, <1>9
  <2>2. \A e \in Event : status[e.order] # "none" => status'[e.order] # "none"
    BY <1>11, EventOrder DEF Monotone
  <2> QED
    BY <1>1, <1>2, <1>4, <1>5, <1>7, <1>10, <2>1, <2>2 DEF Inserted
<1>18. Money'
  <2>1. \A q \in Orders : paymentStatus'[q] \in Settled => paymentStatus[q] \in Settled
    BY <1>6, <1>9 DEF Settled
  <2>2. \A q \in Orders : Captured(q) => Captured(q)'
    BY <1>11 DEF Monotone
  <2> QED
    BY <1>1, <1>4, <2>1, <2>2, MoneyStays
<1> QED
  BY <1>14, <1>15, <1>16, <1>17, <1>18 DEF IInv

LEMMA OpenPaymentStep ==
    ASSUME LifecycleConstants, IInv, NEW w \in Workers, OpenPayment(w)
    PROVE  IInv'
<1> DEFINE o == job[w].order
<1>1. At(w, "openPayment") /\ Ready(w) /\ Types /\ Inserted /\ Money /\ Balance
  BY DEF OpenPayment, IInv
<1>2. /\ o \in Orders /\ status[o] # "none" /\ ~At(w, "restock") /\ ~At(w, "insertOrder")
      /\ \A v \in Workers : Ready(v)
      /\ job[w].todo # << >> /\ job[w].todo[1] = "openPayment" /\ InOrder(job[w].todo)
      /\ Method[o] = "online"
  <2>1. Has(job[w].todo, {"openPayment", "insertAttempt"})
    BY <1>1, AtHead
  <2>2. Method[o] = "online"
    BY <1>1, <2>1 DEF Ready, WellFormed, Equipped
  <2> QED
    BY <1>1, <2>2, AtHead DEF IInv, WellFormed
<1>3. stockLock = w /\ gateway[o][0] = {} /\ 0 \in Attempts
  BY <1>1 DEF Ready, Attempts, LifecycleConstants
<1>4. UNCHANGED << status, paymentStatus, shippingStatus, collected, refunded, committed, restored,
                   shelf, held, shipment, events, tries, scanned >> /\ stockLock' = None
  BY DEF OpenPayment, eventVars, orderVars
<1>5. CASE /\ ledger' = [ledger EXCEPT ![o][0] = "PENDING"]
           /\ gateway' = [gateway EXCEPT ![o][0] = {"open"}]
           /\ GoOn(w, Next1(w))
  <2>1. /\ ledger \in [Orders -> [Attempts -> {"none", "PENDING", "PAID", "FAILED"}]]
        /\ gateway \in [Orders -> [Attempts -> SUBSET {"open", "failed", "captured"}]]
    BY <1>1 DEF Types
  <2>2. /\ ledger' \in [Orders -> [Attempts -> {"none", "PENDING", "PAID", "FAILED"}]]
        /\ gateway' \in [Orders -> [Attempts -> SUBSET {"open", "failed", "captured"}]]
    BY <1>2, <1>3, <1>5, <2>1
  <2>3. \A p \in Orders : p # o => ledger'[p] = ledger[p] /\ gateway'[p] = gateway[p]
    BY <1>2, <1>5, <2>1
  <2>4. \A k \in Attempts : k # 0 => ledger'[o][k] = ledger[o][k] /\ gateway'[o][k] = gateway[o][k]
    BY <1>2, <1>5, <2>1
  <2>5. ledger'[o][0] = "PENDING" /\ gateway'[o][0] = {"open"}
    BY <1>2, <1>3, <1>5, <2>1
  <2>6. \A p \in Orders : Captured(p) => Captured(p)'
    <3> SUFFICES ASSUME NEW p \in Orders, NEW k \in Attempts, "captured" \in gateway[p][k]
                 PROVE  "captured" \in gateway'[p][k]
      BY DEF Captured
    <3> QED
      BY <1>3, <2>3, <2>4
  <2>7. Monotone /\ \A v \in Workers \ {w} : Calm(v)
    BY <1>3, <1>4, <2>6 DEF Monotone, Calm
  <2>8. Rest(Next1(w), job[w], 1)
    BY <1>1, <1>2, NextRest DEF Types
  <2>9. /\ Ready(w)' /\ job' \in [Workers -> Jobs]
        /\ \A v \in Workers \ {w} : job'[v] = job[v]
        /\ ~At(w, "restock")' /\ ~At(w, "insertOrder")' /\ ~At(w, "openPayment")'
        /\ ~At(w, "voidOrder")'
    <3>1. ~At(w, "deduct")
      BY <1>1, AtHead
    <3> QED
      BY <1>1, <1>2, <1>5, <2>7, <2>8, <3>1, WentOnReady
  <2>10. \A v \in Workers : Ready(v)'
    BY <1>1, <1>2, <2>7, <2>9, OthersReady
  <2>11. Balance'
    BY <1>1, <1>2, <1>4, <2>9, BalanceStays
  <2>12. Types'
    BY <1>1, <1>4, <2>2, <2>9 DEF Types
  <2>13. Inserted'
    BY <1>1, <1>2, <1>4, <2>3 DEF Inserted
  <2>14. Money'
    <3>1. \A p \in Orders, k \in Attempts : \/ gateway'[p][k] = gateway[p][k] /\ ledger'[p][k] = ledger[p][k]
                                            \/ p = o /\ ledger'[p][k] = "PENDING"
      BY <2>3, <2>4, <2>5
    <3> QED
      BY <1>1, <1>2, <1>4, <2>6, <3>1, MoneyStays
  <2> QED
    BY <2>10, <2>11, <2>12, <2>13, <2>14 DEF IInv
<1>6. CASE /\ GoOn(w, [job[w] EXCEPT !.todo = ReturnStock \o << "voidOrder" >>])
           /\ UNCHANGED << ledger, gateway >>
  <2> DEFINE back == ReturnStock \o << "voidOrder" >>
             j == [job[w] EXCEPT !.todo = back]
  <2>1. Good(back, Restoring \cup {"voidOrder"}) /\ back[1] = "claimRestore" /\ GoOn(w, j)
    BY <1>6, MoreLists
  <2> HIDE DEF back
  <2>2. job[w] \in Jobs /\ WellFormed(job[w]) /\ job \in [Workers -> Jobs]
    BY <1>1, AtHead DEF Types
  <2>3. /\ j.todo = back /\ j \in Jobs /\ j.order = o /\ j.event = job[w].event
        /\ j.verdict = job[w].verdict
    BY <2>1, <2>2 DEF Jobs, Good
  <2>4. job' = [job EXCEPT ![w] = j]
    BY <2>1, <2>3 DEF GoOn, Good
  <2> HIDE DEF j
  <2>5. ~Has(back, {"openPayment", "insertAttempt"}) /\ ~Has(back, {"recordPayment"})
        /\ ~Has(back, {"failPayment"}) /\ ~Has(back, {"moveShipment", "moveShipping", "follow"})
        /\ ~Has(back, {"setIfSame"}) /\ ~Has(back, {"claimPaid"}) /\ ~Has(back, {"finish"})
        /\ ~Has(back, {"deduct", "insertOrder"})
    BY <2>1, OfHas DEF Good, Restoring
  <2>6. Before(back, "setIfSame", "claimRestore")
    BY <2>5 DEF Before, Has
  <2>7. WellFormed(j)
    BY <1>2, <2>1, <2>3, <2>5, <2>6 DEF WellFormed, Equipped, Good
  <2>8. job' \in [Workers -> Jobs] /\ job'[w] = j /\ \A v \in Workers \ {w} : job'[v] = job[v]
    BY <2>2, <2>3, <2>4
  <2>9. \A x : At(w, x)' <=> x = "claimRestore"
    <3>1. \A r \in Seq(Statements) : r # << >> => Head(r) = r[1]
      OBVIOUS
    <3> QED
      BY <2>1, <2>3, <2>8, <3>1 DEF At, Good
  <2>10. Monotone /\ \A v \in Workers \ {w} : Calm(v)
    BY <1>3, <1>4, <1>6 DEF Monotone, Calm, Captured
  <2>11. Ready(w)'
    <3>1. (job[w].todo # << >> /\ ~At(w, "deduct") /\ ~At(w, "insertOrder")
             => status[job[w].order] # "none")'
      BY <1>2, <1>4, <2>3, <2>8
    <3>2. (job[w].event # None => events[job[w].event] # "none")'
      BY <1>1, <1>4, <2>3, <2>8 DEF Ready
    <3>3. ~Has(j.todo, {"claimPaid"})
      BY <2>3, <2>5
    <3> QED
      BY <2>1, <2>3, <2>7, <2>8, <2>9, <3>1, <3>2, <3>3 DEF Ready, Good
  <2>12. \A v \in Workers : Ready(v)'
    BY <1>1, <1>2, <2>8, <2>10, <2>11, OthersReady
  <2>13. Balance'
    BY <1>1, <1>2, <1>4, <2>8, <2>9, BalanceStays
  <2>14. Types'
    BY <1>1, <1>4, <1>6, <2>8 DEF Types
  <2>15. Inserted' /\ Money'
    BY <1>1, <1>4, <1>6 DEF Inserted, Money, Captured
  <2> QED
    BY <2>12, <2>13, <2>14, <2>15 DEF IInv
<1> QED
  BY <1>5, <1>6 DEF OpenPayment

LEMMA ClaimRestoreStep ==
    ASSUME LifecycleConstants, IInv, NEW w \in Workers, ClaimRestore(w)
    PROVE  IInv'
<1> DEFINE o == job[w].order
           t == job[w].todo
<1>1. At(w, "claimRestore") /\ Ready(w) /\ Types /\ Inserted /\ Money /\ Balance /\ stockLock = None
  BY DEF ClaimRestore, IInv
<1>2. /\ o \in Orders /\ status[o] # "none" /\ ~At(w, "restock") /\ ~At(w, "insertOrder")
      /\ \A v \in Workers : Ready(v)
      /\ t \in Seq(Statements) /\ t # << >> /\ Len(t) > 0 /\ t[1] = "claimRestore" /\ InOrder(t)
      /\ job[w] \in Jobs /\ job \in [Workers -> Jobs]
  BY <1>1, AtHead DEF IInv, WellFormed, Types
<1>3. UNCHANGED << status, paymentStatus, shippingStatus, collected, refunded, committed,
                   shelf, held, ledger, shipment, events, tries, gateway, scanned >>
  BY DEF ClaimRestore, eventVars, orderVars, world
<1>4. 1 < Len(t) /\ t[1 + 1] = "restock"
  BY <1>2 DEF InOrder, Before
<1>5. CASE o \in committed \ restored
  <2>1. restored' = restored \cup {o} /\ stockLock' = w /\ GoOn(w, Next1(w))
    BY <1>5 DEF ClaimRestore
  <2>2. Rest(Next1(w), job[w], 1)
    BY <1>2, NextRest
  <2>3. Next1(w).todo = Tail(t) /\ Tail(t) # << >> /\ Head(Tail(t)) = "restock"
    <3>1. Next1(w).todo = Tail(t)
      BY <1>2 DEF Next1, Jobs
    <3> HIDE DEF t
    <3>2. Tail(t) \in Seq(Statements) /\ Len(Tail(t)) > 0 /\ Tail(t)[1] = t[1 + 1]
      BY <1>2, <1>4
    <3>3. \A r \in Seq(Statements) : Len(r) > 0 => r # << >> /\ Head(r) = r[1]
      OBVIOUS
    <3> QED
      BY <1>4, <3>1, <3>2, <3>3
  <2>4. job' = [job EXCEPT ![w] = Next1(w)]
    BY <2>1, <2>3 DEF GoOn
  <2>5. \A x : At(w, x)' <=> x = "restock"
    BY <1>2, <2>3, <2>4 DEF At
  <2>6. Monotone /\ \A v \in Workers : Calm(v)
    BY <1>1, <1>3, <2>1 DEF Monotone, Captured, Calm, LifecycleConstants
  <2>7. status'[o] # "none" /\ o \in restored'
    BY <1>2, <1>3, <2>1
  <2>8. /\ Ready(w)' /\ job' \in [Workers -> Jobs]
        /\ \A v \in Workers \ {w} : job'[v] = job[v]
    BY <1>1, <1>2, <2>1, <2>2, <2>5, <2>6, <2>7, ReadyAfter
  <2>9. \A v \in Workers : Ready(v)'
    BY <1>1, <1>2, <2>6, <2>8, OthersReady
  <2>10. Types'
    <3>1. restored' \subseteq committed
      BY <1>1, <1>5, <2>1 DEF Types
    <3> QED
      BY <1>1, <1>3, <2>1, <2>8, <3>1 DEF Types
  <2>11. Balance'
    <3>1. w \notin InTransit
      BY <1>2 DEF InTransit
    <3>2. Cardinality(InTransit') = Cardinality(InTransit) + 1
      BY <1>1, <2>5, <2>8, <3>1, Enters
    <3>3. committed' \ restored' = (committed \ restored) \ {o}
      BY <1>3, <2>1
    <3>4. Cardinality(committed' \ restored') = Cardinality(committed \ restored) - 1
      <4>1. IsFiniteSet(committed \ restored)
        BY <1>1, Finite
      <4>2. Cardinality((committed \ restored) \ {o}) = Cardinality(committed \ restored) - 1
        BY <1>5, <4>1, FS_RemoveElement
      <4> QED
        BY <3>3, <4>2
    <3>5. UnitsAccountedFor' = UnitsAccountedFor
      BY <1>1, <1>3, <3>2, <3>4, Finite DEF UnitsAccountedFor, Types
    <3> QED
      BY <1>1, <2>10, <3>5, Balanced
  <2>12. Inserted' /\ Money'
    BY <1>1, <1>3 DEF Inserted, Money, Captured
  <2> QED
    BY <2>9, <2>10, <2>11, <2>12 DEF IInv
<1>6. CASE o \notin committed \ restored
  <2>1. UNCHANGED << restored, stockLock >> /\ GoOn(w, Skipping(w, 1))
    BY <1>6 DEF ClaimRestore
  <2>2. 1 + 1 <= Len(t) /\ 1 + 1 = 2
    BY <1>2, <1>4
  <2>3. Rest(Skipping(w, 1), job[w], 2)
    BY <1>2, <2>2, SkipRest
  <2>4. Gentle
    BY <1>3, <2>1 DEF Gentle, Captured
  <2>5. Monotone /\ \A v : Calm(v)
    BY <2>4, GentleIsCalm
  <2>6. \A x, p : After(t, x, p) /\ 2 > 0 /\ At(w, x)' => t[2] = p
    BY <1>1, <1>2, <2>1, <2>3, WentOn DEF WellFormed, Ready
  <2>7. ~At(w, "restock")' /\ ~At(w, "insertOrder")' /\ ~At(w, "openPayment")'
    BY <1>2, <1>4, <2>2, <2>6 DEF InOrder
  <2>8. status'[o] # "none"
    BY <1>2, <1>3
  <2>9. /\ Ready(w)' /\ job' \in [Workers -> Jobs]
        /\ \A v \in Workers \ {w} : job'[v] = job[v]
    BY <1>1, <1>2, <2>1, <2>3, <2>5, <2>7, <2>8, ReadyAfter
  <2>10. \A v \in Workers : Ready(v)'
    BY <1>1, <1>2, <2>5, <2>9, OthersReady
  <2>11. Balance'
    BY <1>1, <1>2, <1>3, <2>1, <2>7, <2>9, BalanceStays
  <2>12. Types'
    BY <1>1, <1>3, <2>1, <2>9 DEF Types
  <2>13. Inserted' /\ Money'
    BY <1>1, <1>3 DEF Inserted, Money, Captured
  <2> QED
    BY <2>10, <2>11, <2>12, <2>13 DEF IInv
<1> QED
  BY <1>5, <1>6

LEMMA RestockStep ==
    ASSUME LifecycleConstants, IInv, NEW w \in Workers, Restock(w)
    PROVE  IInv'
<1> DEFINE o == job[w].order
<1>1. At(w, "restock") /\ Ready(w) /\ Types /\ Inserted /\ Money /\ Balance
  BY DEF Restock, IInv
<1>2. /\ o \in Orders /\ status[o] # "none" /\ \A v \in Workers : Ready(v)
      /\ job[w].todo # << >> /\ job[w].todo[1] = "restock" /\ InOrder(job[w].todo)
      /\ job[w] \in Jobs /\ job \in [Workers -> Jobs] /\ WellFormed(job[w])
  BY <1>1, AtHead DEF IInv, WellFormed, Types
<1>3. UNCHANGED << status, paymentStatus, shippingStatus, collected, refunded, committed, restored,
                   ledger, shipment, events, tries, gateway, scanned >>
  BY DEF Restock, eventVars, orderVars, world
<1>4. /\ shelf' = shelf + 1 /\ held' = held \ {o} /\ stockLock' = None /\ GoOn(w, Next1(w))
      /\ stockLock = w
  BY <1>1 DEF Restock, Ready
<1>5. Rest(Next1(w), job[w], 1)
  BY <1>2, NextRest
<1>6. Monotone /\ \A v \in Workers \ {w} : Calm(v)
  BY <1>3, <1>4 DEF Monotone, Captured, Calm
<1>7. \A x, p : After(job[w].todo, x, p) /\ 1 > 0 /\ At(w, x)' => job[w].todo[1] = p
  BY <1>2, <1>4, <1>5, WentOn
<1>8. ~At(w, "restock")' /\ ~At(w, "insertOrder")' /\ ~At(w, "openPayment")'
  BY <1>2, <1>7 DEF InOrder
<1>9. status'[o] # "none"
  BY <1>2, <1>3
<1>10. /\ Ready(w)' /\ job' \in [Workers -> Jobs]
       /\ \A v \in Workers \ {w} : job'[v] = job[v]
  BY <1>1, <1>2, <1>4, <1>5, <1>6, <1>8, <1>9, ReadyAfter
<1>11. \A v \in Workers : Ready(v)'
  BY <1>1, <1>2, <1>6, <1>10, OthersReady
<1>12. Types'
  BY <1>1, <1>3, <1>4, <1>10 DEF Types
<1>13. Balance'
  <2>1. w \in InTransit
    BY <1>1 DEF InTransit
  <2>2. Cardinality(InTransit') = Cardinality(InTransit) - 1
    BY <1>1, <1>8, <1>10, <2>1, Leaves
  <2>3. UnitsAccountedFor' = UnitsAccountedFor
    BY <1>1, <1>3, <1>4, <2>2, Finite DEF UnitsAccountedFor, Types
  <2> QED
    BY <1>1, <1>12, <2>3, Balanced
<1>14. Inserted' /\ Money'
  BY <1>1, <1>3 DEF Inserted, Money, Captured
<1> QED
  BY <1>11, <1>12, <1>13, <1>14 DEF IInv

-----------------------------------------------------------------------------
(* A handler is called.                                                    *)

LEMMA WrittenOut ==
    ASSUME NEW o \in Orders, NEW t, NEW R, Good(t, R), NEW j \in Jobs,
           j.todo = t, j.order = o,
           R \cap {"openPayment", "insertAttempt"} # {} => Method[o] = "online",
           "recordPayment" \in R => j.verdict \in {"PENDING", "PAID", "FAILED"},
           "failPayment" \in R => j.verdict \in {"FAILED", "CANCELLED", "EXPIRED"},
           R \cap {"moveShipment", "moveShipping", "follow"} # {} => j.verdict \in Scans,
           "setIfSame" \in R => /\ j.verdict \in OrderStatuses \ {"PENDING_PAYMENT"}
                                /\ j.verdict \in GivesUp => Before(t, "setIfSame", "claimRestore"),
           "finish" \in R => j.event \in Event, "voidOrder" \notin R
    PROVE  WellFormed(j) /\ j.todo # << >> /\ Opens(j.todo[1])
<1>1. t \in Seq(Statements) /\ t # << >> /\ InOrder(t) /\ Of(t, R) /\ Opens(t[1])
  BY DEF Good
<1>2. \A S : R \cap S = {} => ~Has(t, S)
  BY <1>1, OfHas
<1>3. \A s : s \notin R => R \cap {s} = {}
  OBVIOUS
<1>4. /\ Has(t, {"recordPayment"}) => "recordPayment" \in R
      /\ Has(t, {"failPayment"}) => "failPayment" \in R
      /\ Has(t, {"setIfSame"}) => "setIfSame" \in R
      /\ Has(t, {"finish"}) => "finish" \in R
      /\ ~Has(t, {"voidOrder"})
  BY <1>2, <1>3
<1>5. j.verdict \in GivesUp => Before(t, "setIfSame", "claimRestore")
  BY <1>4 DEF Before, Has
<1> QED
  BY <1>1, <1>2, <1>4, <1>5 DEF WellFormed, Equipped

\* The others stay where they are.
Alone(w) == \A v \in Workers \ {w} : job'[v] = job[v]

\* A handler was begun, or none.
Begins(w) == (Idle(w) /\ Alone(w) /\ ~At(w, "voidOrder")') \/ UNCHANGED job

\* The handler starts, and a webhook has claimed its event at most.
LEMMA StartStep ==
    ASSUME LifecycleConstants, IInv, NEW w \in Workers, Idle(w), NEW j, WellFormed(j),
           job' = [job EXCEPT ![w] = j], j.todo # << >>, Opens(j.todo[1]),
           j.todo[1] # "deduct" => status[j.order] # "none",
           j.event # None => events'[j.event] # "none",
           Has(j.todo, {"claimPaid"}) => Captured(j.order),
           UNCHANGED << orderVars, stockVars, ledger, shipment, tries, world >>,
           events' \in [Event -> {"none", "RECEIVED", "PROCESSED", "FAILED", "IGNORED"}],
           \A e \in Event : events[e] # "none" => events'[e] # "none",
           \A e \in Event : events'[e] # "none" => \/ events[e] # "none"
                                                   \/ /\ status[e.order] # "none"
                                                      /\ e.about = "captured" => Captured(e.order)
    PROVE  IInv' /\ Begins(w)
<1>1. Types /\ Inserted /\ Money
  BY DEF IInv
<1>2. Gentle
  BY DEF Gentle, orderVars, stockVars, world, Captured
<1>3. ~At(w, "restock") /\ ~At(w, "insertOrder")
  BY IdleNowhere
<1>4. j.todo[1] # "deduct" => status'[j.order] # "none"
  BY DEF orderVars
<1>5. Has(j.todo, {"claimPaid"}) => \A o \in Orders : o = j.order => Captured(o)'
  BY DEF Captured, world
<1>6. /\ \A v \in Workers : Ready(v)'
      /\ Balance' /\ job' \in [Workers -> Jobs] /\ Begins(w)
  BY <1>2, <1>3, <1>4, <1>5, StartPlain DEF Begins, Alone
<1>7. Types'
  BY <1>1, <1>6 DEF Types, orderVars, stockVars, world
<1>8. Inserted'
  BY <1>1 DEF Inserted, orderVars, stockVars, world
<1>9. Money'
  BY <1>1 DEF Money, orderVars, world, Captured
<1> QED
  BY <1>6, <1>7, <1>8, <1>9 DEF IInv

\* The same for a handler that is no webhook.
LEMMA CallStep ==
    ASSUME LifecycleConstants, IInv, NEW w \in Workers, NEW handler, NEW j, Run(w, handler, j),
           WellFormed(j), j.todo # << >>, Opens(j.todo[1]), j.event = None,
           j.todo[1] # "deduct" => status[j.order] # "none", ~Has(j.todo, {"claimPaid"}),
           UNCHANGED << orderVars, stockVars, ledger, shipment, eventVars, world >>
    PROVE  IInv' /\ Begins(w)
<1>1. UNCHANGED << events, tries >> /\ Types
  BY DEF eventVars, IInv
<1>2. job' = [job EXCEPT ![w] = j] /\ Idle(w)
  BY DEF Run
<1>3. events' \in [Event -> {"none", "RECEIVED", "PROCESSED", "FAILED", "IGNORED"}]
  BY <1>1 DEF Types
<1> QED
  BY <1>1, <1>2, <1>3, StartStep

LEMMA CheckoutStep ==
    ASSUME LifecycleConstants, IInv, NEW w \in Workers, NEW o \in Orders, Checkout(w, o)
    PROVE  IInv' /\ Begins(w)
<1> DEFINE j(t) == Job(o, t)
<1>1. PICK t : /\ Run(w, "checkout", j(t))
               /\ t = << "deduct", "insertOrder" >> \o
                         (IF Method[o] = "online" THEN << "openPayment" >> ELSE << >>)
  BY DEF Checkout
<1>2. CASE Method[o] = "online"
  <2>1. Good(t, {"deduct", "insertOrder", "openPayment"}) /\ t[1] = "deduct"
    BY <1>1, <1>2, MoreLists
  <2>2. j(t) \in Jobs /\ j(t).todo = t /\ j(t).order = o /\ j(t).event = None
    BY <2>1, NoJobWellFormed DEF Job, NoJob, Jobs, Good, WellFormed
  <2> HIDE DEF j
  <2>3. WellFormed(j(t)) /\ j(t).todo # << >> /\ Opens(j(t).todo[1])
    BY <1>2, <2>1, <2>2, WrittenOut
  <2>4. ~Has(t, {"claimPaid"})
    BY <2>1, OfHas DEF Good
  <2> QED
    BY <1>1, <2>1, <2>2, <2>3, <2>4, CallStep DEF Checkout
<1>3. CASE Method[o] # "online"
  <2>1. t = << "deduct", "insertOrder" >>
    BY <1>1, <1>3
  <2>2. Good(t, {"deduct", "insertOrder"}) /\ t[1] = "deduct"
    BY <2>1, SmallLists
  <2>3. j(t) \in Jobs /\ j(t).todo = t /\ j(t).order = o /\ j(t).event = None
    BY <2>2, NoJobWellFormed DEF Job, NoJob, Jobs, Good, WellFormed
  <2> HIDE DEF j
  <2>4. WellFormed(j(t)) /\ j(t).todo # << >> /\ Opens(j(t).todo[1])
    BY <2>2, <2>3, WrittenOut
  <2>5. ~Has(t, {"claimPaid"})
    BY <2>2, OfHas DEF Good
  <2> QED
    BY <1>1, <2>2, <2>3, <2>4, <2>5, CallStep DEF Checkout
<1> QED
  BY <1>2, <1>3

LEMMA VerifyStep ==
    ASSUME LifecycleConstants, IInv, NEW w \in Workers, NEW o \in Orders, NEW k \in Attempts,
           Verify(w, o, k)
    PROVE  IInv' /\ Begins(w)
<1> DEFINE ask == [Job(o, << "fetch" >>) EXCEPT !.attempt = k]
           refuse == [Job(o, << "recordPayment" >>) EXCEPT !.attempt = k, !.verdict = "FAILED"]
<1>1. Types /\ Inserted
  BY DEF IInv
<1>2. status[o] # "none"
  BY <1>1 DEF Verify, Inserted
<1>3. CASE Run(w, "verify", ask)
  <2>1. Good(<< "fetch" >>, {"fetch"})
    BY SmallLists
  <2>2. ask \in Jobs /\ ask.todo = << "fetch" >> /\ ask.order = o /\ ask.event = None
    BY <2>1, NoJobWellFormed DEF Job, NoJob, Jobs, Good, WellFormed
  <2> HIDE DEF ask
  <2>3. WellFormed(ask) /\ ask.todo # << >> /\ Opens(ask.todo[1])
    BY <2>1, <2>2, WrittenOut
  <2>4. ~Has(<< "fetch" >>, {"claimPaid"})
    BY <2>1, OfHas DEF Good
  <2> QED
    BY <1>2, <1>3, <2>1, <2>2, <2>3, <2>4, CallStep DEF Verify
<1>4. CASE Run(w, "verify", refuse)
  <2>1. Good(<< "recordPayment" >>, {"recordPayment"})
    BY SmallLists
  <2>2. /\ refuse \in Jobs /\ refuse.todo = << "recordPayment" >> /\ refuse.order = o
        /\ refuse.event = None /\ refuse.verdict = "FAILED"
    BY <2>1, NoJobWellFormed DEF Job, NoJob, Jobs, Good, WellFormed, Verdicts, PaymentStatuses
  <2> HIDE DEF refuse
  <2>3. WellFormed(refuse) /\ refuse.todo # << >> /\ Opens(refuse.todo[1])
    BY <2>1, <2>2, WrittenOut
  <2>4. ~Has(<< "recordPayment" >>, {"claimPaid"})
    BY <2>1, OfHas DEF Good
  <2> QED
    BY <1>2, <1>4, <2>1, <2>2, <2>3, <2>4, CallStep DEF Verify
<1> QED
  BY <1>3, <1>4 DEF Verify

LEMMA RetryStep ==
    ASSUME LifecycleConstants, IInv, NEW w \in Workers, NEW o \in Orders, Retry(w, o)
    PROVE  IInv' /\ Begins(w)
<1> DEFINE j == Job(o, << "insertAttempt" >>)
<1>1. Types /\ Inserted
  BY DEF IInv
<1>2. status[o] # "none" /\ Method[o] = "online" /\ Run(w, "retry", j)
  BY <1>1 DEF Retry, Inserted
<1>3. Good(<< "insertAttempt" >>, {"insertAttempt"})
  BY SmallLists
<1>4. j \in Jobs /\ j.todo = << "insertAttempt" >> /\ j.order = o /\ j.event = None
  BY <1>3, NoJobWellFormed DEF Job, NoJob, Jobs, Good, WellFormed
<1> HIDE DEF j
<1>5. WellFormed(j) /\ j.todo # << >> /\ Opens(j.todo[1])
  BY <1>2, <1>3, <1>4, WrittenOut
<1>6. ~Has(<< "insertAttempt" >>, {"claimPaid"})
  BY <1>3, OfHas DEF Good
<1> QED
  BY <1>2, <1>3, <1>4, <1>5, <1>6, CallStep DEF Retry

\* /payments/:orderId/cancel and the sweep of the abandoned checkouts.
LEMMA GiveUpStep ==
    ASSUME LifecycleConstants, IInv, NEW w \in Workers, NEW o \in Orders,
           CancelPayment(w, o) \/ Expire(w, o)
    PROVE  IInv' /\ Begins(w)
<1>1. status[o] # "none"
  BY DEF CancelPayment, Expire
<1>2. PICK verdict \in {"CANCELLED", "EXPIRED"} :
         \E handler : Run(w, handler, [Job(o, Fail) EXCEPT !.verdict = verdict])
  BY DEF CancelPayment, Expire
<1>3. UNCHANGED << orderVars, stockVars, ledger, shipment, eventVars, world >>
  BY DEF CancelPayment, Expire
<1> DEFINE j == [Job(o, Fail) EXCEPT !.verdict = verdict]
<1>4. Good(Fail, Failing) /\ Fail[1] = "failPayment"
  BY Lists
<1> HIDE DEF Fail
<1>5. j \in Jobs /\ j.todo = Fail /\ j.order = o /\ j.event = None /\ j.verdict = verdict
  BY <1>4, NoJobWellFormed DEF Job, NoJob, Jobs, Good, WellFormed, Verdicts, PaymentStatuses
<1>6. PICK handler : Run(w, handler, j)
  BY <1>2
<1> HIDE DEF j
<1>7. WellFormed(j) /\ j.todo # << >> /\ Opens(j.todo[1])
  BY <1>4, <1>5, WrittenOut DEF Failing, Restoring
<1>8. ~Has(Fail, {"claimPaid"})
  BY <1>4, OfHas DEF Good, Failing, Restoring
<1> QED
  BY <1>1, <1>3, <1>4, <1>5, <1>6, <1>7, <1>8, CallStep

LEMMA UnbookStep ==
    ASSUME LifecycleConstants, IInv, NEW w \in Workers, NEW o \in Orders, Unbook(w, o)
    PROVE  IInv' /\ Begins(w)
<1> DEFINE j == Job(o, Recall)
<1>1. Types /\ Inserted
  BY DEF IInv
<1>2. status[o] # "none" /\ Run(w, "recall", j)
  BY <1>1 DEF Unbook, Inserted
<1>3. Good(Recall, Recalling) /\ Recall[1] = "recall"
  BY Lists
<1> HIDE DEF Recall
<1>4. j \in Jobs /\ j.todo = Recall /\ j.order = o /\ j.event = None
  BY <1>3, NoJobWellFormed DEF Job, NoJob, Jobs, Good, WellFormed
<1> HIDE DEF j
<1>5. WellFormed(j) /\ j.todo # << >> /\ Opens(j.todo[1])
  BY <1>3, <1>4, WrittenOut DEF Recalling
<1>6. ~Has(Recall, {"claimPaid"})
  BY <1>3, OfHas DEF Good, Recalling
<1> QED
  BY <1>2, <1>3, <1>4, <1>5, <1>6, CallStep DEF Unbook

LEMMA BookStep ==
    ASSUME LifecycleConstants, IInv, NEW w \in Workers, NEW o \in Orders, Book(w, o)
    PROVE  IInv' /\ Begins(w)
<1> DEFINE t == << "openShipment", "assignAwb", "noteAwb" >>
           j == Job(o, t)
<1>1. Types /\ Inserted
  BY DEF IInv
<1>2. status[o] # "none" /\ Run(w, "book", j)
  BY <1>1 DEF Book, Inserted
<1>3. Good(t, Booking) /\ t[1] = "openShipment"
  BY Lists
<1>4. j \in Jobs /\ j.todo = t /\ j.order = o /\ j.event = None
  BY <1>3, NoJobWellFormed DEF Job, NoJob, Jobs, Good, WellFormed
<1> HIDE DEF j, t
<1>5. WellFormed(j) /\ j.todo # << >> /\ Opens(j.todo[1])
  BY <1>3, <1>4, WrittenOut DEF Booking
<1>6. ~Has(t, {"claimPaid"})
  BY <1>3, OfHas DEF Good, Booking
<1> QED
  BY <1>2, <1>3, <1>4, <1>5, <1>6, CallStep DEF Book

LEMMA TrackStep ==
    ASSUME LifecycleConstants, IInv, NEW w \in Workers, NEW o \in Orders, Track(w, o)
    PROVE  IInv' /\ Begins(w)
<1> DEFINE scan == Last(scanned[o])
           t == Apply(scan)
           j == [Job(o, t) EXCEPT !.verdict = scan]
<1>1. Types /\ Inserted
  BY DEF IInv
<1>2. status[o] # "none" /\ scan \in Scans /\ Run(w, "track", j)
  BY <1>1 DEF Track, Inserted
<1>3. Good(t, Applying)
  BY ApplyList
<1> HIDE DEF t, scan
<1>4. j \in Jobs /\ j.todo = t /\ j.order = o /\ j.event = None /\ j.verdict = scan
  BY <1>2, <1>3, NoJobWellFormed DEF Job, NoJob, Jobs, Good, WellFormed, Verdicts
<1> HIDE DEF j
<1>5. WellFormed(j) /\ j.todo # << >> /\ Opens(j.todo[1])
  BY <1>2, <1>3, <1>4, WrittenOut DEF Applying, Restoring
<1>6. ~Has(t, {"claimPaid"})
  BY <1>3, OfHas DEF Good, Applying, Restoring
<1>7. j.todo[1] # "deduct" => status[j.order] # "none"
  BY <1>2, <1>4
<1> QED
  BY <1>2, <1>4, <1>5, <1>6, <1>7, CallStep DEF Track

\* What is left of /payments/verify once the gateway has answered.
LEMMA FetchStep ==
    ASSUME LifecycleConstants, IInv, NEW w \in Workers, Fetch(w)
    PROVE  IInv'
<1>0. PICK o : o = job[w].order
  OBVIOUS
<1> DEFINE rec == << "recordPayment" >>
           j(v, t) == [job[w] EXCEPT !.verdict = v, !.todo = t]
<1>1. At(w, "fetch") /\ Ready(w) /\ Types /\ Inserted /\ Money
  BY DEF Fetch, IInv
<1>2. o \in Orders /\ status[o] # "none" /\ o \in committed
  BY <1>0, <1>1, AtHead DEF Inserted
<1>3. /\ job[w] \in Jobs /\ ~At(w, "restock") /\ ~At(w, "insertOrder")
      /\ job[w].event # None => events[job[w].event] # "none"
  BY <1>1, AtHead DEF Ready
<1>4. UNCHANGED << orderVars, stockVars, ledger, shipment, eventVars, world >>
  BY DEF Fetch
<1>5. Gentle
  BY <1>4 DEF Gentle, orderVars, stockVars, eventVars, world, Captured
<1>6. ASSUME NEW v \in {"PAID", "PENDING", "FAILED"}, NEW t, NEW R, Good(t, R),
             t[1] = "recordPayment", R \subseteq {"recordPayment"} \cup Paying \cup Failing,
             "failPayment" \in R => v = "FAILED", "claimPaid" \in R => Captured(o),
             GoOn(w, j(v, t))
      PROVE  /\ \A x \in Workers : Ready(x)'
             /\ Balance' /\ job' \in [Workers -> Jobs]
  <2>1. t \in Seq(Statements) /\ t # << >> /\ Of(t, R)
    BY <1>6 DEF Good
  <2>2. PICK i : i = j(v, t)
    OBVIOUS
  <2>3. /\ i \in Jobs /\ i.todo = t /\ i.order = o /\ i.event = job[w].event /\ i.verdict = v
    BY <1>0, <1>3, <2>1, <2>2 DEF Jobs, Verdicts, PaymentStatuses
  <2>4. job' = [job EXCEPT ![w] = i]
    BY <1>6, <2>1, <2>2, <2>3 DEF GoOn
  <2>5. R \cap {"openPayment", "insertAttempt", "moveShipment", "moveShipping", "follow",
                "setIfSame", "finish", "voidOrder"} = {}
    BY <1>6 DEF Paying, Failing, Restoring
  <2>6. WellFormed(i) /\ i.todo # << >> /\ Opens(i.todo[1])
    BY <1>2, <1>6, <2>3, <2>5, WrittenOut
  <2>7. Has(t, {"claimPaid"}) => Captured(o)'
    <3>1. Has(t, {"claimPaid"}) => "claimPaid" \in R
      BY <2>1 DEF Has, Of
    <3>2. Captured(o) => Captured(o)'
      BY <1>4 DEF Captured, world
    <3> QED
      BY <1>6, <3>1, <3>2
  <2>8. status'[o] # "none" /\ events' = events
    BY <1>2, <1>4 DEF orderVars, eventVars
  <2>9. i.todo[1] # "deduct" => status'[i.order] # "none"
    BY <2>3, <2>8
  <2>10. i.event # None => events'[i.event] # "none"
    BY <1>3, <2>3, <2>8
  <2>11. Has(i.todo, {"claimPaid"}) => \A p \in Orders : p = i.order => Captured(p)'
    BY <2>3, <2>7
  <2> QED
    BY <1>3, <1>5, <2>4, <2>6, <2>9, <2>10, <2>11, StartPlain
<1>7. /\ \A x \in Workers : Ready(x)'
      /\ Balance' /\ job' \in [Workers -> Jobs]
  <2> DEFINE outcome == gateway[o][job[w].attempt]
  <2>1. \/ "captured" \in outcome /\ GoOn(w, j("PAID", rec \o Pay))
        \/ GoOn(w, j("PENDING", rec \o << >>))
        \/ GoOn(w, j("FAILED", rec \o Fail))
        \/ GoOn(w, NoJob)
    BY <1>0 DEF Fetch
  <2>2. Good(rec, {"recordPayment"}) /\ Good(Pay, Paying) /\ Good(Fail, Failing)
    BY SmallLists, Lists
  <2> HIDE DEF Pay, Fail
  <2>3. CASE "captured" \in outcome /\ GoOn(w, j("PAID", rec \o Pay))
    <3>1. Good(rec \o Pay, {"recordPayment"} \cup Paying) /\ (rec \o Pay)[1] = "recordPayment"
      BY <2>2, GoodJoined
    <3>2. Captured(o)
      BY <1>3, <2>3 DEF Captured, Jobs
    <3>3. "failPayment" \notin {"recordPayment"} \cup Paying
      BY DEF Paying
    <3> QED
      BY <1>6, <2>3, <3>1, <3>2, <3>3
  <2>4. CASE GoOn(w, j("PENDING", rec \o << >>))
    <3>1. rec \o << >> = rec /\ rec[1] = "recordPayment"
      OBVIOUS
    <3>2. GoOn(w, j("PENDING", rec))
      BY <2>4, <3>1
    <3> QED
      BY <1>6, <2>2, <3>1, <3>2
  <2>5. CASE GoOn(w, j("FAILED", rec \o Fail))
    <3>1. Good(rec \o Fail, {"recordPayment"} \cup Failing) /\ (rec \o Fail)[1] = "recordPayment"
      BY <2>2, GoodJoined
    <3>2. "claimPaid" \notin {"recordPayment"} \cup Failing
      BY DEF Failing, Restoring
    <3> QED
      BY <1>6, <2>5, <3>1, <3>2
  <2>6. CASE GoOn(w, NoJob)
    <3>1. job' = [job EXCEPT ![w] = NoJob]
      BY <2>6 DEF GoOn
    <3> QED
      BY <1>3, <1>5, <3>1, EndPlain
  <2> QED
    BY <2>1, <2>3, <2>4, <2>5, <2>6
<1>8. Types'
  BY <1>1, <1>4, <1>7 DEF Types, orderVars, stockVars, eventVars, world
<1>9. Inserted'
  BY <1>1, <1>4 DEF Inserted, orderVars, stockVars, eventVars, world
<1>10. Money'
  BY <1>1, <1>4 DEF Money, orderVars, eventVars, world, Captured
<1> QED
  BY <1>7, <1>8, <1>9, <1>10 DEF IInv

LEMMA PaymentWebhookStep ==
    ASSUME LifecycleConstants, IInv, NEW w \in Workers, NEW o \in Orders, NEW k \in Attempts,
           NEW about \in {"captured", "failed"}, PaymentWebhook(w, o, k, about)
    PROVE  IInv' /\ Begins(w)
<1> DEFINE rec == << "recordPayment" >>
           end == << "finish" >>
           verdict == IF about = "captured" THEN "PAID" ELSE "FAILED"
<1>1. Types /\ Inserted /\ Money
  BY DEF IInv
<1>2. PICK e : e = [order |-> o, about |-> about, attempt |-> k]
  OBVIOUS
<1>3. PICK body : body = IF about = "captured" THEN Pay ELSE Fail
  OBVIOUS
<1>4. PICK t : t = (rec \o body) \o end
  OBVIOUS
<1>5. PICK j : j = [Job(o, t) EXCEPT !.attempt = k, !.event = e, !.verdict = verdict]
  OBVIOUS
<1>6. about \in gateway[o][k] /\ ClaimEvent(e) /\ Run(w, about, j)
  BY <1>2, <1>3, <1>4, <1>5 DEF PaymentWebhook
<1>7. UNCHANGED << orderVars, stockVars, ledger, shipment, tries, world >>
  BY DEF PaymentWebhook
<1>8. Method[o] = "online" /\ status[o] # "none"
  <2>1. gateway[o][k] # {}
    BY <1>6
  <2> QED
    BY <1>1, <2>1 DEF Money, Inserted
<1>9. e \in Event /\ e.order = o /\ e.about = about
  BY <1>2, <1>8 DEF Event
<1>10. PICK B : /\ Good(body, B) /\ B \subseteq Paying \cup Failing
                /\ "failPayment" \in B => about = "failed"
                /\ "claimPaid" \in B => about = "captured"
  <2>1. Good(Pay, Paying) /\ Good(Fail, Failing)
    BY Lists
  <2>2. CASE about = "captured"
    BY <1>3, <2>1, <2>2 DEF Paying
  <2>3. CASE about = "failed"
    BY <1>3, <2>1, <2>3 DEF Failing, Restoring
  <2> QED
    BY <2>2, <2>3
<1> DEFINE R == ({"recordPayment"} \cup B) \cup {"finish"}
<1>11. Good(t, R) /\ t[1] = "recordPayment"
  <2>1. Good(rec, {"recordPayment"}) /\ Good(end, {"finish"}) /\ rec[1] = "recordPayment"
    BY SmallLists
  <2>2. Good(rec \o body, {"recordPayment"} \cup B) /\ (rec \o body)[1] = "recordPayment"
    BY <1>10, <2>1, GoodJoined
  <2> QED
    BY <1>4, <2>1, <2>2, GoodJoined
<1>12. verdict \in {"PAID", "FAILED"} /\ verdict \in Verdicts
  BY DEF Verdicts, PaymentStatuses
<1>13. /\ j \in Jobs /\ j.todo = t /\ j.order = o /\ j.event = e /\ j.verdict = verdict
  BY <1>5, <1>9, <1>11, <1>12, NoJobWellFormed DEF Job, NoJob, Jobs, Good, WellFormed
<1>14. /\ R \cap {"openPayment", "insertAttempt", "moveShipment", "moveShipping", "follow",
                "setIfSame", "voidOrder"} = {}
       /\ "failPayment" \in R => about = "failed"
       /\ "claimPaid" \in R => about = "captured"
  BY <1>10 DEF Paying, Failing, Restoring
<1>15. WellFormed(j) /\ j.todo # << >> /\ Opens(j.todo[1])
  BY <1>9, <1>11, <1>12, <1>13, <1>14, WrittenOut
<1>16. about = "captured" => Captured(o)
  BY <1>6 DEF Captured
<1>17. Has(j.todo, {"claimPaid"}) => Captured(j.order)
  <2>1. Has(t, {"claimPaid"}) => "claimPaid" \in R
    BY <1>11 DEF Has, Of, Good
  <2> QED
    BY <1>13, <1>14, <1>16, <2>1
<1>18. /\ events' \in [Event -> {"none", "RECEIVED", "PROCESSED", "FAILED", "IGNORED"}]
       /\ \A x \in Event : x # e => events'[x] = events[x]
       /\ events[e] = "none" /\ events'[e] = "RECEIVED"
  BY <1>1, <1>6, <1>9 DEF ClaimEvent, Types
<1>19. Idle(w) /\ job' = [job EXCEPT ![w] = j]
  BY <1>6 DEF Run
<1>20. \A x \in Event : events[x] # "none" => events'[x] # "none"
  BY <1>18
<1>21. \A x \in Event : events'[x] # "none" => \/ events[x] # "none"
                                                \/ /\ status[x.order] # "none"
                                                   /\ x.about = "captured" => Captured(x.order)
  BY <1>8, <1>9, <1>16, <1>18
<1>22. status[j.order] # "none" /\ events'[j.event] # "none"
  BY <1>8, <1>13, <1>18
<1> HIDE DEF R, verdict
<1> QED
  BY <1>7, <1>15, <1>17, <1>18, <1>19, <1>20, <1>21, <1>22, StartStep

LEMMA ScanWebhookStep ==
    ASSUME LifecycleConstants, IInv, NEW w \in Workers, NEW o \in Orders, NEW scan \in Scans,
           ScanWebhook(w, o, scan)
    PROVE  IInv' /\ Begins(w)
<1>1. Types /\ Inserted /\ Money
  BY DEF IInv
<1>2. PICK e : e = [order |-> o, about |-> scan, attempt |-> 0]
  OBVIOUS
<1>3. PICK t : t = Apply(scan) \o << "finish" >>
  OBVIOUS
<1>4. PICK j : j = [Job(o, t) EXCEPT !.event = e, !.verdict = scan]
  OBVIOUS
<1>5. scan \in Range(scanned[o]) /\ ClaimEvent(e) /\ Run(w, "scan", j)
  BY <1>2, <1>3, <1>4 DEF ScanWebhook
<1>6. UNCHANGED << orderVars, stockVars, ledger, shipment, tries, world >>
  BY DEF ScanWebhook
<1>7. status[o] # "none"
  <2>1. Range(<< >>) = {}
    BY DEF Range
  <2>2. scanned[o] # << >>
    BY <1>5, <2>1
  <2> QED
    BY <1>1, <2>2 DEF Inserted
<1>8. e \in Event /\ e.order = o /\ e.about # "captured"
  BY <1>2 DEF Event, Scans, SHIPPING_TO_ORDER_STATUS
<1> DEFINE R == Applying \cup {"finish"}
<1>9. Good(t, R)
  BY <1>3, ApplyList, SmallLists, GoodJoined
<1>10. /\ j \in Jobs /\ j.todo = t /\ j.order = o /\ j.event = e /\ j.verdict = scan
  BY <1>4, <1>8, <1>9, NoJobWellFormed DEF Job, NoJob, Jobs, Good, WellFormed, Verdicts
<1>11. R \cap {"openPayment", "insertAttempt", "recordPayment", "failPayment",
                "setIfSame", "claimPaid", "voidOrder"} = {}
  BY DEF Applying, Restoring
<1>12. WellFormed(j) /\ j.todo # << >> /\ Opens(j.todo[1])
  BY <1>8, <1>9, <1>10, <1>11, WrittenOut
<1>13. ~Has(j.todo, {"claimPaid"})
  BY <1>9, <1>10, <1>11 DEF Has, Of, Good
<1>14. /\ events' \in [Event -> {"none", "RECEIVED", "PROCESSED", "FAILED", "IGNORED"}]
       /\ \A x \in Event : x # e => events'[x] = events[x]
       /\ events[e] = "none" /\ events'[e] = "RECEIVED"
  BY <1>1, <1>5, <1>8 DEF ClaimEvent, Types
<1>15. Idle(w) /\ job' = [job EXCEPT ![w] = j]
  BY <1>5 DEF Run
<1>16. \A x \in Event : events[x] # "none" => events'[x] # "none"
  BY <1>14
<1>17. \A x \in Event : events'[x] # "none" => \/ events[x] # "none"
                                                \/ /\ status[x.order] # "none"
                                                   /\ x.about = "captured" => Captured(x.order)
  BY <1>7, <1>8, <1>14
<1>18. status[j.order] # "none" /\ events'[j.event] # "none"
  BY <1>7, <1>10, <1>14
<1> HIDE DEF R
<1> QED
  BY <1>6, <1>12, <1>13, <1>14, <1>15, <1>16, <1>17, <1>18, StartStep

\* No handler moves.
LEMMA NobodyMoves ==
    ASSUME LifecycleConstants, IInv, UNCHANGED job, Gentle
    PROVE  /\ \A v \in Workers : Ready(v)'
           /\ Balance' /\ job' \in [Workers -> Jobs]
<1>1. Types /\ Balance /\ \A v \in Workers : Ready(v)
  BY DEF IInv
<1>2. Monotone /\ \A v : Calm(v)
  BY GentleIsCalm
<1>3. \A v \in Workers : Ready(v)'
  BY <1>1, <1>2, OthersReady
<1>4. InTransit' = InTransit
  BY DEF InTransit, At
<1>5. UnitsAccountedFor' = UnitsAccountedFor
  BY <1>4 DEF UnitsAccountedFor, Gentle
<1> QED
  BY <1>1, <1>3, <1>5 DEF Types, Balance, NothingSoldTwice, StockBalance

LEMMA ReplayStep ==
    ASSUME LifecycleConstants, IInv, NEW w \in Workers, NEW e \in Event, Replay(w, e)
    PROVE  IInv' /\ Begins(w)
<1>1. Types /\ Inserted /\ Money
  BY DEF IInv
<1>2. /\ UNCHANGED << orderVars, stockVars, ledger, shipment, world >>
      /\ events[e] \in {"RECEIVED", "FAILED"}
  BY DEF Replay, Stuck
<1>3. /\ e.order \in Orders /\ status[e.order] # "none"
      /\ e.about \in Scans \cup {"captured", "failed"}
      /\ e.about = "captured" => Captured(e.order)
  BY <1>1, <1>2 DEF Inserted, Money, Event
<1>4. CASE e.about = "failed"
  <2>1. /\ UNCHANGED job
        /\ events' = [events EXCEPT ![e] = "IGNORED"] /\ tries' = Counted(e)
    BY <1>4 DEF Replay
  <2>2. /\ events' \in [Event -> {"none", "RECEIVED", "PROCESSED", "FAILED", "IGNORED"}]
        /\ tries' \in [Event -> 0 .. ReplayLimit]
        /\ \A x \in Event : events[x] # "none" <=> events'[x] # "none"
    BY <1>1, <1>2, <2>1 DEF Types, Counted, LifecycleConstants
  <2>3. Gentle
    BY <1>2, <2>2 DEF Gentle, orderVars, stockVars, world, Captured
  <2>4. /\ \A v \in Workers : Ready(v)'
        /\ Balance' /\ job' \in [Workers -> Jobs]
    BY <2>1, <2>3, NobodyMoves
  <2>5. Types'
    BY <1>1, <1>2, <2>2, <2>4 DEF Types, orderVars, stockVars, world
  <2>6. Inserted'
    BY <1>1, <1>2, <2>2 DEF Inserted, orderVars, stockVars, world
  <2>7. Money'
    BY <1>1, <1>2, <2>2 DEF Money, orderVars, world, Captured
  <2> QED
    BY <2>1, <2>4, <2>5, <2>6, <2>7 DEF IInv, Begins
<1>5. CASE e.about # "failed"
  <2>1. PICK body : body = IF e.about = "captured" THEN Pay ELSE Apply(e.about)
    OBVIOUS
  <2>2. PICK t : t = body \o << "finish" >>
    OBVIOUS
  <2>3. PICK j : j = [Job(e.order, t) EXCEPT !.event = e, !.verdict = e.about]
    OBVIOUS
  <2>4. Run(w, "replay", j) /\ UNCHANGED eventVars
    BY <1>5, <2>1, <2>2, <2>3 DEF Replay
  <2>5. PICK B : /\ Good(body, B) /\ B \subseteq Paying \cup Applying
                 /\ B \cap {"moveShipment", "moveShipping", "follow"} # {} => e.about \in Scans
                 /\ "claimPaid" \in B => e.about = "captured"
    <3>1. Good(Pay, Paying) /\ Good(Apply(e.about), Applying)
      BY Lists, ApplyList
    <3>2. CASE e.about = "captured"
      BY <2>1, <3>1, <3>2 DEF Paying
    <3>3. CASE e.about # "captured"
      BY <1>3, <1>5, <2>1, <3>1, <3>3 DEF Applying, Restoring
    <3> QED
      BY <3>2, <3>3
  <2> DEFINE R == B \cup {"finish"}
  <2>6. Good(t, R)
    BY <2>2, <2>5, SmallLists, GoodJoined
  <2>7. /\ j \in Jobs /\ j.todo = t /\ j.order = e.order /\ j.event = e /\ j.verdict = e.about
    BY <1>3, <1>5, <2>3, <2>6, NoJobWellFormed DEF Job, NoJob, Jobs, Good, WellFormed, Verdicts
  <2>8. /\ R \cap {"openPayment", "insertAttempt", "recordPayment", "failPayment",
                   "setIfSame", "voidOrder", "deduct"} = {}
        /\ R \cap {"moveShipment", "moveShipping", "follow"} # {} => e.about \in Scans
        /\ "claimPaid" \in R => e.about = "captured"
    BY <2>5 DEF Paying, Applying, Restoring
  <2>9. WellFormed(j) /\ j.todo # << >> /\ Opens(j.todo[1])
    BY <1>3, <2>6, <2>7, <2>8, WrittenOut
  <2>10. Has(j.todo, {"claimPaid"}) => Captured(j.order)
    <3>1. Has(t, {"claimPaid"}) => "claimPaid" \in R
      BY <2>6 DEF Has, Of, Good
    <3> QED
      BY <1>3, <2>7, <2>8, <3>1
  <2>11. Idle(w) /\ job' = [job EXCEPT ![w] = j]
    BY <2>4 DEF Run
  <2>12. UNCHANGED << events, tries >>
    BY <2>4 DEF eventVars
  <2>13. events' \in [Event -> {"none", "RECEIVED", "PROCESSED", "FAILED", "IGNORED"}]
    BY <1>1, <2>12 DEF Types
  <2> HIDE DEF R
  <2> QED
    BY <1>2, <1>3, <2>7, <2>9, <2>10, <2>11, <2>12, <2>13, StartStep
<1> QED
  BY <1>4, <1>5

\* The status an order may be moved to by hand.
LEMMA ToStatus ==
    ASSUME NEW from, NEW to \in OrderStatuses, isValidStatusTransition(from, to)
    PROVE  to # "PENDING_PAYMENT"
<1>1. SUFFICES ASSUME to = "PENDING_PAYMENT"  PROVE FALSE
  OBVIOUS
<1>2. canonicalOrderStatus(to) = "PENDING_PAYMENT"
  BY <1>1 DEF canonicalOrderStatus
<1>3. PICK i \in 1 .. Len(ORDER_STATUS_SEQUENCE) - 1 : ORDER_STATUS_SEQUENCE[i + 1] = "PENDING_PAYMENT"
  BY <1>2 DEF isValidStatusTransition
<1>4. i \in 1 .. 6
  BY <1>3 DEF ORDER_STATUS_SEQUENCE
<1> QED
  BY <1>3, <1>4 DEF ORDER_STATUS_SEQUENCE

LEMMA SetThenRestore ==
    LET t == << "setIfSame" >> \o ReturnStock IN
    /\ Good(t, {"setIfSame"} \cup Restoring) /\ t[1] = "setIfSame"
    /\ Before(t, "setIfSame", "claimRestore")
<1> DEFINE t == << "setIfSame" >> \o ReturnStock
<1>1. t = << "setIfSame", "claimRestore", "restock" >>
  <2>1. {"setIfSame", "claimRestore", "restock"} \subseteq Statements
    BY DEF Statements
  <2> QED
    BY <2>1, Triple DEF ReturnStock
<1>2. Good(<< "setIfSame" >>, {"setIfSame"}) /\ Good(ReturnStock, Restoring)
  BY SmallLists, Lists
<1>3. Good(t, {"setIfSame"} \cup Restoring)
  BY <1>2, GoodJoined
<1> HIDE DEF t
<1>4. t[1] = "setIfSame" /\ Before(t, "setIfSame", "claimRestore")
  BY <1>1 DEF Before
<1> QED
  BY <1>3, <1>4 DEF t

LEMMA CancelOrderStep ==
    ASSUME LifecycleConstants, IInv, NEW w \in Workers, NEW o \in Orders, CancelOrder(w, o)
    PROVE  IInv' /\ Begins(w)
<1>1. Types /\ Inserted
  BY DEF IInv
<1>2. PICK s : s = << "setIfSame" >> \o ReturnStock
  OBVIOUS
<1>3. PICK r : r = s \o << "refundIfPaid" >>
  OBVIOUS
<1>4. PICK t : t = r \o Recall
  OBVIOUS
<1>5. PICK paid \in BOOLEAN : paid = (paymentStatus[o] = "PAID" /\ o \in collected)
  OBVIOUS
<1>6. PICK j : j = [Job(o, t) EXCEPT !.verdict = "CANCELLED", !.seen = status[o], !.flag = paid]
  OBVIOUS
<1>7. Run(w, "cancelOrder", j)
  BY <1>2, <1>3, <1>4, <1>5, <1>6 DEF CancelOrder
<1>8. /\ UNCHANGED << orderVars, stockVars, ledger, shipment, eventVars, world >>
      /\ status[o] \in OrderStatuses /\ status[o] # "none"
  BY <1>1 DEF CancelOrder, CANCELLABLE, OrderStatuses
<1>9. /\ Good(s, {"setIfSame"} \cup Restoring) /\ s[1] = "setIfSame"
      /\ Before(s, "setIfSame", "claimRestore")
  BY <1>2, SetThenRestore
<1>10. Good(<< "refundIfPaid" >>, {"refundIfPaid"}) /\ Good(Recall, Recalling)
  BY SmallLists, Lists
<1>11. Good(r, ({"setIfSame"} \cup Restoring) \cup {"refundIfPaid"}) /\ r[1] = s[1]
  BY <1>3, <1>9, <1>10, GoodJoined
<1> DEFINE R == (({"setIfSame"} \cup Restoring) \cup {"refundIfPaid"}) \cup Recalling
<1>12. Good(t, R) /\ t[1] = r[1]
  BY <1>4, <1>10, <1>11, GoodJoined
<1>13. Before(t, "setIfSame", "claimRestore")
  <2>1. Before(<< "refundIfPaid" >>, "setIfSame", "claimRestore")
    BY DEF Before
  <2>2. Before(Recall, "setIfSame", "claimRestore")
    BY DEF Before, Recall
  <2>3. /\ s \in Seq(Statements) /\ << "refundIfPaid" >> \in Seq(Statements)
        /\ r \in Seq(Statements) /\ Recall \in Seq(Statements)
    BY <1>9, <1>10, <1>11 DEF Good
  <2>4. Before(r, "setIfSame", "claimRestore")
    BY <1>3, <1>9, <2>1, <2>3, JoinedBefore
  <2> QED
    BY <1>4, <2>2, <2>3, <2>4, JoinedBefore
<1>14. /\ j \in Jobs /\ j.todo = t /\ j.order = o /\ j.event = None /\ j.verdict = "CANCELLED"
  BY <1>6, <1>8, <1>12, NoJobWellFormed
  DEF Job, NoJob, Jobs, Good, WellFormed, Verdicts, OrderStatuses
<1>15. R \cap {"openPayment", "insertAttempt", "recordPayment", "failPayment", "moveShipment",
               "moveShipping", "follow", "finish", "voidOrder", "claimPaid"} = {}
  BY DEF Restoring, Recalling
<1>16. "CANCELLED" \in OrderStatuses \ {"PENDING_PAYMENT"}
  BY DEF OrderStatuses
<1>17. WellFormed(j) /\ j.todo # << >> /\ Opens(j.todo[1])
  BY <1>12, <1>13, <1>14, <1>15, <1>16, WrittenOut
<1>18. ~Has(j.todo, {"claimPaid"})
  BY <1>12, <1>14, <1>15, OfHas DEF Good
<1> HIDE DEF R
<1> QED
  BY <1>7, <1>8, <1>14, <1>17, <1>18, CallStep

LEMMA SetStatusStep ==
    ASSUME LifecycleConstants, IInv, NEW w \in Workers, NEW o \in Orders,
           NEW to \in OrderStatuses, SetStatus(w, o, to)
    PROVE  IInv' /\ Begins(w)
<1>1. Types /\ Inserted
  BY DEF IInv
<1>2. PICK s : s = << "setIfSame" >> \o (IF to \in CLOSED THEN ReturnStock ELSE << >>)
  OBVIOUS
<1>3. PICK t : t = s \o (IF to = "CANCELLED" THEN Recall ELSE << >>)
  OBVIOUS
<1>4. PICK j : j = [Job(o, t) EXCEPT !.verdict = to, !.seen = status[o]]
  OBVIOUS
<1>5. Run(w, "setStatus", j)
  BY <1>2, <1>3, <1>4 DEF SetStatus
<1>6. /\ UNCHANGED << orderVars, stockVars, ledger, shipment, eventVars, world >>
      /\ status[o] \in OrderStatuses /\ status[o] # "none"
      /\ to # "PENDING_PAYMENT"
  BY <1>1, ToStatus DEF SetStatus, Types
<1>7. /\ Good(s, {"setIfSame"} \cup Restoring) /\ s[1] = "setIfSame"
      /\ to \in CLOSED => Before(s, "setIfSame", "claimRestore")
  <2>1. CASE to \in CLOSED
    BY <1>2, <2>1, SetThenRestore
  <2>2. CASE to \notin CLOSED
    <3>1. s = << "setIfSame" >>
      BY <1>2, <2>2
    <3>2. Good(s, {"setIfSame"})
      BY <3>1, SmallLists
    <3> QED
      BY <2>2, <3>1, <3>2 DEF Good, Of
  <2> QED
    BY <2>1, <2>2
<1> DEFINE R == ({"setIfSame"} \cup Restoring) \cup Recalling
<1>8. /\ Good(t, R)
      /\ to \in CLOSED => Before(t, "setIfSame", "claimRestore")
  <2>1. CASE to = "CANCELLED"
    <3>1. t = s \o Recall /\ Good(Recall, Recalling)
      BY <1>3, <2>1, Lists
    <3>2. Good(t, R)
      BY <1>7, <3>1, GoodJoined
    <3>3. Before(Recall, "setIfSame", "claimRestore")
      BY DEF Before, Recall
    <3>4. s \in Seq(Statements) /\ Recall \in Seq(Statements)
      BY <1>7, <3>1 DEF Good
    <3>5. to \in CLOSED => Before(t, "setIfSame", "claimRestore")
      BY <1>7, <3>1, <3>3, <3>4, JoinedBefore
    <3> QED
      BY <3>2, <3>5
  <2>2. CASE to # "CANCELLED"
    <3>1. t = s
      BY <1>3, <1>7, <2>2 DEF Good
    <3> QED
      BY <1>7, <3>1 DEF Good, Of
  <2> QED
    BY <2>1, <2>2
<1>9. /\ j \in Jobs /\ j.todo = t /\ j.order = o /\ j.event = None /\ j.verdict = to
  BY <1>4, <1>6, <1>8, NoJobWellFormed DEF Job, NoJob, Jobs, Good, WellFormed, Verdicts
<1>10. R \cap {"openPayment", "insertAttempt", "recordPayment", "failPayment", "moveShipment",
               "moveShipping", "follow", "finish", "voidOrder", "claimPaid"} = {}
  BY DEF Restoring, Recalling
<1>11. to \in GivesUp => to \in CLOSED
  BY DEF GivesUp, CLOSED
<1>12. WellFormed(j) /\ j.todo # << >> /\ Opens(j.todo[1])
  BY <1>6, <1>8, <1>9, <1>10, <1>11, WrittenOut
<1>13. ~Has(j.todo, {"claimPaid"})
  BY <1>8, <1>9, <1>10, OfHas DEF Good
<1> HIDE DEF R
<1> QED
  BY <1>5, <1>6, <1>9, <1>12, <1>13, CallStep

-----------------------------------------------------------------------------
(* Failures, the gateway and the courier.                                  *)

\* No unit enters the hands of a worker.
LEMMA NobodyTakes ==
    ASSUME LifecycleConstants, Types, InTransit' \subseteq InTransit,
           UNCHANGED << committed, restored, shelf >>
    PROVE  UnitsAccountedFor' <= UnitsAccountedFor
<1>1. IsFiniteSet(InTransit) /\ Cardinality(InTransit) \in Nat
  BY Finite
<1>2. Cardinality(InTransit') <= Cardinality(InTransit) /\ IsFiniteSet(InTransit')
  BY <1>1, FS_Subset
<1>3. Cardinality(InTransit') \in Nat
  BY <1>2, FS_CardinalityType
<1>4. Cardinality(committed \ restored) \in Nat /\ shelf \in Nat
  BY Finite DEF Types
<1> QED
  BY <1>1, <1>2, <1>3, <1>4 DEF UnitsAccountedFor

LEMMA StatementFailsStep ==
    ASSUME LifecycleConstants, IInv, NEW w \in Workers, StatementFails(w)
    PROVE  IInv'
<1>1. /\ Types /\ Inserted /\ Money /\ Balance /\ Ready(w)
      /\ \A v \in Workers : Ready(v)
  BY DEF IInv
<1>2. PICK o : o = job[w].order
  OBVIOUS
<1>3. PICK e : e = job[w].event
  OBVIOUS
<1>4. /\ MayFail /\ ~Idle(w) /\ GoOn(w, AfterThrow(w))
      /\ stockLock' = IF stockLock = w THEN None ELSE stockLock
      /\ events' = IF e = None THEN events ELSE [events EXCEPT ![e] = "FAILED"]
      /\ tries' = IF e = None THEN tries ELSE Counted(e)
      /\ UNCHANGED << status, paymentStatus, shippingStatus, collected, refunded, committed,
                      restored, shelf, held, ledger, shipment, gateway, scanned >>
  BY <1>3 DEF StatementFails, orderVars, world
<1>5. /\ job[w].todo # << >> /\ job \in [Workers -> Jobs] /\ job[w] \in Jobs
      /\ WellFormed(job[w]) /\ o \in Orders /\ e \in Event \cup {None}
      /\ e # None => events[e] # "none"
  BY <1>1, <1>2, <1>3, <1>4 DEF Ready, Types, WellFormed, Equipped, Jobs
<1>6. /\ events' \in [Event -> {"none", "RECEIVED", "PROCESSED", "FAILED", "IGNORED"}]
      /\ tries' \in [Event -> 0 .. ReplayLimit]
      /\ \A x \in Event : events[x] # "none" <=> events'[x] # "none"
  BY <1>1, <1>4, <1>5 DEF Types, Counted, LifecycleConstants
<1>7. Monotone /\ \A v \in Workers \ {w} : Calm(v)
  BY <1>4, <1>6 DEF Monotone, Calm, Captured
<1>8. /\ Ready(w)' /\ job' \in [Workers -> Jobs]
      /\ \A v \in Workers \ {w} : job'[v] = job[v]
      /\ ~At(w, "restock")' /\ ~At(w, "insertOrder")'
  <2>1. CASE At(w, "refundIfPaid")
    <3>1. /\ job[w].todo[1] = "refundIfPaid" /\ ~At(w, "deduct") /\ ~At(w, "insertOrder")
      BY <1>1, <2>1, AtHead
    <3>2. Rest(Next1(w), job[w], 1)
      BY <1>5, NextRest
    <3>3. GoOn(w, Next1(w))
      BY <1>4, <2>1 DEF AfterThrow
    <3> QED
      BY <1>1, <1>5, <1>7, <3>1, <3>2, <3>3, WentOnReady
  <2>2. CASE ~At(w, "refundIfPaid")
    <3>1. PICK t : t = IF "voidOrder" \in Range(Tail(job[w].todo)) THEN << "voidOrder" >> ELSE << >>
      OBVIOUS
    <3>2. PICK j : j = [job[w] EXCEPT !.todo = t]
      OBVIOUS
    <3>3. GoOn(w, j)
      BY <1>4, <2>2, <3>1, <3>2 DEF AfterThrow
    <3>4. CASE "voidOrder" \notin Range(Tail(job[w].todo))
      <4>1. j.todo = << >>
        BY <1>5, <3>1, <3>2, <3>4 DEF Jobs
      <4>2. job' = [job EXCEPT ![w] = NoJob]
        BY <3>3, <4>1 DEF GoOn
      <4>3. WellFormed(NoJob) /\ NoJob.todo = << >> /\ NoJob.event = None /\ NoJob \in Jobs
        BY NoJobWellFormed DEF WellFormed
      <4>4. job' \in [Workers -> Jobs] /\ job'[w] = NoJob /\ \A v \in Workers \ {w} : job'[v] = job[v]
        BY <1>5, <4>2, <4>3
      <4>5. \A x : ~At(w, x)'
        BY <4>3, <4>4 DEF At
      <4>6. ~Has(NoJob.todo, {"claimPaid"})
        BY <4>3 DEF Has
      <4>7. Ready(w)'
        BY <4>3, <4>4, <4>5, <4>6 DEF Ready, Idle
      <4> QED
        BY <4>4, <4>5, <4>7
    <3>5. CASE "voidOrder" \in Range(Tail(job[w].todo))
      <4>1. t = << "voidOrder" >> /\ t \in Seq(Statements) /\ t # << >>
        BY <3>1, <3>5 DEF Statements
      <4>2. j \in Jobs /\ j.todo = t /\ j.order = o /\ j.event = e
        BY <1>2, <1>3, <1>5, <3>2, <4>1 DEF Jobs
      <4>3. job' = [job EXCEPT ![w] = j]
        BY <3>3, <4>1, <4>2 DEF GoOn
      <4>4. job' \in [Workers -> Jobs] /\ job'[w] = j /\ \A v \in Workers \ {w} : job'[v] = job[v]
        BY <1>5, <4>2, <4>3
      <4>5. InOrder(<< "voidOrder" >>) /\ Before(<< "voidOrder" >>, "setIfSame", "claimRestore")
        BY DEF InOrder, After, Before
      <4>6. \A S : "voidOrder" \notin S => ~Has(<< "voidOrder" >>, S)
        BY DEF Has
      <4>7. WellFormed(j)
        BY <1>5, <4>1, <4>2, <4>5, <4>6 DEF WellFormed, Equipped
      <4>8. \A x : At(w, x)' <=> x = "voidOrder"
        BY <4>1, <4>2, <4>4 DEF At
      <4>9. status[o] # "none"
        <5>1. Tail(job[w].todo) \in Seq(Statements) /\ job[w].todo \in Seq(Statements)
          <6>1. job[w].todo \in Seq(Statements)
            BY <1>5 DEF Jobs
          <6>2. \A r \in Seq(Statements) : r # << >> => Tail(r) \in Seq(Statements)
            OBVIOUS
          <6> QED
            BY <1>5, <6>1, <6>2
        <5>2. PICK i \in 1 .. Len(Tail(job[w].todo)) : Tail(job[w].todo)[i] = "voidOrder"
          BY <3>5, <5>1 DEF Range
        <5>3. i + 1 \in 1 .. Len(job[w].todo) /\ job[w].todo[i + 1] = "voidOrder"
          BY <1>5, <5>1, <5>2
        <5>4. Has(job[w].todo, {"voidOrder"})
          BY <5>3 DEF Has
        <5>5. ~Has(job[w].todo, {"deduct", "insertOrder"})
          BY <1>5, <5>4 DEF WellFormed, Equipped
        <5>6. ~At(w, "deduct") /\ ~At(w, "insertOrder")
          <6>1. ASSUME NEW s \in {"deduct", "insertOrder"}, At(w, s)  PROVE FALSE
            <7>1. \A S : s \in S => Has(job[w].todo, S)
              BY <1>1, <6>1, AtHead
            <7> QED
              BY <5>5, <7>1
          <6> QED
            BY <6>1
        <5> QED
          BY <1>1, <1>2, <1>5, <5>6 DEF Ready
      <4>10. (job[w].todo # << >> /\ ~At(w, "deduct") /\ ~At(w, "insertOrder")
               => status[job[w].order] # "none")'
        BY <1>4, <4>2, <4>4, <4>9
      <4>11. (job[w].event # None => events[job[w].event] # "none")'
        BY <1>5, <1>6, <4>2, <4>4
      <4>12. ~Has(j.todo, {"claimPaid"}) /\ j.todo # << >>
        BY <4>1, <4>2, <4>6
      <4>13. Ready(w)'
        BY <4>4, <4>7, <4>8, <4>10, <4>11, <4>12 DEF Ready
      <4> QED
        BY <4>4, <4>8, <4>13
    <3> QED
      BY <3>4, <3>5
  <2> QED
    BY <2>1, <2>2
<1>9. \A v \in Workers : Ready(v)'
  BY <1>1, <1>7, <1>8, OthersReady
<1>10. Types'
  BY <1>1, <1>4, <1>6, <1>8 DEF Types
<1>11. Inserted'
  BY <1>1, <1>4, <1>6 DEF Inserted
<1>12. Money'
  BY <1>1, <1>4, <1>6 DEF Money, Captured
<1>13. Balance'
  <2>1. InTransit' \subseteq InTransit
    BY <1>8 DEF InTransit, At
  <2>2. UnitsAccountedFor' <= UnitsAccountedFor
    BY <1>1, <1>4, <2>1, NobodyTakes
  <2> QED
    BY <1>1, <1>4, <1>10, <2>2, Balanced
<1> QED
  BY <1>9, <1>10, <1>11, <1>12, <1>13 DEF IInv

LEMMA CrashStep ==
    ASSUME LifecycleConstants, IInv, Crash
    PROVE  IInv'
<1>1. Types /\ Inserted /\ Money /\ Balance
  BY DEF IInv
<1>2. /\ MayFail /\ job' = [w \in Workers |-> NoJob] /\ stockLock' = None
      /\ UNCHANGED << status, paymentStatus, shippingStatus, collected, refunded, committed,
                      restored, shelf, held, ledger, shipment, events, tries, gateway, scanned >>
  BY DEF Crash, orderVars, eventVars, world
<1>3. WellFormed(NoJob) /\ NoJob.todo = << >> /\ NoJob.event = None /\ NoJob \in Jobs
  BY NoJobWellFormed DEF WellFormed
<1>4. job' \in [Workers -> Jobs] /\ \A w \in Workers : job'[w] = NoJob
  BY <1>2, <1>3
<1>5. \A w \in Workers : \A x : ~At(w, x)'
  BY <1>3, <1>4 DEF At
<1>6. \A w \in Workers : Ready(w)'
  <2>1. ~Has(NoJob.todo, {"claimPaid"})
    BY <1>3 DEF Has
  <2> QED
    BY <1>3, <1>4, <1>5, <2>1 DEF Ready, Idle
<1>7. Types'
  BY <1>1, <1>2, <1>4 DEF Types
<1>8. Inserted' /\ Money'
  BY <1>1, <1>2 DEF Inserted, Money, Captured
<1>9. Balance'
  <2>1. InTransit' \subseteq InTransit
    BY <1>5 DEF InTransit
  <2>2. UnitsAccountedFor' <= UnitsAccountedFor
    BY <1>1, <1>2, <2>1, NobodyTakes
  <2> QED
    BY <1>1, <1>2, <1>7, <2>2, Balanced
<1> QED
  BY <1>6, <1>7, <1>8, <1>9 DEF IInv

LEMMA AdminRefundStep ==
    ASSUME LifecycleConstants, IInv, NEW o \in Orders, NEW extent \in {"part", "full"},
           AdminRefund(o, extent)
    PROVE  IInv'
<1>1. Types /\ Inserted /\ Money
  BY DEF IInv
<1>2. /\ o \in collected /\ Method[o] = "online"
      /\ refunded' = [refunded EXCEPT ![o] = extent]
      /\ UNCHANGED << status, shippingStatus, collected, committed, restored, shelf, held,
                      stockLock, ledger, shipment, events, tries, job, gateway, scanned >>
  BY DEF AdminRefund, Refundable, GiveBack, stockVars, eventVars, world
<1>3. PICK paid \in {"REFUNDED", "PARTIALLY_REFUNDED"} :
         paymentStatus' = [paymentStatus EXCEPT ![o] = paid]
  BY DEF AdminRefund, GiveBack
<1>4. Gentle
  BY <1>2 DEF Gentle, Captured
<1>5. /\ \A v \in Workers : Ready(v)'
      /\ Balance' /\ job' \in [Workers -> Jobs]
  BY <1>2, <1>4, NobodyMoves
<1>6. Types'
  BY <1>1, <1>2, <1>3, <1>5 DEF Types, PaymentStatuses
<1>7. Inserted'
  BY <1>1, <1>2, <1>3 DEF Inserted, Types
<1>8. Money'
  <2>1. \A p \in Orders : paymentStatus'[p] = paymentStatus[p] \/ p = o
    BY <1>1, <1>3 DEF Types
  <2>2. \A p \in Orders : Captured(p) => Captured(p)'
    BY <1>4 DEF Gentle
  <2> QED
    BY <1>1, <1>2, <2>1, <2>2, MoneyStays
<1> QED
  BY <1>5, <1>6, <1>7, <1>8 DEF IInv

LEMMA GatewayMovesStep ==
    ASSUME LifecycleConstants, IInv, NEW o \in Orders, NEW k \in Attempts, GatewayMoves(o, k)
    PROVE  IInv'
<1>1. Types /\ Inserted /\ Money
  BY DEF IInv
<1>2. /\ gateway[o][k] # {}
      /\ UNCHANGED << status, paymentStatus, shippingStatus, collected, refunded, committed,
                      restored, shelf, held, stockLock, ledger, shipment, events, tries, job,
                      scanned >>
  BY DEF GatewayMoves, orderVars, stockVars, eventVars
<1>3. PICK outcome \in {"failed", "captured"} :
         gateway' = [gateway EXCEPT ![o][k] = @ \cup {outcome}]
  BY DEF GatewayMoves
<1>4. gateway \in [Orders -> [Attempts -> SUBSET {"open", "failed", "captured"}]]
  BY <1>1 DEF Types
<1>5. gateway' \in [Orders -> [Attempts -> SUBSET {"open", "failed", "captured"}]]
  BY <1>3, <1>4
<1>6. \A p \in Orders : p # o => gateway'[p] = gateway[p]
  BY <1>3, <1>4
<1>7. \A i \in Attempts : i # k => gateway'[o][i] = gateway[o][i]
  BY <1>3, <1>4
<1>8. gateway[o][k] \subseteq gateway'[o][k]
  BY <1>3, <1>4
<1>9. \A p \in Orders, i \in Attempts :
         /\ gateway[p][i] \subseteq gateway'[p][i]
         /\ gateway'[p][i] = {} <=> gateway[p][i] = {}
  BY <1>2, <1>6, <1>7, <1>8
<1>10. \A p \in Orders : Captured(p) => Captured(p)'
  BY <1>9 DEF Captured
<1>11. Gentle
  <2>1. 0 \in Attempts
    BY DEF Attempts, LifecycleConstants
  <2> QED
    BY <1>2, <1>9, <1>10, <2>1 DEF Gentle
<1>12. /\ \A v \in Workers : Ready(v)'
       /\ Balance' /\ job' \in [Workers -> Jobs]
  BY <1>2, <1>11, NobodyMoves
<1>13. Types'
  BY <1>1, <1>2, <1>5, <1>12 DEF Types
<1>14. Inserted'
  BY <1>1, <1>2, <1>9 DEF Inserted
<1>15. Money'
  BY <1>1, <1>2, <1>9, <1>10, MoneyStays
<1> QED
  BY <1>12, <1>13, <1>14, <1>15 DEF IInv

LEMMA CourierMovesStep ==
    ASSUME LifecycleConstants, IInv, NEW o \in Orders, CourierMoves(o)
    PROVE  IInv'
<1>1. Types /\ Inserted /\ Money
  BY DEF IInv
<1>2. /\ scanned[o] # << >>
      /\ UNCHANGED << status, paymentStatus, shippingStatus, collected, refunded, committed,
                      restored, shelf, held, stockLock, ledger, shipment, events, tries, job,
                      gateway >>
  BY DEF CourierMoves, orderVars, stockVars, eventVars
<1>3. PICK scan \in NextScan(Last(scanned[o])) :
         scanned' = [scanned EXCEPT ![o] = Append(@, scan)]
  BY DEF CourierMoves
<1>4. scan \in ScanWords
  BY <1>3 DEF NextScan, ScanWords, Scans, SHIPPING_TO_ORDER_STATUS
<1>5. scanned \in [Orders -> Seq(ScanWords)]
  BY <1>1 DEF Types
<1>6. scanned' \in [Orders -> Seq(ScanWords)]
  <2>1. Append(scanned[o], scan) \in Seq(ScanWords)
    BY <1>4, <1>5
  <2> QED
    BY <1>3, <1>5, <2>1
<1>7. \A p \in Orders : p # o => scanned'[p] = scanned[p]
  BY <1>3, <1>5
<1>8. Gentle
  BY <1>2 DEF Gentle, Captured
<1>9. /\ \A v \in Workers : Ready(v)'
      /\ Balance' /\ job' \in [Workers -> Jobs]
  BY <1>2, <1>8, NobodyMoves
<1>10. Types'
  BY <1>1, <1>2, <1>6, <1>9 DEF Types
<1>11. Inserted'
  BY <1>1, <1>2, <1>7 DEF Inserted
<1>12. Money'
  BY <1>1, <1>2 DEF Money, Captured
<1> QED
  BY <1>9, <1>10, <1>11, <1>12 DEF IInv

-----------------------------------------------------------------------------
(* The invariant holds.                                                    *)

LEMMA InitIInv ==
    ASSUME LifecycleConstants, Init
    PROVE  IInv
<1>1. WellFormed(NoJob) /\ NoJob.todo = << >> /\ NoJob.event = None /\ NoJob \in Jobs
  BY NoJobWellFormed DEF WellFormed
<1>2. \A w \in Workers : job[w] = NoJob
  BY DEF Init
<1>3. \A w \in Workers : \A x : ~At(w, x)
  BY <1>1, <1>2 DEF At
<1>4. \A w \in Workers : Ready(w)
  <2>1. ~Has(NoJob.todo, {"claimPaid"})
    BY <1>1 DEF Has
  <2> QED
    BY <1>1, <1>2, <1>3, <2>1 DEF Ready, Idle
<1>5. Types
  BY <1>1 DEF Types, Init, LifecycleConstants
<1>6. Inserted
  BY DEF Inserted, Init, Event
<1>7. Money
  BY DEF Money, Init, Settled, Event
<1>8. Balance
  <2>1. InTransit = {} /\ committed \ restored = {}
    BY <1>3 DEF InTransit, Init
  <2>2. UnitsAccountedFor = Supply
    BY <2>1, FS_EmptySet DEF UnitsAccountedFor, Init, LifecycleConstants
  <2> QED
    BY <2>2 DEF Balance, NothingSoldTwice, StockBalance, LifecycleConstants
<1> QED
  BY <1>4, <1>5, <1>6, <1>7, <1>8 DEF IInv

LEMMA NextIInv ==
    ASSUME LifecycleConstants, IInv, [Next]_vars
    PROVE  IInv'
<1>1. ASSUME NEW w \in Workers, Step(w)  PROVE IInv'
  BY <1>1, DeductStep, InsertOrderStep, OpenPaymentStep, VoidOrderStep, FetchStep,
     RecordPaymentStep, InsertAttemptStep, ClaimPaidStep, CommitStockStep, ConfirmStep,
     FailPaymentStep, CancelUnpaidStep, ClaimRestoreStep, RestockStep, SetIfSameStep,
     RefundIfPaidStep, RecallShipmentStep, RecallOrderStep, OpenShipmentStep, AssignAwbStep,
     NoteAwbStep, MoveShipmentStep, MoveShippingStep, ReadStatusStep, FollowStep,
     CollectCashStep, SellReservedStep, FinishStep
  DEF Step
<1>2. ASSUME NEW w \in Workers, Sweep(w)  PROVE IInv'
  BY <1>2, GiveUpStep, ReplayStep DEF Sweep
<1>3. ASSUME NEW w \in Workers, NEW o \in Orders, Request(w, o)  PROVE IInv'
  BY <1>3, CheckoutStep, RetryStep, GiveUpStep, CancelOrderStep, BookStep, UnbookStep,
     TrackStep, VerifyStep, PaymentWebhookStep, ScanWebhookStep, SetStatusStep
  DEF Request
<1>4. CASE UNCHANGED vars
  <2>1. Gentle /\ UNCHANGED job
    BY <1>4 DEF vars, Gentle, Captured
  <2>2. /\ \A v \in Workers : Ready(v)'
        /\ Balance' /\ job' \in [Workers -> Jobs]
    BY <2>1, NobodyMoves
  <2>3. Types /\ Inserted /\ Money
    BY DEF IInv
  <2>4. Types'
    BY <1>4, <2>2, <2>3 DEF vars, Types
  <2>5. Inserted' /\ Money'
    BY <1>4, <2>3 DEF vars, Inserted, Money, Captured
  <2> QED
    BY <2>2, <2>4, <2>5 DEF IInv
<1> QED
  BY <1>1, <1>2, <1>3, <1>4, StatementFailsStep, CrashStep, AdminRefundStep, GatewayMovesStep,
     CourierMovesStep
  DEF Next

\* Whatever handlers run, in whatever order their statements interleave, with or
\* without failures and crashes.
THEOREM Invariance == Spec => []IInv
<1>1. Init => IInv
  BY InitIInv, LifecycleConstants
<1>2. IInv /\ [Next]_vars => IInv'
  BY NextIInv, LifecycleConstants
<1> QED
  BY <1>1, <1>2, PTL DEF Spec

\* Every variable keeps its type; in particular the shelf never holds more than
\* it was supplied with, and an order's stock is returned only once it was taken.
THEOREM TypeCorrect == Spec => []TypeOK
<1>1. IInv => TypeOK
  <2> SUFFICES ASSUME IInv  PROVE TypeOK
    OBVIOUS
  <2>1. Types /\ Balance
    BY DEF IInv
  <2>2. shelf \in 0 .. Supply
    <3>1. Cardinality(committed \ restored) \in Nat /\ Cardinality(InTransit) \in Nat
      BY <2>1, LifecycleConstants, Finite
    <3> QED
      BY <2>1, <3>1, LifecycleConstants
      DEF Types, Balance, NothingSoldTwice, StockBalance, UnitsAccountedFor, LifecycleConstants
  <2>3. ASSUME NEW w \in Workers
        PROVE  /\ job[w].order \in Orders \cup {None}
               /\ Range(job[w].todo) \subseteq Statements
               /\ job[w].event \in Event \cup {None}
    <3>1. job[w] \in Jobs
      BY <2>1 DEF Types
    <3>2. job[w].todo \in Seq(Statements)
      BY <3>1 DEF Jobs
    <3>3. \A r \in Seq(Statements) : Range(r) \subseteq Statements
      BY DEF Range
    <3> QED
      BY <3>1, <3>2, <3>3 DEF Jobs
  <2>4. ASSUME NEW o \in Orders  PROVE Range(scanned[o]) \subseteq Scans \cup {"AWB_ASSIGNED", "CANCELLED"}
    <3>1. scanned[o] \in Seq(ScanWords)
      BY <2>1 DEF Types
    <3> QED
      BY <3>1 DEF ScanWords, Range
  <2> QED
    BY <2>1, <2>2, <2>3, <2>4 DEF TypeOK, Types
<1> QED
  BY <1>1, Invariance, PTL

\* An order paid in advance is PAID, or refunded, only after the gateway has
\* captured one of its payments: by whichever of verify, webhook and sweep, and
\* whatever the handler had read before.
THEOREM PaidIsCaptured == Spec => []PaidMeansCaptured
<1>1. IInv => PaidMeansCaptured
  BY DEF IInv, Money, PaidMeansCaptured, Captured
<1> QED
  BY <1>1, Invariance, PTL

\* A unit of the product is on the shelf, with one order, or in the hands of one
\* handler; it may be lost when a handler dies, but it is never in two places.
THEOREM NeverSoldTwice == Spec => []NothingSoldTwice
<1>1. IInv => NothingSoldTwice
  <2> SUFFICES ASSUME IInv  PROVE NothingSoldTwice
    OBVIOUS
  <2>1. Balance /\ Types
    BY DEF IInv
  <2>2. UnitsAccountedFor = Supply => UnitsAccountedFor <= Supply
    BY LifecycleConstants DEF LifecycleConstants
  <2> QED
    BY <2>1, <2>2 DEF Balance, StockBalance, NothingSoldTwice
<1> QED
  BY <1>1, Invariance, PTL

\* Where no statement fails no unit is lost either: cancelling, failing, expiring
\* and returning an order, at once or again, put its unit back exactly once.
THEOREM EveryUnitIsAccountedFor ==
    ASSUME MayFail = FALSE
    PROVE  Spec => []StockBalance
<1>1. IInv => StockBalance
  BY DEF IInv, Balance
<1> QED
  BY <1>1, Invariance, PTL

-----------------------------------------------------------------------------
(* What was begun is on its way, where no statement fails.                 *)

LEMMA StaysOnItsWay ==
    ASSUME OnItsWay, NEW w \in Workers, Alone(w), restored \subseteq restored',
           At(w, "voidOrder")' => job'[w].order \in restored',
           \A o \in Orders :
              Method[o] = "online" /\ paymentStatus'[o] = "PAID" /\ status'[o] = "PENDING_PAYMENT" =>
                 \/ job'[w].order = o /\ (At(w, "commitStock") \/ At(w, "confirm"))'
                 \/ /\ paymentStatus[o] = "PAID" /\ status[o] = "PENDING_PAYMENT"
                    /\ ~(job[w].order = o /\ (At(w, "commitStock") \/ At(w, "confirm"))),
           \A o \in Orders : status'[o] \in GivesUp =>
              \/ o \in restored'
              \/ job'[w].order = o /\ At(w, "claimRestore")'
              \/ status[o] \in GivesUp /\ ~(job[w].order = o /\ At(w, "claimRestore"))
    PROVE  OnItsWay'
<1>1. \A v \in Workers \ {w} : job'[v] = job[v] /\ \A x : At(v, x)' <=> At(v, x)
  BY DEF Alone, At
<1>2. ASSUME NEW o \in Orders,
             Method[o] = "online", paymentStatus'[o] = "PAID", status'[o] = "PENDING_PAYMENT"
      PROVE  \E v \in Workers : job'[v].order = o /\ (At(v, "commitStock")' \/ At(v, "confirm")')
  <2>1. CASE job'[w].order = o /\ (At(w, "commitStock")' \/ At(w, "confirm")')
    BY <2>1
  <2>2. CASE ~(job'[w].order = o /\ (At(w, "commitStock")' \/ At(w, "confirm")'))
    <3>1. /\ paymentStatus[o] = "PAID" /\ status[o] = "PENDING_PAYMENT"
          /\ ~(job[w].order = o /\ (At(w, "commitStock") \/ At(w, "confirm")))
      BY <1>2, <2>2
    <3>2. PICK v \in Workers : job[v].order = o /\ (At(v, "commitStock") \/ At(v, "confirm"))
      BY <1>2, <3>1 DEF OnItsWay
    <3> QED
      BY <1>1, <3>1, <3>2
  <2> QED
    BY <2>1, <2>2
<1>3. ASSUME NEW o \in Orders, status'[o] \in GivesUp, o \notin restored'
      PROVE  \E v \in Workers : job'[v].order = o /\ At(v, "claimRestore")'
  <2>1. CASE job'[w].order = o /\ At(w, "claimRestore")'
    BY <2>1
  <2>2. CASE ~(job'[w].order = o /\ At(w, "claimRestore")')
    <3>1. /\ status[o] \in GivesUp /\ o \notin restored
          /\ ~(job[w].order = o /\ At(w, "claimRestore"))
      BY <1>3, <2>2
    <3>2. PICK v \in Workers : job[v].order = o /\ At(v, "claimRestore")
      BY <3>1 DEF OnItsWay
    <3> QED
      BY <1>1, <3>1, <3>2
  <2> QED
    BY <2>1, <2>2
<1>4. ASSUME NEW v \in Workers, At(v, "voidOrder")'  PROVE job'[v].order \in restored'
  BY <1>1, <1>4 DEF OnItsWay
<1>5. GivesUp' = GivesUp
  BY DEF GivesUp
<1> QED
  BY <1>2, <1>3, <1>4, <1>5 DEF OnItsWay

\* A step that moves no order on.
LEMMA PlainWay ==
    ASSUME OnItsWay, NEW w \in Workers, Alone(w), restored \subseteq restored',
           ~At(w, "voidOrder")',
           ~At(w, "commitStock"), ~At(w, "confirm"), ~At(w, "claimRestore"),
           \A o \in Orders :
              Method[o] = "online" /\ paymentStatus'[o] = "PAID" /\ status'[o] = "PENDING_PAYMENT" =>
                 paymentStatus[o] = "PAID" /\ status[o] = "PENDING_PAYMENT",
           \A o \in Orders : status'[o] \in GivesUp => status[o] \in GivesUp
    PROVE  OnItsWay'
  BY StaysOnItsWay

\* How the handler of w goes on.
LEMMA PassesOn ==
    ASSUME LifecycleConstants, IInv, NEW w \in Workers, NEW s, At(w, s),
           NEW j, Rest(j, job[w], 1), GoOn(w, j)
    PROVE  /\ Alone(w)
           /\ At(w, "voidOrder")' => s = "restock" /\ job'[w].order = job[w].order
           /\ \A n : Before(job[w].todo, s, n) => At(w, n)' /\ job'[w].order = job[w].order
<1>1. Ready(w) /\ job \in [Workers -> Jobs]
  BY DEF IInv, Types
<1>2. /\ job[w].todo # << >> /\ job[w].todo[1] = s /\ WellFormed(job[w])
      /\ job[w].todo \in Seq(Statements) /\ Len(job[w].todo) > 0
  BY <1>1, AtHead
<1>3. /\ \A v \in Workers \ {w} : job'[v] = job[v]
      /\ job'[w].todo # << >> => job'[w].order = job[w].order
      /\ \A x, p : After(job[w].todo, x, p) /\ 1 > 0 /\ At(w, x)' => job[w].todo[1] = p
  BY <1>1, <1>2, WentOn
<1>4. After(job[w].todo, "voidOrder", "restock")
  BY <1>2 DEF WellFormed, InOrder
<1>5. At(w, "voidOrder")' => s = "restock" /\ job'[w].order = job[w].order
  BY <1>2, <1>3, <1>4 DEF At
<1>6. ASSUME NEW n, Before(job[w].todo, s, n)
      PROVE  At(w, n)' /\ job'[w].order = job[w].order
  <2>1. 1 \in 1 .. Len(job[w].todo)
    BY <1>2
  <2>2. 1 < Len(job[w].todo) /\ job[w].todo[1 + 1] = n
    BY <1>2, <1>6, <2>1 DEF Before
  <2>3. j.todo \in Seq(Statements) /\ Len(j.todo) + 1 = Len(job[w].todo)
        /\ \A i \in 1 .. Len(j.todo) : j.todo[i] = job[w].todo[i + 1]
    BY DEF Rest, Drops
  <2>4. Len(j.todo) > 0 /\ 1 \in 1 .. Len(j.todo)
    BY <1>2, <2>2, <2>3
  <2>5. j.todo[1] = n
    BY <2>2, <2>3, <2>4
  <2>6. \A r \in Seq(Statements) : Len(r) > 0 => r # << >> /\ Head(r) = r[1]
    OBVIOUS
  <2>7. j.todo # << >> /\ Head(j.todo) = n
    BY <2>3, <2>4, <2>5, <2>6
  <2>8. job' = [job EXCEPT ![w] = j]
    BY <2>7 DEF GoOn
  <2>9. job'[w] = j
    BY <1>1, <2>8
  <2> QED
    BY <2>7, <2>9 DEF At, Rest
<1> QED
  BY <1>3, <1>5, <1>6 DEF Alone

LEMMA Passes ==
    ASSUME LifecycleConstants, IInv, NEW w \in Workers, NEW s, At(w, s), GoOn(w, Next1(w))
    PROVE  /\ Alone(w)
           /\ At(w, "voidOrder")' => s = "restock" /\ job'[w].order = job[w].order
           /\ \A n : Before(job[w].todo, s, n) => At(w, n)' /\ job'[w].order = job[w].order
<1>1. job \in [Workers -> Jobs] /\ job[w].todo # << >>
  BY DEF IInv, Types, At
<1>2. Rest(Next1(w), job[w], 1)
  BY <1>1, NextRest
<1> QED
  BY <1>2, PassesOn

LEMMA Skips ==
    ASSUME LifecycleConstants, IInv, NEW w \in Workers, NEW s, At(w, s), NEW n \in Nat,
           n + 1 <= Len(job[w].todo), GoOn(w, Skipping(w, n))
    PROVE  /\ Alone(w)
           /\ At(w, "voidOrder")' => /\ job[w].todo[n + 1] = "restock"
                                     /\ job'[w].order = job[w].order
<1>1. Ready(w) /\ job \in [Workers -> Jobs]
  BY DEF IInv, Types
<1>2. job[w].todo # << >> /\ WellFormed(job[w])
  BY <1>1, AtHead
<1>3. Rest(Skipping(w, n), job[w], n + 1) /\ n + 1 > 0 /\ n + 1 \in Nat
  BY <1>1, <1>2, SkipRest
<1>4. /\ \A v \in Workers \ {w} : job'[v] = job[v]
      /\ job'[w].todo # << >> => job'[w].order = job[w].order
      /\ \A x, p : After(job[w].todo, x, p) /\ n + 1 > 0 /\ At(w, x)' => job[w].todo[n + 1] = p
  BY <1>1, <1>2, <1>3, WentOn
<1>5. After(job[w].todo, "voidOrder", "restock")
  BY <1>2 DEF WellFormed, InOrder
<1> QED
  BY <1>3, <1>4, <1>5 DEF Alone, At

\* The branch not taken is one statement long.
LEMMA SkipsOne ==
    ASSUME LifecycleConstants, IInv, NEW w \in Workers, NEW s, At(w, s), NEW n,
           Before(job[w].todo, s, n), n # "restock", GoOn(w, Skipping(w, 1))
    PROVE  Alone(w) /\ ~At(w, "voidOrder")'
<1>1. /\ job[w].todo \in Seq(Statements) /\ Len(job[w].todo) > 0 /\ job[w].todo[1] = s
  BY AtHead DEF IInv
<1>2. 1 \in 1 .. Len(job[w].todo)
  BY <1>1
<1>3. 1 + 1 <= Len(job[w].todo) /\ job[w].todo[1 + 1] = n
  BY <1>1, <1>2 DEF Before
<1> QED
  BY <1>3, Skips

LEMMA Ends ==
    ASSUME LifecycleConstants, IInv, NEW w \in Workers, GoOn(w, NoJob)
    PROVE  Alone(w) /\ ~At(w, "voidOrder")'
<1>1. NoJob.todo = << >> /\ job \in [Workers -> Jobs]
  BY NoJobWellFormed DEF IInv, Types
<1>2. job' = [job EXCEPT ![w] = NoJob]
  BY DEF GoOn
<1> QED
  BY <1>1, <1>2 DEF At, Alone

\* w starts over with another list.
LEMMA Turns ==
    ASSUME LifecycleConstants, IInv, NEW w \in Workers, NEW j, GoOn(w, j),
           j.todo \in Seq(Statements), j.todo # << >> => j.todo[1] # "voidOrder"
    PROVE  Alone(w) /\ ~At(w, "voidOrder")'
<1>1. NoJob.todo = << >> /\ job \in [Workers -> Jobs]
  BY NoJobWellFormed DEF IInv, Types
<1>2. PICK k : k = IF j.todo = << >> THEN NoJob ELSE j
  OBVIOUS
<1>3. job' = [job EXCEPT ![w] = k]
  BY <1>2 DEF GoOn
<1>4. k.todo # << >> => Head(k.todo) # "voidOrder"
  <2>1. \A r \in Seq(Statements) : r # << >> => Head(r) = r[1]
    OBVIOUS
  <2> QED
    BY <1>1, <1>2, <2>1
<1> QED
  BY <1>1, <1>3, <1>4 DEF At, Alone

\* The statements that change no status.
Bystanders == {"deduct", "openPayment", "insertAttempt", "fetch", "recordPayment",
               "failPayment", "refundIfPaid", "recall", "recallOrder", "openShipment",
               "assignAwb", "noteAwb", "moveShipment", "moveShipping", "readStatus",
               "collectCash", "sellReserved", "finish"}

LEMMA Beside ==
    ASSUME OnItsWay, NEW w \in Workers, NEW s \in Bystanders, At(w, s),
           Alone(w), ~At(w, "voidOrder")', UNCHANGED << status, restored >>,
           \A o \in Orders : Method[o] = "online" /\ paymentStatus'[o] = "PAID" =>
              paymentStatus[o] = "PAID"
    PROVE  OnItsWay'
<1>1. ~At(w, "commitStock") /\ ~At(w, "confirm") /\ ~At(w, "claimRestore")
  BY DEF At, Bystanders
<1> QED
  BY <1>1, PlainWay

LEMMA BesideNext ==
    ASSUME LifecycleConstants, IInv, OnItsWay, NEW w \in Workers, NEW s \in Bystanders, At(w, s),
           GoOn(w, Next1(w)) \/ GoOn(w, NoJob), UNCHANGED << status, restored >>,
           \A o \in Orders : Method[o] = "online" /\ paymentStatus'[o] = "PAID" =>
              paymentStatus[o] = "PAID"
    PROVE  OnItsWay'
<1>1. s # "restock"
  BY DEF Bystanders
<1>2. Alone(w) /\ ~At(w, "voidOrder")'
  BY <1>1, Passes, Ends
<1> QED
  BY <1>2, Beside

\* The statements beside the order's status.
LEMMA BystanderStep ==
    ASSUME LifecycleConstants, IInv, OnItsWay, NEW w \in Workers,
           \/ Deduct(w) \/ OpenPayment(w) \/ InsertAttempt(w) \/ Fetch(w) \/ RecordPayment(w)
           \/ FailPayment(w) \/ RefundIfPaid(w) \/ RecallShipment(w) \/ RecallOrder(w)
           \/ OpenShipment(w) \/ AssignAwb(w) \/ NoteAwb(w) \/ MoveShipment(w)
           \/ MoveShipping(w) \/ ReadStatus(w) \/ CollectCash(w) \/ SellReserved(w) \/ Finish(w)
    PROVE  OnItsWay'
<1>1. Ready(w) /\ Types /\ job[w] \in Jobs
  BY DEF IInv, Types
<1>2. CASE Deduct(w)
  <2>1. At(w, "deduct") /\ (GoOn(w, Next1(w)) \/ GoOn(w, NoJob))
    BY <1>2 DEF Deduct
  <2>2. UNCHANGED << status, restored, paymentStatus >>
    BY <1>2 DEF Deduct, orderVars
  <2> QED
    BY <2>1, <2>2, BesideNext DEF Bystanders
<1>3. CASE OpenPayment(w)
  <2>1. At(w, "openPayment")
    BY <1>3 DEF OpenPayment
  <2>2. UNCHANGED << status, restored, paymentStatus >>
    BY <1>3 DEF OpenPayment, orderVars
  <2>3. CASE GoOn(w, Next1(w))
    BY <2>1, <2>2, <2>3, BesideNext DEF Bystanders
  <2>4. CASE GoOn(w, [job[w] EXCEPT !.todo = ReturnStock \o << "voidOrder" >>])
    <3>1. PICK t : t = ReturnStock \o << "voidOrder" >>
      OBVIOUS
    <3>2. t \in Seq(Statements) /\ t[1] = "claimRestore"
      BY <3>1, MoreLists DEF Good
    <3>3. PICK j : j = [job[w] EXCEPT !.todo = t]
      OBVIOUS
    <3>4. j.todo = t /\ GoOn(w, j)
      BY <1>1, <2>4, <3>1, <3>2, <3>3 DEF Jobs
    <3>5. Alone(w) /\ ~At(w, "voidOrder")'
      BY <3>2, <3>4, Turns
    <3> QED
      BY <2>1, <2>2, <3>5, Beside DEF Bystanders
  <2> QED
    BY <1>3, <2>3, <2>4 DEF OpenPayment
<1>4. CASE InsertAttempt(w)
  <2>1. At(w, "insertAttempt") /\ GoOn(w, Next1(w))
    BY <1>4 DEF InsertAttempt
  <2>2. UNCHANGED << status, restored, paymentStatus >>
    BY <1>4 DEF InsertAttempt, orderVars, stockVars
  <2> QED
    BY <2>1, <2>2, BesideNext DEF Bystanders
<1>5. CASE Fetch(w)
  <2> DEFINE rec == << "recordPayment" >>
             j(v, t) == [job[w] EXCEPT !.verdict = v, !.todo = t]
  <2>1. At(w, "fetch")
    BY <1>5 DEF Fetch
  <2>2. UNCHANGED << status, restored, paymentStatus >>
    BY <1>5 DEF Fetch, orderVars, stockVars
  <2>3. \/ GoOn(w, j("PAID", rec \o Pay))
        \/ GoOn(w, j("PENDING", rec \o << >>))
        \/ GoOn(w, j("FAILED", rec \o Fail))
        \/ GoOn(w, NoJob)
    BY <1>5 DEF Fetch
  <2>4. ASSUME NEW v, NEW t \in Seq(Statements), GoOn(w, j(v, t)), t[1] = "recordPayment"
        PROVE  Alone(w) /\ ~At(w, "voidOrder")'
    <3>1. PICK i : i = j(v, t)
      OBVIOUS
    <3>2. i.todo = t /\ GoOn(w, i)
      BY <1>1, <2>4, <3>1 DEF Jobs
    <3> QED
      BY <2>4, <3>2, Turns
  <2>5. /\ rec \o Pay \in Seq(Statements) /\ (rec \o Pay)[1] = "recordPayment"
        /\ rec \o Fail \in Seq(Statements) /\ (rec \o Fail)[1] = "recordPayment"
        /\ rec \o << >> = rec /\ rec \in Seq(Statements) /\ rec[1] = "recordPayment"
    <3>1. Good(rec, {"recordPayment"}) /\ Good(Pay, Paying) /\ Good(Fail, Failing)
      BY SmallLists, Lists
    <3>2. /\ Good(rec \o Pay, {"recordPayment"} \cup Paying) /\ (rec \o Pay)[1] = rec[1]
          /\ Good(rec \o Fail, {"recordPayment"} \cup Failing) /\ (rec \o Fail)[1] = rec[1]
      BY <3>1, GoodJoined
    <3> QED
      BY <3>1, <3>2 DEF Good
  <2> HIDE DEF j, rec
  <2>6. Alone(w) /\ ~At(w, "voidOrder")'
    BY <2>3, <2>4, <2>5, Ends
  <2> QED
    BY <2>1, <2>2, <2>6, Beside DEF Bystanders
<1>6. CASE RecordPayment(w)
  <2>1. At(w, "recordPayment") /\ GoOn(w, Next1(w))
    BY <1>6 DEF RecordPayment
  <2>2. UNCHANGED << status, restored, paymentStatus >>
    BY <1>6 DEF RecordPayment, orderVars, stockVars
  <2> QED
    BY <2>1, <2>2, BesideNext DEF Bystanders
<1>7. CASE FailPayment(w)
  <2>1. At(w, "failPayment") /\ (GoOn(w, Next1(w)) \/ GoOn(w, Skipping(w, 1)))
    BY <1>7 DEF FailPayment
  <2>2. UNCHANGED << status, restored >>
    BY <1>7 DEF FailPayment, stockVars
  <2>3. job[w].verdict # "PAID"
    BY <1>1, <2>1, HeadEquipped
  <2>4. \A o \in Orders : paymentStatus'[o] = "PAID" => paymentStatus[o] = "PAID"
    BY <1>1, <1>7, <2>3 DEF FailPayment, Types
  <2>5. Before(job[w].todo, "failPayment", "cancelUnpaid")
    BY <1>1 DEF Ready, WellFormed, InOrder
  <2>6. Alone(w) /\ ~At(w, "voidOrder")'
    <3>1. CASE GoOn(w, Next1(w))
      BY <2>1, <3>1, Passes
    <3>2. CASE GoOn(w, Skipping(w, 1))
      BY <2>1, <2>5, <3>2, SkipsOne
    <3> QED
      BY <2>1, <3>1, <3>2
  <2> QED
    BY <2>1, <2>2, <2>4, <2>6, Beside DEF Bystanders
<1>8. CASE RefundIfPaid(w)
  <2>1. At(w, "refundIfPaid") /\ GoOn(w, Next1(w))
    BY <1>8 DEF RefundIfPaid
  <2>2. UNCHANGED << status, restored >>
    BY <1>8 DEF RefundIfPaid, stockVars
  <2>3. \A o \in Orders : paymentStatus'[o] = "PAID" => paymentStatus[o] = "PAID"
    BY <1>1, <1>8 DEF RefundIfPaid, GiveBack, Types
  <2> QED
    BY <2>1, <2>2, <2>3, BesideNext DEF Bystanders
<1>9. CASE RecallShipment(w)
  <2>1. At(w, "recall") /\ (GoOn(w, Next1(w)) \/ GoOn(w, Skipping(w, 1)))
    BY <1>9 DEF RecallShipment
  <2>2. UNCHANGED << status, restored, paymentStatus >>
    BY <1>9 DEF RecallShipment, orderVars, stockVars
  <2>3. Before(job[w].todo, "recall", "recallOrder")
    BY <1>1 DEF Ready, WellFormed, InOrder
  <2>4. Alone(w) /\ ~At(w, "voidOrder")'
    <3>1. CASE GoOn(w, Next1(w))
      BY <2>1, <3>1, Passes
    <3>2. CASE GoOn(w, Skipping(w, 1))
      BY <2>1, <2>3, <3>2, SkipsOne
    <3> QED
      BY <2>1, <3>1, <3>2
  <2> QED
    BY <2>1, <2>2, <2>4, Beside DEF Bystanders
<1>10. CASE RecallOrder(w)
  <2>1. At(w, "recallOrder") /\ GoOn(w, Next1(w))
    BY <1>10 DEF RecallOrder
  <2>2. UNCHANGED << status, restored, paymentStatus >>
    BY <1>10 DEF RecallOrder, stockVars
  <2> QED
    BY <2>1, <2>2, BesideNext DEF Bystanders
<1>11. CASE OpenShipment(w)
  <2>1. At(w, "openShipment") /\ (GoOn(w, Next1(w)) \/ GoOn(w, NoJob))
    BY <1>11 DEF OpenShipment
  <2>2. UNCHANGED << status, restored, paymentStatus >>
    BY <1>11 DEF OpenShipment, orderVars, stockVars
  <2> QED
    BY <2>1, <2>2, BesideNext DEF Bystanders
<1>12. CASE AssignAwb(w)
  <2>1. At(w, "assignAwb") /\ (GoOn(w, Next1(w)) \/ GoOn(w, NoJob))
    BY <1>12 DEF AssignAwb
  <2>2. UNCHANGED << status, restored, paymentStatus >>
    BY <1>12 DEF AssignAwb, orderVars, stockVars
  <2> QED
    BY <2>1, <2>2, BesideNext DEF Bystanders
<1>13. CASE NoteAwb(w)
  <2>1. At(w, "noteAwb") /\ GoOn(w, Next1(w))
    BY <1>13 DEF NoteAwb
  <2>2. UNCHANGED << status, restored, paymentStatus >>
    BY <1>13 DEF NoteAwb, stockVars
  <2> QED
    BY <2>1, <2>2, BesideNext DEF Bystanders
<1>14. CASE MoveShipment(w)
  <2>1. PICK j : j = [Next1(w) EXCEPT !.flag = shipment[job[w].order] \notin {"none", job[w].verdict}]
    OBVIOUS
  <2>2. At(w, "moveShipment") /\ GoOn(w, j)
    BY <1>14, <2>1 DEF MoveShipment
  <2>3. UNCHANGED << status, restored, paymentStatus >>
    BY <1>14 DEF MoveShipment, orderVars, stockVars
  <2>4. Rest(Next1(w), job[w], 1)
    BY <1>1, <2>2, AtHead, NextRest DEF Types
  <2>5. Rest(j, job[w], 1)
    BY <2>1, <2>4 DEF Rest, Jobs
  <2>6. Alone(w) /\ ~At(w, "voidOrder")'
    BY <2>2, <2>5, PassesOn
  <2> QED
    BY <2>2, <2>3, <2>6, Beside DEF Bystanders
<1>15. CASE MoveShipping(w)
  <2>1. PICK t \in {<< >>, << "finish" >>} :
           GoOn(w, Next1(w)) \/ GoOn(w, [job[w] EXCEPT !.todo = t])
    BY <1>15 DEF MoveShipping
  <2>2. At(w, "moveShipping")
    BY <1>15 DEF MoveShipping
  <2>3. UNCHANGED << status, restored, paymentStatus >>
    BY <1>15 DEF MoveShipping, stockVars
  <2>4. CASE GoOn(w, Next1(w))
    BY <2>2, <2>3, <2>4, BesideNext DEF Bystanders
  <2>5. CASE GoOn(w, [job[w] EXCEPT !.todo = t])
    <3>1. PICK j : j = [job[w] EXCEPT !.todo = t]
      OBVIOUS
    <3>2. t \in Seq(Statements) /\ (t # << >> => t[1] # "voidOrder")
      <4>1. << >> \in Seq(Statements) /\ << "finish" >> \in Seq(Statements)
            /\ << "finish" >>[1] = "finish"
        BY DEF Statements
      <4> QED
        BY <2>1, <4>1
    <3>3. j.todo = t /\ GoOn(w, j)
      BY <1>1, <2>5, <3>1, <3>2 DEF Jobs
    <3>4. Alone(w) /\ ~At(w, "voidOrder")'
      BY <3>2, <3>3, Turns
    <3> QED
      BY <2>2, <2>3, <3>4, Beside DEF Bystanders
  <2> QED
    BY <2>1, <2>4, <2>5
<1>16. CASE ReadStatus(w)
  <2>1. At(w, "readStatus") /\ (GoOn(w, Next1(w)) \/ GoOn(w, Skipping(w, 1)))
    BY <1>16 DEF ReadStatus
  <2>2. UNCHANGED << status, restored, paymentStatus >>
    BY <1>16 DEF ReadStatus, orderVars, stockVars
  <2>3. Before(job[w].todo, "readStatus", "follow")
    BY <1>1 DEF Ready, WellFormed, InOrder
  <2>4. Alone(w) /\ ~At(w, "voidOrder")'
    <3>1. CASE GoOn(w, Next1(w))
      BY <2>1, <3>1, Passes
    <3>2. CASE GoOn(w, Skipping(w, 1))
      BY <2>1, <2>3, <3>2, SkipsOne
    <3> QED
      BY <2>1, <3>1, <3>2
  <2> QED
    BY <2>1, <2>2, <2>4, Beside DEF Bystanders
<1>17. CASE CollectCash(w)
  <2>1. At(w, "collectCash") /\ GoOn(w, Next1(w))
    BY <1>17 DEF CollectCash
  <2>2. UNCHANGED << status, restored >>
    BY <1>17 DEF CollectCash, stockVars
  <2>3. \A o \in Orders : Method[o] = "online" /\ paymentStatus'[o] = "PAID" =>
           paymentStatus[o] = "PAID"
    BY <1>1, <1>17 DEF CollectCash, Types
  <2> QED
    BY <2>1, <2>2, <2>3, BesideNext DEF Bystanders
<1>18. CASE SellReserved(w)
  <2>1. At(w, "sellReserved") /\ GoOn(w, Next1(w))
    BY <1>18 DEF SellReserved
  <2>2. UNCHANGED << status, restored, paymentStatus >>
    BY <1>18 DEF SellReserved, orderVars
  <2> QED
    BY <2>1, <2>2, BesideNext DEF Bystanders
<1>19. CASE Finish(w)
  <2>1. At(w, "finish") /\ GoOn(w, Next1(w))
    BY <1>19 DEF Finish
  <2>2. UNCHANGED << status, restored, paymentStatus >>
    BY <1>19 DEF Finish, orderVars, stockVars
  <2> QED
    BY <2>1, <2>2, BesideNext DEF Bystanders
<1> QED
  BY <1>2, <1>3, <1>4, <1>5, <1>6, <1>7, <1>8, <1>9, <1>10, <1>11, <1>12, <1>13, <1>14, <1>15,
     <1>16, <1>17, <1>18, <1>19

\* The statements that move the order or its stock.
LEMMA MoverStep ==
    ASSUME LifecycleConstants, IInv, OnItsWay, NEW w \in Workers,
           \/ InsertOrder(w) \/ VoidOrder(w) \/ ClaimPaid(w) \/ CommitStock(w) \/ Confirm(w)
           \/ CancelUnpaid(w) \/ ClaimRestore(w) \/ Restock(w) \/ SetIfSame(w) \/ Follow(w)
    PROVE  OnItsWay'
<1>1. PICK o : o = job[w].order
  OBVIOUS
<1>2. Ready(w) /\ Types /\ Inserted /\ InOrder(job[w].todo) /\ Equipped(job[w])
  BY DEF IInv, Ready, WellFormed
<1>3. \A s, x : At(w, s) /\ x # s => ~At(w, x)
  BY DEF At
<1>4. \A s : At(w, s) => o \in Orders
  BY <1>1, <1>2, AtHead
<1>5. CASE InsertOrder(w)
  <2>1. /\ At(w, "insertOrder") /\ GoOn(w, Next1(w)) /\ UNCHANGED restored
        /\ status' = [status EXCEPT ![o] = IF Method[o] = "online" THEN "PENDING_PAYMENT"
                                                                   ELSE "PLACED"]
        /\ paymentStatus' = [paymentStatus EXCEPT ![o] = IF Method[o] = "online" THEN "PENDING"
                                                                                ELSE "COD_PENDING"]
    BY <1>1, <1>5 DEF InsertOrder
  <2>2. Alone(w) /\ ~At(w, "voidOrder")'
    BY <2>1, Passes
  <2>3. \A p \in Orders : paymentStatus'[p] = "PAID" => paymentStatus[p] = "PAID" /\ status'[p] = status[p]
    BY <1>2, <2>1 DEF Types
  <2>4. \A p \in Orders : status'[p] \in GivesUp => status[p] \in GivesUp
    BY <1>2, <2>1 DEF Types, GivesUp
  <2> QED
    BY <1>3, <2>1, <2>2, <2>3, <2>4, PlainWay
<1>6. CASE VoidOrder(w)
  <2>1. /\ At(w, "voidOrder") /\ GoOn(w, Next1(w)) /\ UNCHANGED restored
        /\ status' = [status EXCEPT ![o] = "CANCELLED"]
        /\ paymentStatus' = [paymentStatus EXCEPT ![o] = "FAILED"]
    BY <1>1, <1>6 DEF VoidOrder, stockVars
  <2>2. Alone(w) /\ ~At(w, "voidOrder")'
    BY <2>1, Passes
  <2>3. o \in restored
    BY <1>1, <2>1 DEF OnItsWay
  <2>4. \A p \in Orders : paymentStatus'[p] = "PAID" => paymentStatus[p] = "PAID" /\ status'[p] = status[p]
    BY <1>2, <2>1 DEF Types
  <2>5. \A p \in Orders : p # o => status'[p] = status[p]
    BY <1>2, <2>1 DEF Types
  <2> QED
    BY <1>3, <2>1, <2>2, <2>3, <2>4, <2>5, StaysOnItsWay
<1>7. CASE ClaimPaid(w)
  <2>1. At(w, "claimPaid") /\ UNCHANGED << status, restored >>
    BY <1>7 DEF ClaimPaid, stockVars
  <2>2. CASE paymentStatus[o] # "PAID"
    <3>1. GoOn(w, Next1(w)) /\ paymentStatus' = [paymentStatus EXCEPT ![o] = "PAID"]
      BY <1>1, <1>7, <2>2 DEF ClaimPaid
    <3>2. Before(job[w].todo, "claimPaid", "commitStock")
      BY <1>2 DEF InOrder
    <3>3. Alone(w) /\ ~At(w, "voidOrder")' /\ At(w, "commitStock")' /\ job'[w].order = o
      BY <1>1, <2>1, <3>1, <3>2, Passes
    <3>4. \A p \in Orders : p # o => paymentStatus'[p] = paymentStatus[p]
      BY <1>2, <3>1 DEF Types
    <3> QED
      BY <1>3, <2>1, <3>3, <3>4, StaysOnItsWay
  <2>3. CASE paymentStatus[o] = "PAID"
    <3>1. GoOn(w, Skipping(w, 2)) /\ UNCHANGED paymentStatus
      BY <1>1, <1>7, <2>3 DEF ClaimPaid
    <3>2. Before(job[w].todo, "claimPaid", "commitStock") /\ Before(job[w].todo, "commitStock", "confirm")
      BY <1>2 DEF InOrder
    <3>3. /\ job[w].todo \in Seq(Statements) /\ Len(job[w].todo) > 0
          /\ job[w].todo[1] = "claimPaid"
      BY <1>2, <2>1, AtHead
    <3>4. 1 \in 1 .. Len(job[w].todo)
      BY <3>3
    <3>5. 1 < Len(job[w].todo) /\ job[w].todo[1 + 1] = "commitStock"
      BY <3>2, <3>3, <3>4 DEF Before
    <3>6. 2 \in 1 .. Len(job[w].todo) /\ job[w].todo[2] = "commitStock"
      BY <3>3, <3>5
    <3>7. 2 < Len(job[w].todo) /\ job[w].todo[2 + 1] = "confirm"
      BY <3>2, <3>6 DEF Before
    <3>8. 2 \in Nat /\ 2 + 1 <= Len(job[w].todo)
      BY <3>3, <3>7
    <3>9. Alone(w) /\ ~At(w, "voidOrder")'
      BY <2>1, <3>1, <3>7, <3>8, Skips
    <3> QED
      BY <1>3, <2>1, <3>1, <3>9, PlainWay
  <2> QED
    BY <2>2, <2>3
<1>8. CASE CommitStock(w)
  <2>1. /\ At(w, "commitStock") /\ GoOn(w, Next1(w))
        /\ UNCHANGED << status, paymentStatus, restored >>
    BY <1>8 DEF CommitStock, orderVars
  <2>2. Before(job[w].todo, "commitStock", "confirm")
    BY <1>2 DEF InOrder
  <2>3. Alone(w) /\ ~At(w, "voidOrder")' /\ At(w, "confirm")' /\ job'[w].order = o
    BY <1>1, <2>1, <2>2, Passes
  <2>4. ~At(w, "claimRestore")
    BY <1>3, <2>1
  <2> QED
    BY <1>1, <2>1, <2>3, <2>4, StaysOnItsWay
<1>9. CASE Confirm(w)
  <2>1. /\ At(w, "confirm") /\ GoOn(w, Next1(w)) /\ UNCHANGED << paymentStatus, restored >>
        /\ status' = IF status[o] = "PENDING_PAYMENT" THEN [status EXCEPT ![o] = "CONFIRMED"]
                                                      ELSE status
    BY <1>1, <1>9 DEF Confirm, stockVars
  <2>2. Alone(w) /\ ~At(w, "voidOrder")' /\ ~At(w, "claimRestore")
    BY <1>3, <2>1, Passes
  <2>3. o \in Orders /\ status'[o] # "PENDING_PAYMENT" /\ \A p \in Orders : p # o => status'[p] = status[p]
    BY <1>2, <1>4, <2>1 DEF Types
  <2>4. \A p \in Orders : status'[p] \in GivesUp => status[p] \in GivesUp
    BY <1>2, <2>1 DEF Types, GivesUp
  <2> QED
    BY <1>1, <2>1, <2>2, <2>3, <2>4, StaysOnItsWay
<1>10. CASE CancelUnpaid(w)
  <2>1. /\ At(w, "cancelUnpaid") /\ GoOn(w, Next1(w)) /\ UNCHANGED << paymentStatus, restored >>
        /\ status' = IF status[o] = "PENDING_PAYMENT" THEN [status EXCEPT ![o] = "CANCELLED"]
                                                      ELSE status
    BY <1>1, <1>10 DEF CancelUnpaid, stockVars
  <2>2. Before(job[w].todo, "cancelUnpaid", "claimRestore")
    BY <1>2 DEF InOrder
  <2>3. Alone(w) /\ ~At(w, "voidOrder")' /\ At(w, "claimRestore")' /\ job'[w].order = o
    BY <1>1, <2>1, <2>2, Passes
  <2>4. \A p \in Orders : /\ p # o => status'[p] = status[p]
                          /\ status'[p] = "PENDING_PAYMENT" => status[p] = "PENDING_PAYMENT"
    BY <1>2, <2>1 DEF Types
  <2> QED
    BY <1>3, <2>1, <2>3, <2>4, StaysOnItsWay
<1>11. CASE ClaimRestore(w)
  <2>1. At(w, "claimRestore") /\ UNCHANGED << status, paymentStatus >>
    BY <1>11 DEF ClaimRestore, orderVars
  <2>2. o \in restored' /\ restored \subseteq restored'
    <3>1. status[o] # "none"
      BY <1>1, <1>2, <2>1, AtHead
    <3>2. o \in committed
      BY <1>2, <1>4, <2>1, <3>1 DEF Inserted
    <3> QED
      BY <1>1, <1>11, <3>2 DEF ClaimRestore
  <2>3. Alone(w) /\ (At(w, "voidOrder")' => job'[w].order = o)
    <3>1. CASE GoOn(w, Next1(w))
      BY <1>1, <2>1, <3>1, Passes
    <3>2. CASE GoOn(w, Skipping(w, 1))
      <4>1. Before(job[w].todo, "claimRestore", "restock")
        BY <1>2 DEF InOrder
      <4>2. /\ job[w].todo \in Seq(Statements) /\ Len(job[w].todo) > 0
            /\ job[w].todo[1] = "claimRestore"
        BY <1>2, <2>1, AtHead
      <4>3. 1 \in 1 .. Len(job[w].todo)
        BY <4>2
      <4>4. 1 \in Nat /\ 1 + 1 <= Len(job[w].todo)
        BY <4>1, <4>2, <4>3 DEF Before
      <4> QED
        BY <1>1, <2>1, <3>2, <4>4, Skips
    <3> QED
      BY <1>11, <3>1, <3>2 DEF ClaimRestore
  <2> QED
    BY <1>1, <1>3, <2>1, <2>2, <2>3, StaysOnItsWay
<1>12. CASE Restock(w)
  <2>1. At(w, "restock") /\ GoOn(w, Next1(w)) /\ UNCHANGED << status, paymentStatus, restored >>
    BY <1>12 DEF Restock, orderVars
  <2>2. Alone(w) /\ (At(w, "voidOrder")' => job'[w].order = o)
    BY <1>1, <2>1, Passes
  <2>3. o \in restored
    BY <1>1, <1>2, <2>1 DEF Ready
  <2> QED
    BY <1>3, <2>1, <2>2, <2>3, StaysOnItsWay
<1>13. CASE SetIfSame(w)
  <2>1. At(w, "setIfSame") /\ UNCHANGED << paymentStatus, restored >>
    BY <1>13 DEF SetIfSame, stockVars
  <2>2. job[w].verdict # "PENDING_PAYMENT"
    BY <1>2, <2>1, HeadEquipped
  <2>3. CASE status[o] = job[w].seen
    <3>1. status' = [status EXCEPT ![o] = job[w].verdict] /\ GoOn(w, Next1(w))
      BY <1>1, <1>13, <2>3 DEF SetIfSame
    <3>2. Alone(w) /\ ~At(w, "voidOrder")'
      BY <2>1, <3>1, Passes
    <3>3. job[w].verdict \in GivesUp => At(w, "claimRestore")' /\ job'[w].order = o
      <4>1. job[w].verdict \in GivesUp => Before(job[w].todo, "setIfSame", "claimRestore")
        BY <1>2 DEF Equipped
      <4> QED
        BY <1>1, <2>1, <3>1, <4>1, Passes
    <3>4. \A p \in Orders : /\ p # o => status'[p] = status[p]
                            /\ p = o => status'[p] = job[w].verdict
      BY <1>2, <3>1 DEF Types
    <3> QED
      BY <1>3, <2>1, <2>2, <3>2, <3>3, <3>4, StaysOnItsWay
  <2>4. CASE status[o] # job[w].seen
    <3>1. UNCHANGED status /\ GoOn(w, NoJob)
      BY <1>1, <1>13, <2>4 DEF SetIfSame
    <3>2. Alone(w) /\ ~At(w, "voidOrder")'
      BY <3>1, Ends
    <3> QED
      BY <1>3, <2>1, <3>1, <3>2, PlainWay
  <2> QED
    BY <2>3, <2>4
<1>14. CASE Follow(w)
  <2>1. /\ At(w, "follow") /\ GoOn(w, Next1(w)) /\ UNCHANGED << paymentStatus, restored >>
        /\ status' = [status EXCEPT ![o] = SHIPPING_TO_ORDER_STATUS[job[w].verdict]]
    BY <1>1, <1>14 DEF Follow, stockVars
  <2>2. Alone(w) /\ ~At(w, "voidOrder")'
    BY <2>1, Passes
  <2>3. SHIPPING_TO_ORDER_STATUS[job[w].verdict] \notin GivesUp \cup {"PENDING_PAYMENT"}
    <3>1. job[w].verdict \in Scans
      BY <1>2, <2>1, HeadEquipped
    <3> QED
      BY <3>1 DEF Scans, SHIPPING_TO_ORDER_STATUS, GivesUp
  <2>4. \A p \in Orders : /\ p # o => status'[p] = status[p]
                          /\ p = o => status'[p] = SHIPPING_TO_ORDER_STATUS[job[w].verdict]
    BY <1>2, <2>1 DEF Types
  <2> QED
    BY <1>3, <2>1, <2>2, <2>3, <2>4, PlainWay
<1> QED
  BY <1>5, <1>6, <1>7, <1>8, <1>9, <1>10, <1>11, <1>12, <1>13, <1>14

\* No handler goes on: one is begun, or the world moves.
LEMMA NobodyGoesOn ==
    ASSUME LifecycleConstants, OnItsWay, NEW w \in Workers, Begins(w),
           UNCHANGED << status, restored >>,
           \A o \in Orders : paymentStatus'[o] = "PAID" => paymentStatus[o] = "PAID"
    PROVE  OnItsWay'
<1>1. CASE UNCHANGED job
  BY <1>1 DEF OnItsWay, At
<1>2. CASE Idle(w) /\ Alone(w) /\ ~At(w, "voidOrder")'
  BY <1>2, IdleNowhere, PlainWay
<1> QED
  BY <1>1, <1>2 DEF Begins

LEMMA NextOnItsWay ==
    ASSUME LifecycleConstants, MayFail = FALSE, IInv, OnItsWay, [Next]_vars
    PROVE  OnItsWay'
<1>1. ASSUME NEW w \in Workers, Step(w)  PROVE OnItsWay'
  BY <1>1, BystanderStep, MoverStep DEF Step
<1>2. ASSUME NEW w \in Workers, Sweep(w)  PROVE OnItsWay'
  <2>1. Begins(w)
    BY <1>2, GiveUpStep, ReplayStep DEF Sweep
  <2>2. UNCHANGED << orderVars, stockVars >>
    BY <1>2 DEF Sweep, Expire, Replay
  <2> QED
    BY <2>1, <2>2, NobodyGoesOn DEF orderVars, stockVars
<1>3. ASSUME NEW w \in Workers, NEW o \in Orders, Request(w, o)  PROVE OnItsWay'
  <2>1. Begins(w)
    BY <1>3, CheckoutStep, RetryStep, GiveUpStep, CancelOrderStep, BookStep, UnbookStep,
       TrackStep, VerifyStep, PaymentWebhookStep, ScanWebhookStep, SetStatusStep
    DEF Request
  <2>2. UNCHANGED << orderVars, stockVars >>
    BY <1>3 DEF Request, Checkout, Retry, CancelPayment, CancelOrder, Book, Unbook, Track, Verify,
                PaymentWebhook, ScanWebhook, SetStatus
  <2> QED
    BY <2>1, <2>2, NobodyGoesOn DEF orderVars, stockVars
<1>4. ASSUME UNCHANGED << job, status, restored >>,
             \A o \in Orders : paymentStatus'[o] = "PAID" => paymentStatus[o] = "PAID"
      PROVE  OnItsWay'
  BY <1>4 DEF OnItsWay, At
<1>5. ASSUME NEW o \in Orders, NEW extent \in {"part", "full"}, AdminRefund(o, extent)
      PROVE  OnItsWay'
  <2>1. paymentStatus \in [Orders -> PaymentStatuses \cup {"none"}]
    BY DEF IInv, Types
  <2>2. \A p \in Orders : paymentStatus'[p] = "PAID" => paymentStatus[p] = "PAID"
    BY <1>5, <2>1 DEF AdminRefund, GiveBack
  <2>3. UNCHANGED << job, status, restored >>
    BY <1>5 DEF AdminRefund, stockVars
  <2> QED
    BY <1>4, <2>2, <2>3
<1>6. ASSUME NEW o \in Orders, CourierMoves(o) \/ \E k \in Attempts : GatewayMoves(o, k)
      PROVE  OnItsWay'
  <2>1. UNCHANGED << job, status, restored, paymentStatus >>
    BY <1>6 DEF CourierMoves, GatewayMoves, orderVars, stockVars
  <2> QED
    BY <1>4, <2>1
<1>7. CASE UNCHANGED vars
  BY <1>4, <1>7 DEF vars
<1>8. ~Crash /\ \A w \in Workers : ~StatementFails(w)
  BY DEF Crash, StatementFails
<1> QED
  BY <1>1, <1>2, <1>3, <1>5, <1>6, <1>7, <1>8 DEF Next

\* Where no statement fails, what a handler has begun it is on its way to finish.
THEOREM NothingIsStranded ==
    ASSUME MayFail = FALSE
    PROVE  Spec => []OnItsWay
<1>1. Init => OnItsWay
  <2>1. NoJob.todo = << >>
    BY NoJobWellFormed, LifecycleConstants
  <2> QED
    BY <2>1 DEF Init, OnItsWay, At, GivesUp
<1>2. IInv /\ OnItsWay /\ [Next]_vars => OnItsWay'
  BY NextOnItsWay, LifecycleConstants
<1> QED
  BY <1>1, <1>2, Invariance, PTL DEF Spec

\* Once the handlers of a paid order are over it has left PENDING_PAYMENT, where
\* no statement of theirs fails: nobody has to notice it by hand.
THEOREM PaidAdvances ==
    ASSUME MayFail = FALSE
    PROVE  Spec => []PaidOrderAdvances
<1>1. OnItsWay => PaidOrderAdvances
  BY DEF OnItsWay, PaidOrderAdvances, Quiet
<1> QED
  BY <1>1, NothingIsStranded, PTL

\* An order that was cancelled or returned has given its unit back, once its
\* handlers are over and where no statement of theirs fails.
THEOREM EndedReturnsStock ==
    ASSUME MayFail = FALSE
    PROVE  Spec => []EndedOrderReturnsStock
<1>1. OnItsWay => EndedOrderReturnsStock
  BY DEF OnItsWay, EndedOrderReturnsStock, Quiet, GivesUp
<1> QED
  BY <1>1, NothingIsStranded, PTL

-----------------------------------------------------------------------------
(* How an order ends.                                                      *)

LEMMA AmongJoined ==
    ASSUME NEW s \in Seq(Statements), NEW t \in Seq(Statements)
    PROVE  Among(s \o t) = Among(s) \cup Among(t) /\ s \o t \in Seq(Statements)
<1> DEFINE u == s \o t
<1>1. /\ u \in Seq(Statements) /\ Len(u) = Len(s) + Len(t)
      /\ Len(s) \in Nat /\ Len(t) \in Nat
      /\ \A i \in 1 .. Len(s) : u[i] = s[i]
      /\ \A i \in 1 .. Len(t) : u[Len(s) + i] = t[i]
  OBVIOUS
<1>2. \A i \in 1 .. Len(u) : u[i] \in Among(s) \cup Among(t)
  <2> TAKE i \in 1 .. Len(u)
  <2>1. CASE i <= Len(s)
    BY <1>1, <2>1 DEF Among
  <2>2. CASE i > Len(s)
    <3>1. i - Len(s) \in 1 .. Len(t) /\ Len(s) + (i - Len(s)) = i
      BY <1>1, <2>2
    <3>2. u[i] = t[i - Len(s)]
      BY <1>1, <3>1
    <3> QED
      BY <3>1, <3>2 DEF Among
  <2> QED
    BY <1>1, <2>1, <2>2
<1>3. \A i \in 1 .. Len(s) : s[i] \in Among(u)
  <2> TAKE i \in 1 .. Len(s)
  <2>1. i \in 1 .. Len(u) /\ u[i] = s[i]
    BY <1>1
  <2> QED
    BY <2>1 DEF Among
<1>4. \A i \in 1 .. Len(t) : t[i] \in Among(u)
  <2> TAKE i \in 1 .. Len(t)
  <2>1. Len(s) + i \in 1 .. Len(u) /\ u[Len(s) + i] = t[i]
    BY <1>1
  <2> QED
    BY <2>1 DEF Among
<1> QED
  BY <1>1, <1>2, <1>3, <1>4 DEF Among

LEMMA AmongShort ==
    ASSUME NEW a \in Statements, NEW b \in Statements
    PROVE  /\ Among(<< a >>) = {a} /\ << a >> \in Seq(Statements)
           /\ Among(<< a, b >>) = {a, b} /\ << a, b >> \in Seq(Statements)
           /\ Among(<< >>) = {} /\ << >> \in Seq(Statements)
<1>1. << a >> \in Seq(Statements) /\ << a, b >> \in Seq(Statements) /\ << >> \in Seq(Statements)
  OBVIOUS
<1>2. Among(<< a >>) = {a} /\ Among(<< >>) = {}
  BY DEF Among
<1>3. Among(<< a, b >>) = {a, b}
  BY DEF Among
<1> QED
  BY <1>1, <1>2, <1>3

LEMMA AmongThree ==
    ASSUME NEW a \in Statements, NEW b \in Statements, NEW c \in Statements
    PROVE  Among(<< a, b, c >>) = {a, b, c} /\ << a, b, c >> \in Seq(Statements)
<1>1. << a, b, c >> \in Seq(Statements)
  OBVIOUS
<1>2. Among(<< a, b, c >>) = {a, b, c}
  BY DEF Among
<1> QED
  BY <1>1, <1>2

LEMMA AmongLists ==
    /\ ReturnStock \in Seq(Statements) /\ Among(ReturnStock) = Restoring
    /\ Fail \in Seq(Statements) /\ Among(Fail) = Failing
    /\ Pay \in Seq(Statements) /\ Among(Pay) = Paying
    /\ Recall \in Seq(Statements) /\ Among(Recall) = Recalling
<1>0. {"claimRestore", "restock", "failPayment", "cancelUnpaid", "claimPaid", "commitStock",
       "confirm", "recall", "recallOrder"} \subseteq Statements
  BY DEF Statements
<1>1. ReturnStock \in Seq(Statements) /\ Among(ReturnStock) = Restoring
  <2>1. "claimRestore" \in Statements /\ "restock" \in Statements
    BY <1>0
  <2>2. /\ << "claimRestore", "restock" >> \in Seq(Statements)
        /\ Among(<< "claimRestore", "restock" >>) = {"claimRestore", "restock"}
    BY <2>1, AmongShort
  <2> QED
    BY <2>2 DEF ReturnStock, Restoring
<1>2. /\ << "failPayment", "cancelUnpaid" >> \in Seq(Statements)
      /\ Among(<< "failPayment", "cancelUnpaid" >>) = {"failPayment", "cancelUnpaid"}
  <2>1. "failPayment" \in Statements /\ "cancelUnpaid" \in Statements
    BY <1>0
  <2> QED
    BY <2>1, AmongShort
<1>3. Fail \in Seq(Statements) /\ Among(Fail) = Failing
  BY <1>1, <1>2, AmongJoined DEF Fail, Failing
<1>4. Pay \in Seq(Statements) /\ Among(Pay) = Paying
  <2>1. "claimPaid" \in Statements /\ "commitStock" \in Statements /\ "confirm" \in Statements
    BY <1>0
  <2>2. /\ << "claimPaid", "commitStock", "confirm" >> \in Seq(Statements)
        /\ Among(<< "claimPaid", "commitStock", "confirm" >>)
             = {"claimPaid", "commitStock", "confirm"}
    BY <2>1, AmongThree
  <2> QED
    BY <2>2 DEF Pay, Paying
<1>5. Recall \in Seq(Statements) /\ Among(Recall) = Recalling
  <2>1. "recall" \in Statements /\ "recallOrder" \in Statements
    BY <1>0
  <2>2. /\ << "recall", "recallOrder" >> \in Seq(Statements)
        /\ Among(<< "recall", "recallOrder" >>) = {"recall", "recallOrder"}
    BY <2>1, AmongShort
  <2> QED
    BY <2>2 DEF Recall, Recalling
<1> QED
  BY <1>1, <1>3, <1>4, <1>5

\* The statement at the head is among those left.
LEMMA HeadLeft ==
    ASSUME NEW w \in Workers, Ready(w), NEW s, At(w, s)
    PROVE  s \in Left(w)
  BY AtHead DEF Left, Among

-----------------------------------------------------------------------------
(* Going on.                                                               *)

\* w goes on with what was left: no decision follows another statement, and a
\* payment claim is passed by itself alone.
Onward(w) ==
    /\ \A v \in Workers \ {w} : job'[v] = job[v]
    /\ \/ job'[w] = NoJob
       \/ /\ job'[w].order = job[w].order
          /\ Left(w)' \subseteq Left(w) \ {"setIfSame"} /\ job'[w].todo \in Seq(Statements)
          /\ Claimed(job'[w].todo) => Claimed(job[w].todo) \/ At(w, "claimPaid")

LEMMA RestOnward ==
    ASSUME LifecycleConstants, IInv, ReadOpen, NEW w \in Workers, NEW s, At(w, s),
           NEW m \in Nat \ {0}, NEW j, Rest(j, job[w], m), GoOn(w, j),
           \A i \in 1 .. m : job[w].todo[i] = "claimPaid" => s = "claimPaid"
    PROVE  Onward(w)
<1>1. Ready(w) /\ job \in [Workers -> Jobs]
  BY DEF IInv, Types
<1>2. WellFormed(job[w]) /\ job[w].todo \in Seq(Statements)
  BY <1>1, AtHead
<1>3. \A v \in Workers \ {w} : job'[v] = job[v]
  BY <1>1, <1>2, WentOn
<1>4. j.todo \in Seq(Statements) /\ Len(j.todo) + m = Len(job[w].todo)
      /\ \A i \in 1 .. Len(j.todo) : j.todo[i] = job[w].todo[i + m]
  BY DEF Rest, Drops
<1>5. CASE j.todo = << >>
  BY <1>1, <1>3, <1>5 DEF GoOn, Onward
<1>6. CASE j.todo # << >>
  <2>1. job'[w] = j
    BY <1>1, <1>6 DEF GoOn
  <2>2. Among(j.todo) \subseteq Among(job[w].todo) \ {"setIfSame"}
    <3>1. \A i \in 1 .. Len(j.todo) : i + m \in 1 .. Len(job[w].todo) /\ i + m # 1
      BY <1>2, <1>4
    <3>2. \A i \in 1 .. Len(j.todo) : job[w].todo[i + m] # "setIfSame"
      BY <3>1 DEF ReadOpen, Decides
    <3>3. \A i \in 1 .. Len(j.todo) : j.todo[i] \in Among(job[w].todo) \ {"setIfSame"}
      <4> TAKE i \in 1 .. Len(j.todo)
      <4>1. j.todo[i] = job[w].todo[i + m] /\ i + m \in 1 .. Len(job[w].todo)
        BY <1>4, <3>1
      <4> QED
        BY <3>2, <4>1 DEF Among
    <3> QED
      BY <3>3 DEF Among
  <2>3. Claimed(j.todo) => Claimed(job[w].todo) \/ s = "claimPaid"
    <3> SUFFICES ASSUME Claimed(j.todo), s # "claimPaid"
                 PROVE  Claimed(job[w].todo)
      OBVIOUS
    <3>1. PICK i \in 1 .. Len(j.todo) : /\ j.todo[i] \in {"commitStock", "confirm"}
                                       /\ \A k \in 1 .. i - 1 : j.todo[k] # "claimPaid"
      BY DEF Claimed
    <3>2. i + m \in 1 .. Len(job[w].todo) /\ job[w].todo[i + m] = j.todo[i]
      BY <1>2, <1>4
    <3>3. ASSUME NEW k \in 1 .. (i + m) - 1  PROVE job[w].todo[k] # "claimPaid"
      <4>1. CASE k \in 1 .. m
        BY <4>1
      <4>2. CASE k \notin 1 .. m
        <5>1. k - m \in 1 .. i - 1 /\ k - m \in 1 .. Len(j.todo) /\ (k - m) + m = k
          BY <1>4, <4>2
        <5> QED
          BY <1>4, <3>1, <5>1
      <4> QED
        BY <4>1, <4>2
    <3> QED
      BY <3>1, <3>2, <3>3 DEF Claimed
  <2>4. Left(w) = Among(job[w].todo) /\ Left(w)' = Among(j.todo)
    BY <2>1 DEF Left
  <2> QED
    BY <1>3, <1>4, <2>1, <2>2, <2>3, <2>4 DEF Onward, Rest
<1> QED
  BY <1>5, <1>6

LEMMA NextOnward ==
    ASSUME LifecycleConstants, IInv, ReadOpen, NEW w \in Workers, NEW s, At(w, s),
           GoOn(w, Next1(w))
    PROVE  Onward(w)
<1>1. Ready(w) /\ job \in [Workers -> Jobs]
  BY DEF IInv, Types
<1>2. job[w].todo # << >> /\ job[w].todo[1] = s /\ job[w] \in Jobs
  BY <1>1, AtHead
<1>3. Rest(Next1(w), job[w], 1)
  BY <1>1, <1>2, NextRest
<1>4. \A i \in 1 .. 1 : i = 1
  OBVIOUS
<1> QED
  BY <1>2, <1>3, <1>4, RestOnward

\* The branch not taken is one statement, n.
LEMMA SkipOnward ==
    ASSUME LifecycleConstants, IInv, ReadOpen, NEW w \in Workers, NEW s, At(w, s), NEW n,
           Before(job[w].todo, s, n), n # "claimPaid", GoOn(w, Skipping(w, 1))
    PROVE  Onward(w)
<1>1. Ready(w) /\ job \in [Workers -> Jobs]
  BY DEF IInv, Types
<1>2. /\ job[w].todo \in Seq(Statements) /\ Len(job[w].todo) > 0 /\ job[w].todo[1] = s
      /\ job[w] \in Jobs
  BY <1>1, AtHead
<1>3. 1 \in 1 .. Len(job[w].todo)
  BY <1>2
<1>4. 1 + 1 <= Len(job[w].todo) /\ job[w].todo[1 + 1] = n
  BY <1>2, <1>3 DEF Before
<1>5. Rest(Skipping(w, 1), job[w], 1 + 1) /\ 1 + 1 \in Nat \ {0}
  BY <1>1, <1>4, SkipRest
<1>6. \A i \in 1 .. (1 + 1) : job[w].todo[i] = "claimPaid" => s = "claimPaid"
  <2>1. \A i \in 1 .. (1 + 1) : i = 1 \/ i = 1 + 1
    OBVIOUS
  <2> QED
    BY <1>2, <1>4, <2>1
<1> QED
  BY <1>5, <1>6, RestOnward

LEMMA EndOnward ==
    ASSUME LifecycleConstants, IInv, NEW w \in Workers, GoOn(w, NoJob)
    PROVE  Onward(w)
<1>1. NoJob.todo = << >> /\ job \in [Workers -> Jobs]
  BY NoJobWellFormed DEF IInv, Types
<1> QED
  BY <1>1 DEF GoOn, Onward

-----------------------------------------------------------------------------
(* Steps that move no order.                                               *)

\* No order moves, no stock is claimed back, no payment is lost and no scan is
\* announced.
Settles ==
    /\ UNCHANGED << status, restored >>
    /\ \A o \in Orders : paymentStatus[o] \in Settled => paymentStatus'[o] \in Settled
    /\ \A e \in Event : events'[e] # "none" => events[e] # "none" \/ e.about \notin Scans

\* A list a handler may be given.
Fits(j) ==
    /\ Among(j.todo) \cap Following = {}
    /\ j.todo \in Seq(Statements) /\ Decides(j.todo)
    /\ "setIfSame" \in Among(j.todo) =>
          /\ j.seen \notin CLOSED
          /\ "setStatus" \notin Requests => j.verdict = "CANCELLED"
    /\ ~Claimed(j.todo)
    /\ AllCash =>
          /\ Among(j.todo) \cap Prepaying = {}
          /\ Among(j.todo) \cap Restoring # {} =>
                "setIfSame" \in Among(j.todo) /\ j.verdict \in CLOSED

LEMMA EmptyFits == Among(NoJob.todo) = {} /\ Fits(NoJob)
<1>1. NoJob.todo = << >>
  BY DEF NoJob
<1>2. Among(<< >>) = {} /\ << >> \in Seq(Statements) /\ Decides(<< >>)
      /\ ~Claimed(<< >>)
  BY DEF Among, Decides, Claimed
<1> QED
  BY <1>1, <1>2 DEF Fits

LEMMA LeftOrder ==
    ASSUME IInv, NEW w \in Workers, Left(w) # {}
    PROVE  job[w].order \in Orders
<1>1. WellFormed(job[w])
  BY DEF IInv, Ready
<1>2. job[w].todo # << >>
  BY DEF Left, Among
<1> QED
  BY <1>1, <1>2 DEF WellFormed, Equipped

LEMMA ClaimedOrder ==
    ASSUME IInv, NEW w \in Workers, Claimed(job[w].todo)
    PROVE  job[w].order \in Orders
<1>1. Left(w) # {}
  BY DEF Left, Among, Claimed
<1> QED
  BY <1>1, LeftOrder

\* What a step of a handler may do to the status of an order and its payment.
Moves(p) ==
    \/ /\ status'[p] = status[p]
       /\ paymentStatus[p] \in Settled => paymentStatus'[p] \in Settled
    \/ status'[p] = "CANCELLED"
    \/ /\ status[p] = "none"
       /\ status'[p] = IF Method[p] = "online" THEN "PENDING_PAYMENT" ELSE "PLACED"
    \/ /\ status[p] = "PENDING_PAYMENT" /\ status'[p] = "CONFIRMED"
       /\ paymentStatus'[p] = paymentStatus[p]
       /\ "setStatus" \notin Requests => paymentStatus[p] \in Settled

\* What is left after w has gone on.
LEMMA OnwardLists ==
    ASSUME LifecycleConstants, IInv, Closing, NEW w \in Workers, Onward(w),
           \A e \in Event : events'[e] # "none" => events[e] # "none"
    PROVE  /\ Unscanned' /\ ReadOpen' /\ ~At(w, "setIfSame")'
           /\ Left(w)' \subseteq Left(w)
           /\ Left(w)' # {} \/ Claimed(job'[w].todo) => job'[w].order = job[w].order
           /\ Claimed(job'[w].todo) => Claimed(job[w].todo) \/ At(w, "claimPaid")
           /\ \A v \in Workers \ {w} : /\ job'[v] = job[v] /\ Left(v)' = Left(v)
                                      /\ At(v, "setIfSame")' <=> At(v, "setIfSame")
<1>1. \/ Left(w)' = {} /\ job'[w].todo = << >> /\ ~Claimed(job'[w].todo)
      \/ /\ job'[w].order = job[w].order /\ job'[w].todo \in Seq(Statements)
         /\ Left(w)' \subseteq Left(w) \ {"setIfSame"}
         /\ Claimed(job'[w].todo) => Claimed(job[w].todo) \/ At(w, "claimPaid")
  <2>1. CASE job'[w] = NoJob
    BY <2>1, EmptyFits, NoJobWellFormed DEF Left, Fits
  <2>2. CASE job'[w] # NoJob
    BY <2>2 DEF Onward
  <2> QED
    BY <2>1, <2>2
<1>2. \A v \in Workers \ {w} : /\ job'[v] = job[v] /\ Left(v)' = Left(v)
                               /\ At(v, "setIfSame")' <=> At(v, "setIfSame")
  BY DEF Onward, Left, At
<1>3. ~At(w, "setIfSame")' /\ Decides(job'[w].todo) /\ Left(w)' \subseteq Left(w)
  <2>1. CASE job'[w].todo = << >> /\ Left(w)' = {}
    BY <2>1 DEF At, Decides
  <2>2. CASE job'[w].todo \in Seq(Statements) /\ Left(w)' \subseteq Left(w) \ {"setIfSame"}
    <3>1. \A i \in 1 .. Len(job'[w].todo) : job'[w].todo[i] # "setIfSame"
      BY <2>2 DEF Left, Among
    <3>2. job'[w].todo # << >> => /\ 1 \in 1 .. Len(job'[w].todo)
                                  /\ Head(job'[w].todo) = job'[w].todo[1]
      BY <2>2
    <3> QED
      BY <2>2, <3>1, <3>2 DEF At, Decides
  <2> QED
    BY <1>1, <2>1, <2>2
<1>4. Unscanned' /\ ReadOpen'
  <2>1. \A v \in Workers : Left(v)' \cap Following = {}
    BY <1>2, <1>3 DEF Closing, Unscanned
  <2>2. \A e \in Event : e.about \in Scans => events'[e] = "none"
    BY DEF Closing, Unscanned
  <2> QED
    BY <1>2, <1>3, <2>1, <2>2 DEF Unscanned, Closing, ReadOpen
<1> QED
  BY <1>1, <1>2, <1>3, <1>4

LEMMA OnwardKeeps ==
    ASSUME LifecycleConstants, IInv, Closing, NEW w \in Workers, Onward(w),
           ~At(w, "setIfSame"), \A p \in Orders : Moves(p), restored' \subseteq Orders,
           AllCash => \A p \in restored' \ restored : status[p] \in CLOSED,
           \A e \in Event : events'[e] # "none" => events[e] # "none",
           At(w, "claimPaid") => paymentStatus'[job[w].order] \in Settled
    PROVE  Closing'
<1>1. /\ ~At(w, "setIfSame")' /\ Left(w)' \subseteq Left(w)
      /\ Left(w)' # {} \/ Claimed(job'[w].todo) => job'[w].order = job[w].order
      /\ Claimed(job'[w].todo) => Claimed(job[w].todo) \/ At(w, "claimPaid")
  BY OnwardLists
<1>2. \A v \in Workers \ {w} : /\ job'[v] = job[v] /\ Left(v)' = Left(v)
                               /\ At(v, "setIfSame")' <=> At(v, "setIfSame")
  BY DEF Onward, Left, At
<1>4. \A v \in Workers : Left(v) # {} \/ Claimed(job[v].todo) => job[v].order \in Orders
  BY LeftOrder, ClaimedOrder
<1>5. Unscanned' /\ ReadOpen'
  BY OnwardLists
<1>6. Inserted /\ \A p \in Orders : Method[p] \in {"online", "cod"}
  BY DEF IInv, LifecycleConstants
<1>7. \A p \in Orders : status[p] = "none" => paymentStatus[p] \notin Settled /\ p \notin restored
  BY <1>6 DEF Inserted, Settled, IInv, Types
<1>8. ASSUME "setStatus" \notin Requests  PROVE Ungraded'
  <2>1. Ungraded
    BY <1>8 DEF Closing
  <2>2. \A v \in Workers : At(v, "setIfSame")' => job'[v].verdict = "CANCELLED"
    BY <1>1, <1>2, <2>1 DEF Ungraded
  <2>3. ASSUME NEW p \in Orders, paymentStatus[p] \in Settled \/ status[p] = "CANCELLED"
        PROVE  paymentStatus'[p] \in Settled \/ status'[p] = "CANCELLED"
    BY <1>7, <2>3 DEF Moves
  <2>4. ASSUME NEW v \in Workers, Claimed(job'[v].todo)
        PROVE  paymentStatus'[job'[v].order] \in Settled \/ status'[job'[v].order] = "CANCELLED"
    <3>1. CASE v = w
      <4>1. /\ job'[w].order = job[w].order
            /\ Claimed(job[w].todo) \/ At(w, "claimPaid")
        BY <1>1, <2>4, <3>1
      <4>2. CASE At(w, "claimPaid")
        BY <3>1, <4>1, <4>2
      <4>3. CASE ~At(w, "claimPaid")
        <5>1. paymentStatus[job[w].order] \in Settled \/ status[job[w].order] = "CANCELLED"
          BY <2>1, <4>1, <4>3 DEF Ungraded
        <5>2. job[w].order \in Orders
          BY <1>4, <4>1, <4>3
        <5> QED
          BY <2>3, <3>1, <4>1, <5>1, <5>2
      <4> QED
        BY <4>2, <4>3
    <3>2. CASE v # w
      <4>1. job'[v] = job[v] /\ Left(v)' = Left(v)
        BY <1>2, <3>2
      <4>2. paymentStatus[job[v].order] \in Settled \/ status[job[v].order] = "CANCELLED"
        BY <2>1, <2>4, <4>1 DEF Ungraded
      <4>3. job[v].order \in Orders
        BY <1>4, <2>4, <4>1
      <4> QED
        BY <2>3, <4>1, <4>2, <4>3
    <3> QED
      BY <3>1, <3>2
  <2>5. ASSUME NEW p \in Orders
        PROVE  /\ status'[p] \in {"none", "PENDING_PAYMENT", "PLACED", "CONFIRMED", "CANCELLED"}
               /\ Method[p] = "online" /\ paymentStatus'[p] \notin Settled =>
                     status'[p] \in {"none", "PENDING_PAYMENT", "CANCELLED"}
    <3>1. /\ status[p] \in {"none", "PENDING_PAYMENT", "PLACED", "CONFIRMED", "CANCELLED"}
          /\ Method[p] = "online" /\ paymentStatus[p] \notin Settled =>
                     status[p] \in {"none", "PENDING_PAYMENT", "CANCELLED"}
      BY <2>1 DEF Ungraded, UnpaidNeverFulfilled
    <3>2. Moves(p)
      OBVIOUS
    <3> QED
      BY <1>8, <3>1, <3>2 DEF Moves
  <2> QED
    BY <2>2, <2>4, <2>5 DEF Ungraded, UnpaidNeverFulfilled
<1>9. ASSUME AllCash  PROVE CashOnly'
  <2>1. CashOnly
    BY <1>9 DEF Closing
  <2>2. \A p \in Orders : status[p] \in CLOSED => status'[p] \in CLOSED
    BY DEF Moves, CLOSED
  <2>3. \A v \in Workers : Left(v)' \cap Prepaying = {}
    BY <1>1, <1>2, <2>1 DEF CashOnly
  <2>4. \A p \in restored' : status'[p] \in CLOSED
    BY <1>9, <2>1, <2>2 DEF CashOnly
  <2>5. ASSUME NEW v \in Workers, Left(v)' \cap Restoring # {}
        PROVE  \/ status'[job'[v].order] \in CLOSED
               \/ At(v, "setIfSame")' /\ job'[v].verdict \in CLOSED
    <3>1. job'[v].order = job[v].order /\ Left(v) \cap Restoring # {}
      BY <1>1, <1>2, <2>5
    <3>2. job[v].order \in Orders
      BY <1>4, <3>1
    <3>3. CASE v = w
      BY <2>1, <2>2, <3>1, <3>2, <3>3 DEF CashOnly
    <3>4. CASE v # w
      BY <1>2, <2>1, <2>2, <3>1, <3>2, <3>4 DEF CashOnly
    <3> QED
      BY <3>3, <3>4
  <2> QED
    BY <2>3, <2>4, <2>5 DEF CashOnly
<1> QED
  BY <1>5, <1>8, <1>9 DEF Closing, AllCash

\* A handler that is given a list that fits, or none.
LEMMA GivenKeeps ==
    ASSUME LifecycleConstants, IInv, Closing, NEW w \in Workers, NEW j, Fits(j),
           job' = [job EXCEPT ![w] = j], Settles
    PROVE  Closing'
<1>0. job \in [Workers -> Jobs]
  BY DEF IInv, Types
<1>1. /\ job'[w] = j /\ Left(w)' = Among(j.todo)
      /\ At(w, "setIfSame")' <=> "setIfSame" \in Among(j.todo)
  <2>1. job'[w] = j
    BY <1>0
  <2>2. j.todo \in Seq(Statements) /\ Decides(j.todo)
    BY DEF Fits
  <2>3. j.todo # << >> /\ Head(j.todo) = "setIfSame" <=> "setIfSame" \in Among(j.todo)
    BY <2>2 DEF Among, Decides
  <2> QED
    BY <2>1, <2>3 DEF Left, At
<1>2. \A v \in Workers \ {w} : /\ job'[v] = job[v] /\ Left(v)' = Left(v)
                               /\ At(v, "setIfSame")' <=> At(v, "setIfSame")
  BY <1>0 DEF Left, At
<1>3. Unscanned'
  <2>1. \A v \in Workers : Left(v)' \cap Following = {}
    BY <1>1, <1>2 DEF Closing, Unscanned, Fits
  <2>2. \A e \in Event : e.about \in Scans => events'[e] = "none"
    BY DEF Closing, Unscanned, Settles
  <2> QED
    BY <2>1, <2>2 DEF Unscanned
<1>4. ReadOpen'
  BY <1>1, <1>2 DEF Closing, ReadOpen, Fits
<1>5. ASSUME "setStatus" \notin Requests  PROVE Ungraded'
  <2>1. Ungraded
    BY <1>5 DEF Closing
  <2>2. \A v \in Workers : At(v, "setIfSame")' => job'[v].verdict = "CANCELLED"
    BY <1>1, <1>2, <1>5, <2>1 DEF Ungraded, Fits
  <2>3. ASSUME NEW v \in Workers, Claimed(job'[v].todo)
        PROVE  paymentStatus'[job'[v].order] \in Settled \/ status'[job'[v].order] = "CANCELLED"
    <3>1. v # w
      BY <1>1, <2>3 DEF Fits
    <3>2. job'[v] = job[v] /\ Left(v)' = Left(v)
      BY <1>2, <3>1
    <3>3. paymentStatus[job[v].order] \in Settled \/ status[job[v].order] = "CANCELLED"
      BY <2>1, <2>3, <3>2 DEF Ungraded
    <3>4. job[v].order \in Orders
      BY <2>3, <3>2, ClaimedOrder
    <3> QED
      BY <3>2, <3>3, <3>4 DEF Settles
  <2>4. UnpaidNeverFulfilled'
    BY <2>1 DEF Ungraded, UnpaidNeverFulfilled, Settles
  <2> QED
    BY <2>1, <2>2, <2>3, <2>4 DEF Ungraded, Settles
<1>6. ASSUME AllCash  PROVE CashOnly'
  <2>1. /\ CashOnly /\ Among(j.todo) \cap Prepaying = {}
        /\ Among(j.todo) \cap Restoring # {} =>
                "setIfSame" \in Among(j.todo) /\ j.verdict \in CLOSED
    BY <1>6 DEF Closing, Fits
  <2> QED
    BY <1>1, <1>2, <2>1 DEF CashOnly, Settles
<1> QED
  BY <1>3, <1>4, <1>5, <1>6 DEF Closing, AllCash

\* Nobody goes on.
LEMMA NobodyKeeps ==
    ASSUME LifecycleConstants, IInv, Closing, Settles, UNCHANGED job
    PROVE  Closing'
<1>1. ASSUME NEW v \in Workers
      PROVE  /\ Left(v)' = Left(v) /\ job'[v] = job[v]
             /\ At(v, "setIfSame")' <=> At(v, "setIfSame")
  BY DEF Left, At
<1>2. UNCHANGED << status, restored >>
  BY DEF Settles
<1>3. Unscanned'
  <2>1. \A v \in Workers : Left(v)' \cap Following = {}
    BY <1>1 DEF Closing, Unscanned
  <2>2. \A e \in Event : e.about \in Scans => events'[e] = "none"
    BY DEF Closing, Unscanned, Settles
  <2> QED
    BY <2>1, <2>2 DEF Unscanned
<1>4. ReadOpen'
  <2>1. ASSUME NEW v \in Workers
        PROVE  Decides(job'[v].todo) /\ (At(v, "setIfSame")' => job'[v].seen \notin CLOSED)
    BY <1>1 DEF Closing, ReadOpen
  <2> QED
    BY <2>1 DEF ReadOpen
<1>5. ASSUME "setStatus" \notin Requests  PROVE Ungraded'
  <2>1. Ungraded
    BY <1>5 DEF Closing
  <2>2. UnpaidNeverFulfilled'
    BY <2>1 DEF Ungraded, UnpaidNeverFulfilled, Settles
  <2>3. ASSUME NEW v \in Workers
        PROVE  At(v, "setIfSame")' => job'[v].verdict = "CANCELLED"
    BY <1>1, <2>1 DEF Ungraded
  <2>4. ASSUME NEW v \in Workers, Claimed(job'[v].todo)
        PROVE  paymentStatus'[job'[v].order] \in Settled \/ status'[job'[v].order] = "CANCELLED"
    <3>1. job'[v] = job[v] /\ Left(v)' = Left(v)
      BY <1>1
    <3>2. paymentStatus[job[v].order] \in Settled \/ status[job[v].order] = "CANCELLED"
      BY <2>1, <2>4, <3>1 DEF Ungraded
    <3>3. job[v].order \in Orders
      BY <2>4, <3>1, ClaimedOrder
    <3> QED
      BY <3>1, <3>2, <3>3 DEF Settles
  <2> QED
    BY <1>2, <2>1, <2>2, <2>3, <2>4 DEF Ungraded
<1>6. ASSUME AllCash  PROVE CashOnly'
  <2>1. CashOnly
    BY <1>6 DEF Closing
  <2>2. ASSUME NEW v \in Workers  PROVE Left(v)' \cap Prepaying = {}
    BY <1>1, <2>1 DEF CashOnly
  <2>3. ASSUME NEW v \in Workers, Left(v)' \cap Restoring # {}
        PROVE  \/ status'[job'[v].order] \in CLOSED
               \/ At(v, "setIfSame")' /\ job'[v].verdict \in CLOSED
    BY <1>1, <1>2, <2>1, <2>3 DEF CashOnly
  <2> QED
    BY <1>2, <2>1, <2>2, <2>3 DEF CashOnly
<1> QED
  BY <1>3, <1>4, <1>5, <1>6 DEF Closing, AllCash

\* The process dies.
LEMMA CrashKeeps ==
    ASSUME LifecycleConstants, IInv, Closing, Crash
    PROVE  Closing'
<1>0. job' = [w \in Workers |-> NoJob] /\ Settles
  BY DEF Crash, Settles, orderVars, eventVars
<1>1. ASSUME NEW v \in Workers
      PROVE  /\ Left(v)' = {} /\ ~At(v, "setIfSame")' /\ Decides(job'[v].todo)
             /\ ~Claimed(job'[v].todo)
  <2>1. job'[v] = NoJob
    BY <1>0
  <2>2. NoJob.todo = << >> /\ Among(NoJob.todo) = {} /\ Decides(NoJob.todo) /\ ~Claimed(NoJob.todo)
    BY EmptyFits, NoJobWellFormed DEF Fits
  <2> QED
    BY <2>1, <2>2 DEF Left, At
<1>2. UNCHANGED << status, restored, paymentStatus, events >>
  BY DEF Crash, orderVars, eventVars
<1>3. Unscanned'
  BY <1>1, <1>2 DEF Closing, Unscanned
<1>4. ReadOpen'
  BY <1>1 DEF ReadOpen
<1>5. ASSUME "setStatus" \notin Requests  PROVE Ungraded'
  <2>1. Ungraded
    BY <1>5 DEF Closing
  <2> QED
    BY <1>1, <1>2, <2>1 DEF Ungraded, UnpaidNeverFulfilled
<1>6. ASSUME AllCash  PROVE CashOnly'
  BY <1>1, <1>2, <1>6 DEF Closing, CashOnly
<1> QED
  BY <1>3, <1>4, <1>5, <1>6 DEF Closing, AllCash
-----------------------------------------------------------------------------
(* The statements.                                                         *)

\* A statement that moves no order.
LEMMA PlainKeeps ==
    ASSUME LifecycleConstants, IInv, Closing, NEW w \in Workers, NEW s, At(w, s),
           s \notin {"setIfSame", "claimPaid"},
           GoOn(w, Next1(w)) \/ GoOn(w, NoJob), Settles,
           \A e \in Event : events'[e] # "none" => events[e] # "none"
    PROVE  Closing'
<1>1. ReadOpen /\ Ready(w)
  BY DEF Closing, IInv
<1>2. Onward(w)
  BY <1>1, NextOnward, EndOnward
<1>3. ~At(w, "setIfSame") /\ ~At(w, "claimPaid")
  BY <1>1, AtHead
<1>4. \A p \in Orders : Moves(p)
  BY DEF Moves, Settles
<1>5. restored' \subseteq Orders /\ restored' \ restored = {}
  BY DEF Settles, IInv, Types
<1> QED
  BY <1>2, <1>3, <1>4, <1>5, OnwardKeeps

\* The same, one statement being skipped.
LEMMA PlainSkips ==
    ASSUME LifecycleConstants, IInv, Closing, NEW w \in Workers, NEW s, At(w, s),
           s \notin {"setIfSame", "claimPaid"}, NEW n, n # "claimPaid",
           Before(job[w].todo, s, n), GoOn(w, Skipping(w, 1)), Settles,
           \A e \in Event : events'[e] # "none" => events[e] # "none"
    PROVE  Closing'
<1>1. ReadOpen /\ Ready(w)
  BY DEF Closing, IInv
<1>2. Onward(w)
  BY <1>1, SkipOnward
<1>3. ~At(w, "setIfSame") /\ ~At(w, "claimPaid")
  BY <1>1, AtHead
<1>4. \A p \in Orders : Moves(p)
  BY DEF Moves, Settles
<1>5. restored' \subseteq Orders /\ restored' \ restored = {}
  BY DEF Settles, IInv, Types
<1> QED
  BY <1>2, <1>3, <1>4, <1>5, OnwardKeeps

\* No statement of applyShippingStatus is ever executed.
LEMMA NotFollowing ==
    ASSUME IInv, Unscanned, NEW w \in Workers, NEW s \in Following
    PROVE  ~At(w, s)
  BY HeadLeft DEF IInv, Unscanned

LEMMA QuietStatements ==
    ASSUME LifecycleConstants, IInv, Closing, NEW w \in Workers,
           \/ Deduct(w) \/ RecordPayment(w) \/ InsertAttempt(w) \/ CommitStock(w)
           \/ FailPayment(w) \/ Restock(w) \/ RefundIfPaid(w) \/ RecallShipment(w)
           \/ RecallOrder(w) \/ OpenShipment(w) \/ AssignAwb(w) \/ NoteAwb(w) \/ Finish(w)
    PROVE  Closing'
<1>1. Ready(w) /\ Types
  BY DEF IInv
<1>2. CASE Deduct(w)
  <2>1. At(w, "deduct") /\ (GoOn(w, Next1(w)) \/ GoOn(w, NoJob))
    BY <1>2 DEF Deduct
  <2>2. UNCHANGED << status, restored, paymentStatus, events >>
    BY <1>2 DEF Deduct, orderVars, eventVars
  <2> QED
    BY <2>1, <2>2, PlainKeeps DEF Settles
<1>3. CASE RecordPayment(w)
  <2>1. At(w, "recordPayment") /\ GoOn(w, Next1(w))
    BY <1>3 DEF RecordPayment
  <2>2. UNCHANGED << status, restored, paymentStatus, events >>
    BY <1>3 DEF RecordPayment, orderVars, stockVars, eventVars
  <2> QED
    BY <2>1, <2>2, PlainKeeps DEF Settles
<1>4. CASE InsertAttempt(w)
  <2>1. At(w, "insertAttempt") /\ GoOn(w, Next1(w))
    BY <1>4 DEF InsertAttempt
  <2>2. UNCHANGED << status, restored, paymentStatus, events >>
    BY <1>4 DEF InsertAttempt, orderVars, stockVars, eventVars
  <2> QED
    BY <2>1, <2>2, PlainKeeps DEF Settles
<1>5. CASE CommitStock(w)
  <2>1. At(w, "commitStock") /\ GoOn(w, Next1(w))
    BY <1>5 DEF CommitStock
  <2>2. UNCHANGED << status, restored, paymentStatus, events >>
    BY <1>5 DEF CommitStock, orderVars, eventVars
  <2> QED
    BY <2>1, <2>2, PlainKeeps DEF Settles
<1>6. CASE FailPayment(w)
  <2>1. At(w, "failPayment") /\ (GoOn(w, Next1(w)) \/ GoOn(w, Skipping(w, 1)))
    BY <1>6 DEF FailPayment
  <2>2. UNCHANGED << status, restored, events >>
    BY <1>6 DEF FailPayment, stockVars, eventVars
  <2>3. \A p \in Orders : paymentStatus[p] \in Settled => paymentStatus'[p] \in Settled
    <3>1. \/ paymentStatus' = paymentStatus
          \/ /\ paymentStatus[job[w].order] \notin Settled
             /\ paymentStatus' = [paymentStatus EXCEPT ![job[w].order] = job[w].verdict]
      BY <1>6 DEF FailPayment
    <3>2. \A p \in Orders : p = job[w].order \/ paymentStatus'[p] = paymentStatus[p]
      BY <1>1, <3>1 DEF Types
    <3> QED
      BY <3>1, <3>2
  <2>4. Before(job[w].todo, "failPayment", "cancelUnpaid")
    BY <1>1 DEF Ready, WellFormed, InOrder
  <2>5. Settles
    BY <2>2, <2>3 DEF Settles
  <2>6. CASE GoOn(w, Next1(w))
    BY <2>1, <2>2, <2>5, <2>6, PlainKeeps
  <2>7. CASE GoOn(w, Skipping(w, 1))
    BY <2>1, <2>2, <2>4, <2>5, <2>7, PlainSkips
  <2> QED
    BY <2>1, <2>6, <2>7
<1>7. CASE Restock(w)
  <2>1. At(w, "restock") /\ GoOn(w, Next1(w))
    BY <1>7 DEF Restock
  <2>2. UNCHANGED << status, restored, paymentStatus, events >>
    BY <1>7 DEF Restock, orderVars, eventVars
  <2> QED
    BY <2>1, <2>2, PlainKeeps DEF Settles
<1>8. CASE RefundIfPaid(w)
  <2>1. At(w, "refundIfPaid") /\ GoOn(w, Next1(w))
    BY <1>8 DEF RefundIfPaid
  <2>2. UNCHANGED << status, restored, events >>
    BY <1>8 DEF RefundIfPaid, stockVars, eventVars
  <2>3. \A p \in Orders : paymentStatus[p] \in Settled => paymentStatus'[p] \in Settled
    BY <1>1, <1>8 DEF RefundIfPaid, GiveBack, Settled, Types
  <2> QED
    BY <2>1, <2>2, <2>3, PlainKeeps DEF Settles
<1>9. CASE RecallShipment(w)
  <2>1. At(w, "recall") /\ (GoOn(w, Next1(w)) \/ GoOn(w, Skipping(w, 1)))
    BY <1>9 DEF RecallShipment
  <2>2. UNCHANGED << status, restored, paymentStatus, events >>
    BY <1>9 DEF RecallShipment, orderVars, stockVars, eventVars
  <2>3. Before(job[w].todo, "recall", "recallOrder")
    BY <1>1 DEF Ready, WellFormed, InOrder
  <2>4. Settles
    BY <2>2 DEF Settles
  <2>5. CASE GoOn(w, Next1(w))
    BY <2>1, <2>2, <2>4, <2>5, PlainKeeps
  <2>6. CASE GoOn(w, Skipping(w, 1))
    BY <2>1, <2>2, <2>3, <2>4, <2>6, PlainSkips
  <2> QED
    BY <2>1, <2>5, <2>6
<1>10. CASE RecallOrder(w)
  <2>1. At(w, "recallOrder") /\ GoOn(w, Next1(w))
    BY <1>10 DEF RecallOrder
  <2>2. UNCHANGED << status, restored, paymentStatus, events >>
    BY <1>10 DEF RecallOrder, stockVars, eventVars
  <2> QED
    BY <2>1, <2>2, PlainKeeps DEF Settles
<1>11. CASE OpenShipment(w)
  <2>1. At(w, "openShipment") /\ (GoOn(w, Next1(w)) \/ GoOn(w, NoJob))
    BY <1>11 DEF OpenShipment
  <2>2. UNCHANGED << status, restored, paymentStatus, events >>
    BY <1>11 DEF OpenShipment, orderVars, stockVars, eventVars
  <2> QED
    BY <2>1, <2>2, PlainKeeps DEF Settles
<1>12. CASE AssignAwb(w)
  <2>1. At(w, "assignAwb") /\ (GoOn(w, Next1(w)) \/ GoOn(w, NoJob))
    BY <1>12 DEF AssignAwb
  <2>2. UNCHANGED << status, restored, paymentStatus, events >>
    BY <1>12 DEF AssignAwb, orderVars, stockVars, eventVars
  <2> QED
    BY <2>1, <2>2, PlainKeeps DEF Settles
<1>13. CASE NoteAwb(w)
  <2>1. At(w, "noteAwb") /\ GoOn(w, Next1(w))
    BY <1>13 DEF NoteAwb
  <2>2. UNCHANGED << status, restored, paymentStatus, events >>
    BY <1>13 DEF NoteAwb, stockVars, eventVars
  <2> QED
    BY <2>1, <2>2, PlainKeeps DEF Settles
<1>14. CASE Finish(w)
  <2>1. At(w, "finish") /\ GoOn(w, Next1(w))
    BY <1>14 DEF Finish
  <2>2. UNCHANGED << status, restored, paymentStatus >>
    BY <1>14 DEF Finish, orderVars, stockVars
  <2>3. job[w].event \in Event
    BY <1>1, <2>1, HeadEquipped
  <2>4. events[job[w].event] # "none"
    BY <1>1, <2>3, LifecycleConstants DEF Ready, LifecycleConstants
  <2>5. \A e \in Event : events'[e] # "none" => events[e] # "none"
    BY <1>1, <1>14, <2>3, <2>4 DEF Finish, Types
  <2> QED
    BY <2>1, <2>2, <2>5, PlainKeeps DEF Settles
<1> QED
  BY <1>2, <1>3, <1>4, <1>5, <1>6, <1>7, <1>8, <1>9, <1>10, <1>11, <1>12, <1>13, <1>14

-----------------------------------------------------------------------------
(* The statements that write a status, or claim stock back.                *)

LEMMA RestoredStays ==
    ASSUME IInv, UNCHANGED restored
    PROVE  restored' \subseteq Orders /\ restored' \ restored = {}
  BY DEF IInv, Types

LEMMA InsertOrderKeeps ==
    ASSUME LifecycleConstants, IInv, Closing, NEW w \in Workers, InsertOrder(w)
    PROVE  Closing'
<1> DEFINE o == job[w].order
<1>1. At(w, "insertOrder") /\ Ready(w) /\ Types /\ ReadOpen /\ GoOn(w, Next1(w))
  BY DEF InsertOrder, IInv, Closing
<1>2. Onward(w) /\ ~At(w, "setIfSame") /\ ~At(w, "claimPaid")
  BY <1>1, NextOnward, AtHead
<1>3. o \in Orders /\ status[o] = "none"
  BY <1>1, AtHead DEF Ready
<1>4. UNCHANGED << restored, events >>
  BY DEF InsertOrder, eventVars
<1>5. Moves(o)
  BY <1>1, <1>3 DEF InsertOrder, Moves, Types
<1>6. \A p \in Orders : p # o => status'[p] = status[p] /\ paymentStatus'[p] = paymentStatus[p]
  BY <1>1, <1>3 DEF InsertOrder, Types
<1>7. \A p \in Orders : Moves(p)
  BY <1>5, <1>6 DEF Moves
<1> QED
  BY <1>2, <1>4, <1>7, RestoredStays, OnwardKeeps

LEMMA CancellingKeeps ==
    ASSUME LifecycleConstants, IInv, Closing, NEW w \in Workers,
           VoidOrder(w) \/ CancelUnpaid(w)
    PROVE  Closing'
<1> DEFINE o == job[w].order
<1>1. PICK s \in {"voidOrder", "cancelUnpaid"} : At(w, s)
  BY DEF VoidOrder, CancelUnpaid
<1>2. Ready(w) /\ Types /\ ReadOpen /\ GoOn(w, Next1(w))
  BY DEF VoidOrder, CancelUnpaid, IInv, Closing
<1>3. Onward(w) /\ ~At(w, "setIfSame") /\ ~At(w, "claimPaid")
  BY <1>1, <1>2, NextOnward, AtHead
<1>4. o \in Orders
  BY <1>1, <1>2, AtHead
<1>5. UNCHANGED << restored, events >>
  BY DEF VoidOrder, CancelUnpaid, stockVars, eventVars
<1>6. Moves(o)
  BY <1>2, <1>4 DEF VoidOrder, CancelUnpaid, Moves, Types
<1>7. \A p \in Orders : p # o => status'[p] = status[p] /\ paymentStatus'[p] = paymentStatus[p]
  BY <1>2, <1>4 DEF VoidOrder, CancelUnpaid, Types
<1>8. \A p \in Orders : Moves(p)
  BY <1>6, <1>7 DEF Moves
<1> QED
  BY <1>3, <1>5, <1>8, RestoredStays, OnwardKeeps

\* The payment claim has been made, so the order is paid for, or was cancelled.
LEMMA ConfirmKeeps ==
    ASSUME LifecycleConstants, IInv, Closing, NEW w \in Workers, Confirm(w)
    PROVE  Closing'
<1> DEFINE o == job[w].order
<1>1. At(w, "confirm") /\ Ready(w) /\ Types /\ ReadOpen /\ GoOn(w, Next1(w))
  BY DEF Confirm, IInv, Closing
<1>2. Onward(w) /\ ~At(w, "setIfSame") /\ ~At(w, "claimPaid")
  BY <1>1, NextOnward, AtHead
<1>3. o \in Orders /\ Len(job[w].todo) > 0 /\ job[w].todo[1] = "confirm"
      /\ job[w].todo \in Seq(Statements)
  BY <1>1, AtHead
<1>4. UNCHANGED << restored, events, paymentStatus >>
  BY DEF Confirm, stockVars, eventVars
<1>5. Claimed(job[w].todo)
  <2>1. 1 \in 1 .. Len(job[w].todo) /\ \A k \in 1 .. 1 - 1 : FALSE
    BY <1>3
  <2> QED
    BY <1>3, <2>1 DEF Claimed
<1>6. "setStatus" \notin Requests /\ status[o] = "PENDING_PAYMENT" => paymentStatus[o] \in Settled
  BY <1>5 DEF Closing, Ungraded
<1>7. Moves(o)
  BY <1>1, <1>3, <1>4, <1>6 DEF Confirm, Moves, Types
<1>8. \A p \in Orders : p # o => status'[p] = status[p]
  BY <1>1, <1>3 DEF Confirm, Types
<1>9. \A p \in Orders : Moves(p)
  BY <1>4, <1>7, <1>8 DEF Moves
<1> QED
  BY <1>2, <1>4, <1>9, RestoredStays, OnwardKeeps

LEMMA ClaimPaidKeeps ==
    ASSUME LifecycleConstants, IInv, Closing, NEW w \in Workers, ClaimPaid(w)
    PROVE  Closing'
<1> DEFINE o == job[w].order
<1>1. At(w, "claimPaid") /\ Ready(w) /\ Types /\ ReadOpen
  BY DEF ClaimPaid, IInv, Closing
<1>2. /\ o \in Orders /\ ~At(w, "setIfSame")
      /\ job[w].todo \in Seq(Statements) /\ Len(job[w].todo) > 0 /\ job[w].todo[1] = "claimPaid"
  BY <1>1, AtHead
<1>3. Onward(w)
  <2>1. CASE GoOn(w, Next1(w))
    BY <1>1, <2>1, NextOnward
  <2>2. CASE GoOn(w, Skipping(w, 2))
    <3>1. /\ Before(job[w].todo, "claimPaid", "commitStock")
          /\ Before(job[w].todo, "commitStock", "confirm")
      BY <1>1 DEF Ready, WellFormed, InOrder
    <3>2. 1 \in 1 .. Len(job[w].todo)
      BY <1>2
    <3>3. 1 < Len(job[w].todo) /\ job[w].todo[1 + 1] = "commitStock"
      BY <1>2, <3>1, <3>2 DEF Before
    <3>4. 2 \in 1 .. Len(job[w].todo) /\ job[w].todo[2] = "commitStock"
      BY <1>2, <3>3
    <3>5. 2 + 1 <= Len(job[w].todo)
      BY <1>2, <3>1, <3>4 DEF Before
    <3>6. PICK n \in Nat : n + 1 <= Len(job[w].todo) /\ GoOn(w, Skipping(w, n))
      BY <2>2, <3>5
    <3>7. job \in [Workers -> Jobs]
      BY <1>1 DEF Types
    <3>8. Rest(Skipping(w, n), job[w], n + 1)
      BY <3>6, <3>7, SkipRest
    <3>9. n + 1 \in Nat \ {0}
      OBVIOUS
    <3> QED
      BY <1>1, <3>6, <3>8, <3>9, RestOnward
  <2> QED
    BY <2>1, <2>2 DEF ClaimPaid
<1>4. UNCHANGED << status, restored, events >>
  BY DEF ClaimPaid, stockVars, eventVars
<1>5. paymentStatus'[o] \in Settled
  BY <1>1, <1>2 DEF ClaimPaid, Types, Settled
<1>6. \A p \in Orders : p # o => paymentStatus'[p] = paymentStatus[p]
  BY <1>1 DEF ClaimPaid, Types
<1>7. \A p \in Orders : Moves(p)
  BY <1>4, <1>5, <1>6 DEF Moves
<1> QED
  BY <1>2, <1>3, <1>4, <1>5, <1>7, RestoredStays, OnwardKeeps

\* Stock is claimed back by a handler that has closed the order, or does not care.
LEMMA ClaimRestoreKeeps ==
    ASSUME LifecycleConstants, IInv, Closing, NEW w \in Workers, ClaimRestore(w)
    PROVE  Closing'
<1> DEFINE o == job[w].order
<1>1. At(w, "claimRestore") /\ Ready(w) /\ Types /\ ReadOpen
  BY DEF ClaimRestore, IInv, Closing
<1>2. o \in Orders /\ ~At(w, "setIfSame") /\ ~At(w, "claimPaid") /\ "claimRestore" \in Left(w)
  BY <1>1, AtHead, HeadLeft
<1>3. UNCHANGED << status, paymentStatus, events >>
  BY DEF ClaimRestore, orderVars, eventVars
<1>4. \A p \in Orders : Moves(p)
  BY <1>3 DEF Moves
<1>5. CASE o \in committed \ restored
  <2>1. GoOn(w, Next1(w)) /\ restored' = restored \cup {o}
    BY <1>5 DEF ClaimRestore
  <2>2. Onward(w)
    BY <1>1, <2>1, NextOnward
  <2>3. restored' \subseteq Orders
    BY <1>1, <1>2, <2>1 DEF Types
  <2>4. AllCash => \A p \in restored' \ restored : status[p] \in CLOSED
    <3>1. ASSUME AllCash  PROVE status[o] \in CLOSED
      <4>1. CashOnly /\ Left(w) \cap Restoring # {}
        BY <1>2, <3>1 DEF Closing, Restoring
      <4> QED
        BY <1>2, <4>1 DEF CashOnly
    <3> QED
      BY <2>1, <3>1
  <2> QED
    BY <1>2, <1>3, <1>4, <2>2, <2>3, <2>4, OnwardKeeps
<1>6. CASE o \notin committed \ restored
  <2>1. GoOn(w, Skipping(w, 1)) /\ UNCHANGED restored
    BY <1>6 DEF ClaimRestore
  <2>2. Before(job[w].todo, "claimRestore", "restock")
    BY <1>1 DEF Ready, WellFormed, InOrder
  <2>3. Onward(w)
    BY <1>1, <2>1, <2>2, SkipOnward
  <2> QED
    BY <1>2, <1>3, <1>4, <2>1, <2>3, RestoredStays, OnwardKeeps
<1> QED
  BY <1>5, <1>6

\* The order is moved only if it is still as it was read, which is open.
LEMMA SetIfSameKeeps ==
    ASSUME LifecycleConstants, IInv, Closing, NEW w \in Workers, SetIfSame(w)
    PROVE  Closing'
<1> DEFINE o == job[w].order
<1>1. At(w, "setIfSame") /\ Ready(w) /\ Types /\ ReadOpen
  BY DEF SetIfSame, IInv, Closing
<1>2. o \in Orders /\ job[w].seen \notin CLOSED /\ ~At(w, "claimPaid")
  BY <1>1, AtHead DEF ReadOpen
<1>3. UNCHANGED << restored, paymentStatus, events >>
  BY DEF SetIfSame, stockVars, eventVars
<1>4. CASE status[o] # job[w].seen
  <2>1. GoOn(w, NoJob) /\ UNCHANGED status
    BY <1>4 DEF SetIfSame
  <2>2. job' = [job EXCEPT ![w] = NoJob]
    BY <2>1, NoJobWellFormed DEF GoOn
  <2>3. Settles
    BY <1>3, <2>1 DEF Settles
  <2> QED
    BY <2>2, <2>3, EmptyFits, GivenKeeps
<1>5. CASE status[o] = job[w].seen
  <2>1. GoOn(w, Next1(w)) /\ status' = [status EXCEPT ![o] = job[w].verdict]
    BY <1>5 DEF SetIfSame
  <2>2. Onward(w)
    BY <1>1, <2>1, NextOnward
  <2>3. /\ Unscanned' /\ ReadOpen'
        /\ ~At(w, "setIfSame")' /\ Left(w)' \subseteq Left(w)
        /\ Left(w)' # {} \/ Claimed(job'[w].todo) => job'[w].order = o
        /\ Claimed(job'[w].todo) => Claimed(job[w].todo) \/ At(w, "claimPaid")
    BY <1>3, <2>2, OnwardLists
  <2>4. \A v \in Workers \ {w} : /\ job'[v] = job[v] /\ Left(v)' = Left(v)
                                 /\ At(v, "setIfSame")' <=> At(v, "setIfSame")
    BY <2>2 DEF Onward, Left, At
  <2>5. status'[o] = job[w].verdict /\ \A p \in Orders : p # o => status'[p] = status[p]
    BY <1>1, <1>2, <2>1 DEF Types
  <2>6. status[o] \notin CLOSED /\ status[o] # "CANCELLED"
    BY <1>2, <1>5 DEF CLOSED
  <2>7. \A v \in Workers : Left(v) # {} \/ Claimed(job[v].todo) => job[v].order \in Orders
    BY LeftOrder, ClaimedOrder
  <2>8. ASSUME "setStatus" \notin Requests  PROVE Ungraded'
    <3>1. Ungraded
      BY <2>8 DEF Closing
    <3>2. status'[o] = "CANCELLED"
      BY <1>1, <2>5, <3>1 DEF Ungraded
    <3>3. \A v \in Workers : At(v, "setIfSame")' => job'[v].verdict = "CANCELLED"
      BY <2>3, <2>4, <3>1 DEF Ungraded
    <3>4. ASSUME NEW v \in Workers, Claimed(job'[v].todo)
          PROVE  paymentStatus'[job'[v].order] \in Settled \/ status'[job'[v].order] = "CANCELLED"
      <4>1. job'[v].order = job[v].order /\ Claimed(job[v].todo)
        BY <1>2, <2>3, <2>4, <3>4
      <4>2. paymentStatus[job[v].order] \in Settled \/ status[job[v].order] = "CANCELLED"
        BY <3>1, <4>1 DEF Ungraded
      <4>3. job[v].order \in Orders
        BY <2>7, <4>1
      <4> QED
        BY <1>3, <2>5, <3>2, <4>1, <4>2, <4>3
    <3>5. UnpaidNeverFulfilled'
      BY <1>3, <2>5, <3>1, <3>2 DEF Ungraded, UnpaidNeverFulfilled
    <3>6. \A p \in Orders :
             status'[p] \in {"none", "PENDING_PAYMENT", "PLACED", "CONFIRMED", "CANCELLED"}
      BY <2>5, <3>1, <3>2 DEF Ungraded
    <3> QED
      BY <3>3, <3>4, <3>5, <3>6 DEF Ungraded
  <2>9. ASSUME AllCash  PROVE CashOnly'
    <3>1. CashOnly
      BY <2>9 DEF Closing
    <3>2. \A v \in Workers : Left(v)' \cap Prepaying = {}
      BY <2>3, <2>4, <3>1 DEF CashOnly
    <3>3. \A p \in restored' : status'[p] \in CLOSED
      BY <1>1, <1>3, <2>5, <2>6, <3>1 DEF CashOnly, Types
    <3>4. ASSUME NEW v \in Workers, Left(v)' \cap Restoring # {}
          PROVE  \/ status'[job'[v].order] \in CLOSED
                 \/ At(v, "setIfSame")' /\ job'[v].verdict \in CLOSED
      <4>1. CASE v = w
        <5>1. job'[w].order = o /\ Left(w) \cap Restoring # {}
          BY <2>3, <3>4, <4>1
        <5>2. job[w].verdict \in CLOSED
          BY <2>6, <3>1, <5>1 DEF CashOnly
        <5> QED
          BY <2>5, <4>1, <5>1, <5>2
      <4>2. CASE v # w
        <5>1. /\ job'[v] = job[v] /\ Left(v) \cap Restoring # {}
              /\ At(v, "setIfSame")' <=> At(v, "setIfSame")
          BY <2>4, <3>4, <4>2
        <5>2. \/ status[job[v].order] \in CLOSED
              \/ At(v, "setIfSame") /\ job[v].verdict \in CLOSED
          BY <3>1, <5>1 DEF CashOnly
        <5>3. job[v].order \in Orders
          BY <2>7, <5>1
        <5> QED
          BY <2>5, <2>6, <5>1, <5>2, <5>3
      <4> QED
        BY <4>1, <4>2
    <3> QED
      BY <3>2, <3>3, <3>4 DEF CashOnly
  <2> QED
    BY <2>3, <2>8, <2>9 DEF Closing, AllCash
<1> QED
  BY <1>4, <1>5

-----------------------------------------------------------------------------
(* New lists.                                                              *)

\* A list of one statement, and none.
LEMMA AmongOne ==
    ASSUME NEW a \in Statements
    PROVE  Among(<< a >>) = {a} /\ << a >> \in Seq(Statements)
  BY AmongShort

LEMMA AmongNone == Among(<< >>) = {} /\ << >> \in Seq(Statements) /\ ~Claimed(<< >>)
<1>1. << >> \in Seq(Statements)
  OBVIOUS
<1>2. Among(<< >>) = {}
  BY DEF Among
<1>3. ~Claimed(<< >>)
  BY DEF Claimed
<1> QED
  BY <1>1, <1>2, <1>3

LEMMA NotClaimed ==
    ASSUME NEW t \in Seq(Statements), Among(t) \cap {"commitStock", "confirm"} = {}
    PROVE  ~Claimed(t)
  BY DEF Claimed, Among

LEMMA PayNotClaimed == ~Claimed(Pay)
<1>1. ASSUME NEW i \in 1 .. Len(Pay), Pay[i] \in {"commitStock", "confirm"}
      PROVE  \E k \in 1 .. i - 1 : Pay[k] = "claimPaid"
  <2>1. Len(Pay) = 3 /\ Pay[1] = "claimPaid"
    BY DEF Pay
  <2>2. i # 1
    BY <1>1, <2>1
  <2>3. 1 \in 1 .. i - 1
    BY <2>1, <2>2
  <2> QED
    BY <2>1, <2>3
<1> QED
  BY <1>1 DEF Claimed

LEMMA JoinedNotClaimed ==
    ASSUME NEW s \in Seq(Statements), NEW t \in Seq(Statements), ~Claimed(s), ~Claimed(t)
    PROVE  ~Claimed(s \o t)
<1> DEFINE u == s \o t
<1>1. /\ Len(u) = Len(s) + Len(t) /\ Len(s) \in Nat /\ Len(t) \in Nat
      /\ \A i \in 1 .. Len(s) : u[i] = s[i]
      /\ \A i \in 1 .. Len(t) : u[Len(s) + i] = t[i]
  OBVIOUS
<1>2. ASSUME NEW i \in 1 .. Len(u), u[i] \in {"commitStock", "confirm"}
      PROVE  \E k \in 1 .. i - 1 : u[k] = "claimPaid"
  <2>1. CASE i <= Len(s)
    <3>1. i \in 1 .. Len(s) /\ s[i] \in {"commitStock", "confirm"}
      BY <1>1, <1>2, <2>1
    <3>2. PICK k \in 1 .. i - 1 : s[k] = "claimPaid"
      BY <3>1 DEF Claimed
    <3>3. k \in 1 .. Len(s)
      BY <1>1, <3>1
    <3> QED
      BY <1>1, <3>2, <3>3
  <2>2. CASE i > Len(s)
    <3>1. i - Len(s) \in 1 .. Len(t) /\ Len(s) + (i - Len(s)) = i
      BY <1>1, <2>2
    <3>2. t[i - Len(s)] \in {"commitStock", "confirm"}
      BY <1>1, <1>2, <3>1
    <3>3. PICK k \in 1 .. (i - Len(s)) - 1 : t[k] = "claimPaid"
      BY <3>1, <3>2 DEF Claimed
    <3>4. k \in 1 .. Len(t) /\ Len(s) + k \in 1 .. i - 1
      BY <1>1, <3>1
    <3>5. u[Len(s) + k] = "claimPaid"
      BY <1>1, <3>3, <3>4
    <3> QED
      BY <3>4, <3>5
  <2> QED
    BY <1>1, <2>1, <2>2
<1> QED
  BY <1>2 DEF Claimed

\* A list that decides nothing.
LEMMA FitsPlain ==
    ASSUME NEW j, j.todo \in Seq(Statements), "setIfSame" \notin Among(j.todo),
           Among(j.todo) \cap Following = {}, ~Claimed(j.todo),
           AllCash => Among(j.todo) \cap (Prepaying \cup Restoring) = {}
    PROVE  Fits(j)
<1>1. Decides(j.todo)
  BY DEF Decides, Among
<1> QED
  BY <1>1 DEF Fits

\* A list that begins with a decision.
LEMMA FitsDecision ==
    ASSUME NEW j, NEW t \in Seq(Statements), j.todo = << "setIfSame" >> \o t,
           Among(t) \cap (Following \cup Prepaying \cup {"setIfSame"}) = {}, j.seen \notin CLOSED,
           "setStatus" \notin Requests => j.verdict = "CANCELLED",
           Among(t) \cap Restoring # {} => j.verdict \in CLOSED
    PROVE  Fits(j)
<1> DEFINE s == << "setIfSame" >>
<1>1. s \in Seq(Statements) /\ Among(s) = {"setIfSame"} /\ Len(s) = 1
  <2>1. "setIfSame" \in Statements
    BY DEF Statements
  <2> QED
    BY <2>1, AmongOne
<1>2. Among(s \o t) = {"setIfSame"} \cup Among(t) /\ s \o t \in Seq(Statements)
  BY <1>1, AmongJoined
<1>3. ~Claimed(s \o t)
  BY <1>2, NotClaimed DEF Prepaying
<1>4. Decides(s \o t)
  <2> SUFFICES ASSUME NEW i \in 1 .. Len(s \o t), (s \o t)[i] = "setIfSame", i # 1
               PROVE  FALSE
    BY DEF Decides
  <2>1. Len(s \o t) = Len(s) + Len(t) /\ Len(t) \in Nat
    BY <1>1
  <2>2. \A k \in 1 .. Len(t) : (s \o t)[Len(s) + k] = t[k]
    BY <1>1
  <2> HIDE DEF s
  <2>3. i - 1 \in 1 .. Len(t) /\ Len(s) + (i - 1) = i
    BY <1>1, <2>1
  <2>4. t[i - 1] = "setIfSame"
    BY <2>2, <2>3
  <2> QED
    BY <2>3, <2>4 DEF Among
<1>5. "setIfSame" \notin Following \cup Prepaying \cup Restoring
  BY DEF Following, Prepaying, Restoring
<1> QED
  BY <1>2, <1>3, <1>4, <1>5 DEF Fits

LEMMA GoOnKeeps ==
    ASSUME LifecycleConstants, IInv, Closing, NEW w \in Workers, NEW j, Fits(j), GoOn(w, j),
           Settles
    PROVE  Closing'
<1>1. PICK i : i = IF j.todo = << >> THEN NoJob ELSE j
  OBVIOUS
<1>2. Fits(i) /\ job' = [job EXCEPT ![w] = i]
  BY <1>1, EmptyFits DEF GoOn
<1> QED
  BY <1>2, GivenKeeps

\* The lists the statements below are put together from.
LEMMA Clear ==
    /\ Restoring \cap (Following \cup Prepaying \cup {"setIfSame"}) = {}
    /\ Failing \cap (Following \cup {"setIfSame", "commitStock", "confirm"}) = {}
    /\ Paying \cap (Following \cup {"setIfSame"}) = {}
    /\ Recalling \cap (Following \cup Prepaying \cup Restoring \cup {"setIfSame"}) = {}
    /\ Booking \cap (Following \cup Prepaying \cup Restoring \cup {"setIfSame"}) = {}
    /\ {"deduct", "insertOrder", "insertAttempt", "fetch", "recordPayment", "finish", "refundIfPaid"}
         \cap (Following \cup Prepaying \cup Restoring \cup {"setIfSame"}) = {}
    /\ "openPayment" \notin Following /\ "voidOrder" \notin Following
    /\ {"commitStock", "confirm"} \subseteq Prepaying
  BY DEF Restoring, Following, Prepaying, Failing, Paying, Recalling, Booking

\* What fetchPayment answers.
LEMMA FetchKeeps ==
    ASSUME LifecycleConstants, IInv, Closing, NEW w \in Workers, Fetch(w)
    PROVE  Closing'
<1> DEFINE rec == << "recordPayment" >>
           outcome == gateway[job[w].order][job[w].attempt]
           j(v, t) == [job[w] EXCEPT !.verdict = v, !.todo = t]
<1>1. Ready(w) /\ Types /\ Money /\ At(w, "fetch") /\ job[w] \in Jobs
  BY DEF Fetch, IInv, Types
<1>2. job[w].order \in Orders /\ job[w].attempt \in Attempts
  BY <1>1, AtHead DEF Jobs
<1>3. Settles
  BY DEF Fetch, Settles, orderVars, stockVars, eventVars
<1>4. outcome # {} => ~AllCash
  BY <1>1, <1>2 DEF Money, AllCash
<1>5. \/ outcome # {} /\ GoOn(w, j("PAID", rec \o Pay))
      \/ GoOn(w, j("PENDING", rec \o << >>))
      \/ outcome # {} /\ GoOn(w, j("FAILED", rec \o Fail))
      \/ GoOn(w, NoJob)
  BY DEF Fetch
<1>6. \A v, t : j(v, t).todo = t
  BY <1>1 DEF Jobs
<1>7. rec \in Seq(Statements) /\ Among(rec) = {"recordPayment"} /\ ~Claimed(rec)
  <2>0. "recordPayment" \in Statements
    BY DEF Statements
  <2>1. rec \in Seq(Statements) /\ Among(rec) = {"recordPayment"}
    BY <2>0, AmongOne
  <2> QED
    BY <2>1, NotClaimed
<1>8. << >> \in Seq(Statements) /\ Among(<< >>) = {} /\ ~Claimed(<< >>)
  BY AmongNone
<1> HIDE DEF rec, outcome, j
<1>9. ASSUME outcome # {}  PROVE Fits(j("PAID", rec \o Pay))
  <2>1. Among(rec \o Pay) = {"recordPayment"} \cup Paying /\ rec \o Pay \in Seq(Statements)
    BY <1>7, AmongLists, AmongJoined
  <2>3. "setIfSame" \notin Among(rec \o Pay) /\ Among(rec \o Pay) \cap Following = {}
    BY <2>1, Clear
  <2>4. ~AllCash
    BY <1>4, <1>9
  <2>2. ~Claimed(rec \o Pay)
    BY <1>7, AmongLists, PayNotClaimed, JoinedNotClaimed
  <2> QED
    BY ZenonT(30), <1>6, <2>1, <2>2, <2>3, <2>4, FitsPlain
<1>10. ASSUME outcome # {}  PROVE Fits(j("FAILED", rec \o Fail))
  <2>1. Among(rec \o Fail) = {"recordPayment"} \cup Failing /\ rec \o Fail \in Seq(Statements)
    BY <1>7, AmongLists, AmongJoined
  <2>3. "setIfSame" \notin Among(rec \o Fail) /\ Among(rec \o Fail) \cap Following = {}
    BY <2>1, Clear
  <2>4. ~AllCash
    BY <1>4, <1>10
  <2>2. ~Claimed(rec \o Fail)
    BY <2>1, Clear, NotClaimed
  <2> QED
    BY ZenonT(30), <1>6, <2>1, <2>2, <2>3, <2>4, FitsPlain
<1>11. Fits(j("PENDING", rec \o << >>))
  <2>1. Among(rec \o << >>) = {"recordPayment"} /\ rec \o << >> \in Seq(Statements)
    BY <1>7, <1>8, AmongJoined
  <2>2. ~Claimed(rec \o << >>)
    BY <2>1, NotClaimed
  <2>3. /\ "setIfSame" \notin Among(rec \o << >>) /\ Among(rec \o << >>) \cap Following = {}
        /\ Among(rec \o << >>) \cap (Prepaying \cup Restoring) = {}
    BY <2>1, Clear
  <2> QED
    BY <1>6, <2>1, <2>2, <2>3, FitsPlain
<1> QED
  BY <1>3, <1>5, <1>9, <1>10, <1>11, EmptyFits, GoOnKeeps

\* The gateway opens an order, or refuses one: then the order is not paid in cash.
LEMMA OpenPaymentKeeps ==
    ASSUME LifecycleConstants, IInv, Closing, NEW w \in Workers, OpenPayment(w)
    PROVE  Closing'
<1>1. Ready(w) /\ Types /\ At(w, "openPayment") /\ job[w] \in Jobs
  BY DEF OpenPayment, IInv, Types
<1>2. job[w].order \in Orders /\ Method[job[w].order] = "online"
  BY <1>1, AtHead, HeadEquipped
<1>3. ~AllCash
  BY <1>2 DEF AllCash
<1>4. UNCHANGED << status, restored, paymentStatus, events >>
  BY DEF OpenPayment, orderVars, eventVars
<1>5. CASE GoOn(w, Next1(w))
  BY <1>1, <1>4, <1>5, PlainKeeps DEF Settles
<1>6. CASE GoOn(w, [job[w] EXCEPT !.todo = ReturnStock \o << "voidOrder" >>])
  <2>0. PICK v : v = << "voidOrder" >>
    OBVIOUS
  <2>1. PICK t : t = ReturnStock \o v
    OBVIOUS
  <2>2. v \in Seq(Statements) /\ Among(v) = {"voidOrder"}
    <3>1. "voidOrder" \in Statements
      BY DEF Statements
    <3> QED
      BY <2>0, <3>1, AmongOne
  <2>3. t \in Seq(Statements) /\ Among(t) = Restoring \cup {"voidOrder"}
    BY <2>1, <2>2, AmongLists, AmongJoined
  <2>4. PICK j : j = [job[w] EXCEPT !.todo = t]
    OBVIOUS
  <2>5. j.todo = t /\ GoOn(w, j)
    BY <1>1, <1>6, <2>0, <2>1, <2>4 DEF Jobs
  <2>6. "commitStock" \notin Among(t) /\ "confirm" \notin Among(t)
    BY <2>3 DEF Restoring
  <2>7. ~Claimed(t)
    BY <2>3, <2>6, NotClaimed
  <2>8. Fits(j)
    <3>1. "setIfSame" \notin Among(t) /\ Among(t) \cap Following = {}
      BY <2>3, Clear
    <3> QED
      BY <1>3, <2>3, <2>5, <2>7, <3>1, FitsPlain
  <2> QED
    BY <1>4, <2>5, <2>8, GoOnKeeps DEF Settles
<1> QED
  BY <1>5, <1>6 DEF OpenPayment

-----------------------------------------------------------------------------
(* A handler is called.                                                    *)

LEMMA CallKeeps ==
    ASSUME LifecycleConstants, IInv, Closing, NEW w \in Workers, NEW handler, NEW j,
           Run(w, handler, j), Fits(j), Settles
    PROVE  Closing'
  BY GivenKeeps DEF Run

\* A request writes no order, and a webhook claims an event that is no scan.
LEMMA QuietSettles ==
    ASSUME UNCHANGED << orderVars, stockVars >>,
           \A e \in Event : events'[e] # "none" => events[e] # "none" \/ e.about \notin Scans
    PROVE  Settles
  BY DEF Settles, orderVars, stockVars

\* A list that no closed order, and no order paid on delivery, is to fear.
Harmless == {"deduct", "insertOrder", "insertAttempt", "fetch", "recordPayment", "finish",
             "refundIfPaid"} \cup Recalling \cup Booking

LEMMA FitsHarmless ==
    ASSUME NEW j, j.todo \in Seq(Statements), Among(j.todo) \subseteq Harmless
    PROVE  Fits(j)
<1>1. Harmless \cap (Following \cup Prepaying \cup Restoring \cup {"setIfSame"}) = {}
  BY Clear DEF Harmless
<1>2. "commitStock" \in Prepaying /\ "confirm" \in Prepaying
  BY DEF Prepaying
<1>3. ~Claimed(j.todo)
  BY <1>1, <1>2, NotClaimed
<1> QED
  BY <1>1, <1>3, FitsPlain

\* A list of an order that was paid in advance.
LEMMA FitsPrepaid ==
    ASSUME NEW j, j.todo \in Seq(Statements), ~AllCash, ~Claimed(j.todo),
           Among(j.todo) \subseteq Harmless \cup Paying \cup Failing \cup {"openPayment", "voidOrder"}
    PROVE  Fits(j)
<1>1. Harmless \cap (Following \cup {"setIfSame"}) = {}
  BY Clear DEF Harmless
<1>2. "setIfSame" \notin Among(j.todo) /\ Among(j.todo) \cap Following = {}
  BY <1>1, Clear
<1> QED
  BY <1>2, FitsPlain

LEMMA CheckoutKeeps ==
    ASSUME LifecycleConstants, IInv, Closing, NEW w \in Workers, NEW o \in Orders,
           Checkout(w, o)
    PROVE  Closing'
<1>1. PICK u : u = << "deduct", "insertOrder" >>
  OBVIOUS
<1>2. PICK v : v = IF Method[o] = "online" THEN << "openPayment" >> ELSE << >>
  OBVIOUS
<1>3. PICK t : t = u \o v
  OBVIOUS
<1>4. PICK j : j = Job(o, t)
  OBVIOUS
<1>5. Run(w, "checkout", j) /\ j.todo = t
  BY <1>1, <1>2, <1>3, <1>4 DEF Checkout, Job, NoJob
<1>6. /\ "deduct" \in Statements /\ "insertOrder" \in Statements /\ "openPayment" \in Statements
  BY DEF Statements
<1>7. u \in Seq(Statements) /\ Among(u) = {"deduct", "insertOrder"}
  BY <1>1, <1>6, AmongShort
<1>8. v \in Seq(Statements) /\ (Among(v) = {} \/ (Among(v) = {"openPayment"} /\ ~AllCash))
  BY <1>2, <1>6, AmongOne, AmongNone DEF AllCash
<1>9. t \in Seq(Statements) /\ Among(t) = Among(u) \cup Among(v)
  BY <1>3, <1>7, <1>8, AmongJoined
<1>10. Fits(j)
  <2>1. ~Claimed(t)
    BY <1>7, <1>8, <1>9, NotClaimed
  <2>2. CASE Among(v) = {}
    BY <1>5, <1>7, <1>9, <2>2, FitsHarmless DEF Harmless
  <2>3. CASE Among(v) = {"openPayment"} /\ ~AllCash
    BY <1>5, <1>7, <1>9, <2>1, <2>3, FitsPrepaid DEF Harmless
  <2> QED
    BY <1>8, <2>2, <2>3
<1>11. Settles
  BY QuietSettles DEF Checkout, eventVars
<1> QED
  BY <1>5, <1>10, <1>11, CallKeeps

LEMMA ShortCallKeeps ==
    ASSUME LifecycleConstants, IInv, Closing, NEW w \in Workers, NEW o \in Orders,
           \/ \E k \in Attempts : Verify(w, o, k)
           \/ Retry(w, o) \/ Unbook(w, o) \/ Book(w, o)
    PROVE  Closing'
<1>1. Settles
  BY QuietSettles DEF Verify, Retry, Unbook, Book, eventVars
<1>2. ASSUME NEW s \in Harmless, NEW handler, NEW j, j.todo = << s >>, Run(w, handler, j)
      PROVE  Closing'
  <2>1. s \in Statements
    BY DEF Harmless, Recalling, Booking, Statements
  <2>2. Among(j.todo) = {s} /\ j.todo \in Seq(Statements)
    BY <1>2, <2>1, AmongOne
  <2>3. Fits(j)
    BY <2>2, FitsHarmless
  <2> QED
    BY <1>1, <1>2, <2>3, CallKeeps
<1>3. "fetch" \in Harmless /\ "recordPayment" \in Harmless /\ "insertAttempt" \in Harmless
  BY DEF Harmless
<1>4. ASSUME NEW k \in Attempts, Verify(w, o, k)  PROVE Closing'
  <2>1. CASE Run(w, "verify", [Job(o, << "fetch" >>) EXCEPT !.attempt = k])
    <3>1. [Job(o, << "fetch" >>) EXCEPT !.attempt = k].todo = << "fetch" >>
      BY DEF Job, NoJob
    <3> QED
      BY <1>2, <1>3, <2>1, <3>1
  <2>2. CASE Run(w, "verify", [Job(o, << "recordPayment" >>) EXCEPT !.attempt = k,
                                                                    !.verdict = "FAILED"])
    <3>1. [Job(o, << "recordPayment" >>) EXCEPT !.attempt = k, !.verdict = "FAILED"].todo
            = << "recordPayment" >>
      BY DEF Job, NoJob
    <3> QED
      BY <1>2, <1>3, <2>2, <3>1
  <2> QED
    BY <1>4, <2>1, <2>2 DEF Verify
<1>5. ASSUME Retry(w, o)  PROVE Closing'
  <2>1. Job(o, << "insertAttempt" >>).todo = << "insertAttempt" >>
    BY DEF Job, NoJob
  <2>2. Run(w, "retry", Job(o, << "insertAttempt" >>))
    BY <1>5 DEF Retry
  <2> QED
    BY <1>2, <1>3, <2>1, <2>2
<1>6. ASSUME Unbook(w, o)  PROVE Closing'
  <2>1. PICK j : j = Job(o, Recall)
    OBVIOUS
  <2>2. Run(w, "recall", j) /\ j.todo = Recall
    BY <1>6, <2>1 DEF Unbook, Job, NoJob
  <2>3. Fits(j)
    BY <2>2, AmongLists, FitsHarmless DEF Harmless
  <2> QED
    BY <1>1, <2>2, <2>3, CallKeeps
<1>7. ASSUME Book(w, o)  PROVE Closing'
  <2>1. PICK t : t = << "openShipment", "assignAwb", "noteAwb" >>
    OBVIOUS
  <2>2. PICK j : j = Job(o, t)
    OBVIOUS
  <2>3. Run(w, "book", j) /\ j.todo = t
    BY <1>7, <2>1, <2>2 DEF Book, Job, NoJob
  <2>4. "openShipment" \in Statements /\ "assignAwb" \in Statements /\ "noteAwb" \in Statements
    BY DEF Statements
  <2>5. t \in Seq(Statements) /\ Among(t) = Booking
    BY <2>1, <2>4, AmongThree DEF Booking
  <2>6. Fits(j)
    BY <2>3, <2>5, FitsHarmless DEF Harmless
  <2> QED
    BY <1>1, <2>3, <2>6, CallKeeps
<1> QED
  BY <1>4, <1>5, <1>6, <1>7

\* An order that waits for its payment is paid in advance.
LEMMA GiveUpKeeps ==
    ASSUME LifecycleConstants, IInv, Closing, NEW w \in Workers, NEW o \in Orders,
           CancelPayment(w, o) \/ Expire(w, o)
    PROVE  Closing'
<1>1. status[o] = "PENDING_PAYMENT" /\ Settles
  BY QuietSettles DEF CancelPayment, Expire, eventVars
<1>2. ~AllCash
  BY <1>1 DEF IInv, Inserted, AllCash
<1>3. PICK verdict, handler : Run(w, handler, [Job(o, Fail) EXCEPT !.verdict = verdict])
  BY DEF CancelPayment, Expire
<1>4. PICK j : j = [Job(o, Fail) EXCEPT !.verdict = verdict]
  OBVIOUS
<1>5. Run(w, handler, j) /\ j.todo = Fail
  BY <1>3, <1>4 DEF Job, NoJob
<1>6. Fail \in Seq(Statements) /\ Among(Fail) = Failing
  BY AmongLists
<1>7. ~Claimed(Fail)
  BY <1>6, Clear, NotClaimed
<1>8. Fits(j)
  BY <1>2, <1>5, <1>6, <1>7, FitsPrepaid
<1> QED
  BY <1>1, <1>5, <1>8, CallKeeps

\* What every webhook ends with.
LEMMA FinishList ==
    ASSUME NEW b \in Seq(Statements), ~Claimed(b)
    PROVE  /\ b \o << "finish" >> \in Seq(Statements) /\ ~Claimed(b \o << "finish" >>)
           /\ Among(b \o << "finish" >>) = Among(b) \cup {"finish"}
<1>1. PICK f : f = << "finish" >>
  OBVIOUS
<1>2. "finish" \in Statements
  BY DEF Statements
<1>3. f \in Seq(Statements) /\ Among(f) = {"finish"}
  BY <1>1, <1>2, AmongOne
<1>4. ~Claimed(f)
  BY <1>3, NotClaimed
<1>5. /\ b \o f \in Seq(Statements) /\ ~Claimed(b \o f)
      /\ Among(b \o f) = Among(b) \cup {"finish"}
  BY <1>3, <1>4, AmongJoined, JoinedNotClaimed
<1> QED
  BY <1>1, <1>5

\* The gateway reports on prepaid orders only.
LEMMA PaymentWebhookKeeps ==
    ASSUME LifecycleConstants, IInv, Closing, NEW w \in Workers, NEW o \in Orders,
           NEW k \in Attempts, NEW about \in {"captured", "failed"},
           PaymentWebhook(w, o, k, about)
    PROVE  Closing'
<1>1. PICK e : e = [order |-> o, about |-> about, attempt |-> k]
  OBVIOUS
<1>2. PICK body : body = IF about = "captured" THEN Pay ELSE Fail
  OBVIOUS
<1>3. PICK rec : rec = << "recordPayment" >>
  OBVIOUS
<1>4. PICK b : b = rec \o body
  OBVIOUS
<1>5. PICK t : t = b \o << "finish" >>
  OBVIOUS
<1>6. PICK j : j = [Job(o, t) EXCEPT !.attempt = k, !.event = e,
                         !.verdict = IF about = "captured" THEN "PAID" ELSE "FAILED"]
  OBVIOUS
<1>7. Run(w, about, j) /\ j.todo = t
  BY <1>1, <1>2, <1>3, <1>4, <1>5, <1>6 DEF PaymentWebhook, Job, NoJob
<1>8. ~AllCash
  <2>1. gateway[o][k] # {}
    BY DEF PaymentWebhook
  <2> QED
    BY <2>1 DEF IInv, Money, AllCash
<1>9. body \in Seq(Statements) /\ Among(body) \subseteq Paying \cup Failing /\ ~Claimed(body)
  <2>1. ~Claimed(Fail)
    BY AmongLists, Clear, NotClaimed
  <2> QED
    BY <1>2, <2>1, AmongLists, PayNotClaimed
<1>10. rec \in Seq(Statements) /\ Among(rec) = {"recordPayment"} /\ ~Claimed(rec)
  <2>1. "recordPayment" \in Statements
    BY DEF Statements
  <2>2. rec \in Seq(Statements) /\ Among(rec) = {"recordPayment"}
    BY <1>3, <2>1, AmongOne
  <2> QED
    BY <2>2, NotClaimed
<1>11. /\ b \in Seq(Statements) /\ ~Claimed(b)
       /\ Among(b) \subseteq {"recordPayment"} \cup Paying \cup Failing
  BY <1>4, <1>9, <1>10, AmongJoined, JoinedNotClaimed
<1>12. /\ t \in Seq(Statements) /\ ~Claimed(t)
       /\ Among(t) \subseteq {"recordPayment", "finish"} \cup Paying \cup Failing
  BY <1>5, <1>11, FinishList
<1>13. Fits(j)
  BY <1>7, <1>8, <1>12, FitsPrepaid DEF Harmless
<1>14. Settles
  <2>1. about \notin Scans /\ e.about = about
    BY <1>1 DEF Scans, SHIPPING_TO_ORDER_STATUS
  <2>2. events' = [events EXCEPT ![e] = "RECEIVED"]
    BY <1>1 DEF PaymentWebhook, ClaimEvent
  <2>3. \A x \in Event : events'[x] # "none" => events[x] # "none" \/ x.about \notin Scans
    BY <2>1, <2>2 DEF IInv, Types
  <2> QED
    BY <2>3, QuietSettles DEF PaymentWebhook
<1> QED
  BY <1>7, <1>13, <1>14, CallKeeps

\* An event that waits for another try is no scan.
LEMMA ReplayKeeps ==
    ASSUME LifecycleConstants, IInv, Closing, NEW w \in Workers, NEW e \in Event, Replay(w, e)
    PROVE  Closing'
<1>1. events[e] # "none" /\ UNCHANGED << orderVars, stockVars >>
  BY DEF Replay, Stuck
<1>2. e.about \in {"captured", "failed"} /\ Method[e.order] = "online" /\ e.order \in Orders
  <2>1. e.about \notin Scans
    BY <1>1 DEF Closing, Unscanned
  <2> QED
    BY <2>1 DEF Event
<1>3. CASE e.about = "failed"
  <2>1. events' = [events EXCEPT ![e] = "IGNORED"] /\ UNCHANGED job
    BY <1>3 DEF Replay
  <2>2. \A x \in Event : events'[x] # "none" => events[x] # "none"
    BY <1>1, <2>1 DEF IInv, Types
  <2>3. Settles
    BY <1>1, <2>2, QuietSettles
  <2> QED
    BY <2>1, <2>3, NobodyKeeps
<1>4. CASE e.about # "failed"
  <2>1. PICK t : t = Pay \o << "finish" >>
    OBVIOUS
  <2>2. PICK j : j = [Job(e.order, t) EXCEPT !.event = e, !.verdict = e.about]
    OBVIOUS
  <2>3. Run(w, "replay", j) /\ j.todo = t /\ UNCHANGED eventVars
    BY <1>2, <1>4, <2>1, <2>2 DEF Replay, Job, NoJob
  <2>4. t \in Seq(Statements) /\ ~Claimed(t) /\ Among(t) = Paying \cup {"finish"}
    BY <2>1, AmongLists, PayNotClaimed, FinishList
  <2>5. ~AllCash
    BY <1>2 DEF AllCash
  <2>6. Fits(j)
    BY <2>3, <2>4, <2>5, FitsPrepaid DEF Harmless
  <2>7. Settles
    BY <1>1, <2>3, QuietSettles DEF eventVars
  <2> QED
    BY <2>3, <2>6, <2>7, CallKeeps
<1> QED
  BY <1>3, <1>4

LEMMA CancelOrderKeeps ==
    ASSUME LifecycleConstants, IInv, Closing, NEW w \in Workers, NEW o \in Orders,
           CancelOrder(w, o)
    PROVE  Closing'
<1>1. PICK s : s = << "setIfSame" >>
  OBVIOUS
<1>2. PICK g : g = << "refundIfPaid" >>
  OBVIOUS
<1>3. PICK paid : paid = (paymentStatus[o] = "PAID" /\ o \in collected)
  OBVIOUS
<1>4. PICK r : r = ReturnStock
  OBVIOUS
<1>5. PICK c : c = Recall
  OBVIOUS
<1>6. PICK q : q = g \o c
  OBVIOUS
<1>7. PICK t : t = r \o q
  OBVIOUS
<1>8. PICK j : j = [Job(o, s \o t) EXCEPT !.verdict = "CANCELLED", !.seen = status[o],
                                          !.flag = paid]
  OBVIOUS
<1>9. "setIfSame" \in Statements /\ "refundIfPaid" \in Statements
  BY DEF Statements
<1>10. /\ s \in Seq(Statements) /\ g \in Seq(Statements) /\ Among(g) = {"refundIfPaid"}
      /\ r \in Seq(Statements) /\ Among(r) = Restoring
      /\ c \in Seq(Statements) /\ Among(c) = Recalling
  BY <1>1, <1>2, <1>4, <1>5, <1>9, AmongOne, AmongLists
<1>11. q \in Seq(Statements) /\ Among(q) = {"refundIfPaid"} \cup Recalling
  BY <1>10, <1>6, AmongJoined
<1>12. t \in Seq(Statements) /\ Among(t) = Restoring \cup {"refundIfPaid"} \cup Recalling
  BY <1>10, <1>11, <1>7, AmongJoined
<1>13. ((s \o r) \o g) \o c = s \o t
  <2>1. PICK p : p = s \o r
    OBVIOUS
  <2>2. p \in Seq(Statements)
    BY <1>10, <2>1, AmongJoined
  <2>3. (p \o g) \o c = p \o q
    BY SMTT(30), <1>10, <1>6, <2>2, ConcatAssociative
  <2>4. (s \o r) \o q = s \o (r \o q)
    <3>1. s \in Seq(Statements) /\ r \in Seq(Statements) /\ q \in Seq(Statements)
      BY <1>10, <1>11
    <3> QED
      BY <3>1, ConcatAssociative
  <2>5. p \o q = s \o t
    BY <1>7, <2>1, <2>4
  <2> QED
    BY <2>1, <2>3, <2>5
<1>14. Run(w, "cancelOrder", [Job(o, ((s \o r) \o g) \o c)
                                EXCEPT !.verdict = "CANCELLED", !.seen = status[o],
                                       !.flag = paid])
  BY <1>1, <1>2, <1>3, <1>4, <1>5 DEF CancelOrder
<1>15. Run(w, "cancelOrder", j)
  BY <1>8, <1>13, <1>14
<1>16. /\ j.todo = << "setIfSame" >> \o t /\ j.seen = status[o] /\ j.verdict = "CANCELLED"
       /\ status[o] \notin CLOSED
  BY <1>1, <1>8 DEF Job, NoJob, CancelOrder, CANCELLABLE, CLOSED
<1>17. "CANCELLED" \in CLOSED
  BY DEF CLOSED
<1>18. Among(t) \cap (Following \cup Prepaying \cup {"setIfSame"}) = {}
  BY <1>12, Clear
<1>19. Fits(j)
  BY <1>12, <1>16, <1>17, <1>18, FitsDecision
<1>20. Settles
  BY QuietSettles DEF CancelOrder, eventVars
<1> QED
  BY <1>15, <1>19, <1>20, CallKeeps

\* The ladder is climbed from an open status, and stock goes back on the way
\* to a closed one.
LEMMA SetStatusKeeps ==
    ASSUME LifecycleConstants, IInv, Closing, NEW w \in Workers, NEW o \in Orders,
           NEW to \in OrderStatuses, SetStatus(w, o, to)
    PROVE  Closing'
<1>1. PICK s : s = << "setIfSame" >>
  OBVIOUS
<1>2. PICK a : a = IF to \in CLOSED THEN ReturnStock ELSE << >>
  OBVIOUS
<1>3. PICK b : b = IF to = "CANCELLED" THEN Recall ELSE << >>
  OBVIOUS
<1>4. PICK j : j = [Job(o, s \o (a \o b)) EXCEPT !.verdict = to, !.seen = status[o]]
  OBVIOUS
<1>5. "setIfSame" \in Statements
  BY DEF Statements
<1>6. s \in Seq(Statements)
  BY <1>1, <1>5, AmongOne
<1>7. /\ a \in Seq(Statements) /\ Among(a) \subseteq Restoring
      /\ to \notin CLOSED => Among(a) = {}
  BY <1>2, AmongLists, AmongNone
<1>8. b \in Seq(Statements) /\ Among(b) \subseteq Recalling
  BY <1>3, AmongLists, AmongNone
<1>9. a \o b \in Seq(Statements) /\ Among(a \o b) = Among(a) \cup Among(b)
  BY <1>7, <1>8, AmongJoined
<1>10. (s \o a) \o b = s \o (a \o b)
  BY <1>6, <1>7, <1>8, ConcatAssociative
<1>11. Run(w, "setStatus", [Job(o, (s \o a) \o b) EXCEPT !.verdict = to, !.seen = status[o]])
  BY <1>1, <1>2, <1>3 DEF SetStatus
<1>12. Run(w, "setStatus", j) /\ "setStatus" \in Requests
  BY <1>4, <1>10, <1>11 DEF Run
<1>13. /\ j.todo = << "setIfSame" >> \o (a \o b) /\ j.seen = status[o] /\ j.verdict = to
       /\ status[o] \notin CLOSED
  BY <1>1, <1>4 DEF Job, NoJob, SetStatus, isValidStatusTransition, canonicalOrderStatus, CLOSED
<1>14. Among(a \o b) \cap (Following \cup Prepaying \cup {"setIfSame"}) = {}
  BY <1>7, <1>8, <1>9, Clear
<1>15. Among(a \o b) \cap Restoring # {} => to \in CLOSED
  BY <1>7, <1>8, <1>9, Clear
<1>16. Fits(j)
  BY <1>9, <1>12, <1>13, <1>14, <1>15, FitsDecision
<1>17. Settles
  BY QuietSettles DEF SetStatus, eventVars
<1> QED
  BY <1>12, <1>16, <1>17, CallKeeps

\* A refund that throws is passed over; a refused gateway order is still voided.
LEMMA StatementFailsKeeps ==
    ASSUME LifecycleConstants, IInv, Closing, NEW w \in Workers, StatementFails(w)
    PROVE  Closing'
<1>1. Ready(w) /\ Types /\ ReadOpen /\ job[w] \in Jobs
  BY DEF IInv, Closing, Types
<1>2. GoOn(w, AfterThrow(w)) /\ job[w].todo # << >>
  BY <1>1 DEF StatementFails, Ready
<1>3. UNCHANGED << status, restored, paymentStatus >>
  BY DEF StatementFails, orderVars
<1>4. \A e \in Event : events'[e] # "none" => events[e] # "none"
  <2>1. job[w].event # None => events[job[w].event] # "none" /\ job[w].event \in Event
    BY <1>1 DEF Ready, Jobs
  <2>2. \/ UNCHANGED events
        \/ job[w].event # None /\ events' = [events EXCEPT ![job[w].event] = "FAILED"]
    BY DEF StatementFails
  <2> QED
    BY <1>1, <2>1, <2>2 DEF Types
<1>5. Settles
  BY <1>3, <1>4 DEF Settles
<1>6. CASE At(w, "refundIfPaid")
  <2>1. GoOn(w, Next1(w))
    BY <1>2, <1>6 DEF AfterThrow
  <2> QED
    BY <1>4, <1>5, <1>6, <2>1, PlainKeeps
<1>7. CASE ~At(w, "refundIfPaid")
  <2>1. PICK voided \in BOOLEAN : voided <=> "voidOrder" \in Range(Tail(job[w].todo))
    OBVIOUS
  <2>2. PICK t : t = IF voided THEN << "voidOrder" >> ELSE << >>
    OBVIOUS
  <2>3. PICK j : j = [job[w] EXCEPT !.todo = t]
    OBVIOUS
  <2>4. GoOn(w, j) /\ j.todo = t
    BY <1>1, <1>2, <1>7, <2>1, <2>2, <2>3 DEF AfterThrow, Jobs
  <2>5. "voidOrder" \in Statements
    BY DEF Statements
  <2>6. /\ t \in Seq(Statements)
        /\ Among(t) \subseteq {"voidOrder"} /\ (~voided => Among(t) = {})
    BY <2>2, <2>5, AmongOne, AmongNone
  <2>7. ~Claimed(t)
    BY <2>6, NotClaimed
  <2>8. voided => ~AllCash
    <3>1. ASSUME voided  PROVE "voidOrder" \in Left(w)
      <4>1. job[w].todo \in Seq(Statements)
        BY <1>1 DEF Jobs
      <4>2. /\ Len(Tail(job[w].todo)) = Len(job[w].todo) - 1 /\ Len(job[w].todo) \in Nat
            /\ \A i \in 1 .. Len(Tail(job[w].todo)) : Tail(job[w].todo)[i] = job[w].todo[i + 1]
            /\ DOMAIN Tail(job[w].todo) = 1 .. Len(Tail(job[w].todo))
        BY <1>2, <4>1
      <4>3. PICK i \in 1 .. Len(Tail(job[w].todo)) : Tail(job[w].todo)[i] = "voidOrder"
        BY <2>1, <3>1, <4>2 DEF Range
      <4>4. i + 1 \in 1 .. Len(job[w].todo) /\ job[w].todo[i + 1] = "voidOrder"
        BY <4>2, <4>3
      <4> QED
        BY <4>4 DEF Left, Among
    <3>2. AllCash => "voidOrder" \notin Left(w)
      BY DEF Closing, CashOnly, Prepaying
    <3> QED
      BY <3>1, <3>2
  <2>9. Fits(j)
    <3>1. CASE voided
      BY <2>4, <2>6, <2>7, <2>8, <3>1, FitsPrepaid
    <3>2. CASE ~voided
      BY <2>4, <2>6, <3>2, FitsHarmless
    <3> QED
      BY <3>1, <3>2
  <2> QED
    BY <1>5, <2>4, <2>9, GoOnKeeps
<1> QED
  BY <1>6, <1>7

-----------------------------------------------------------------------------
(* The invariant holds.                                                    *)

LEMMA StepKeeps ==
    ASSUME LifecycleConstants, IInv, Closing, NEW w \in Workers, Step(w)
    PROVE  Closing'
<1>1. Unscanned
  BY DEF Closing
<1>2. /\ ~At(w, "moveShipment") /\ ~At(w, "moveShipping") /\ ~At(w, "readStatus")
      /\ ~At(w, "follow") /\ ~At(w, "collectCash") /\ ~At(w, "sellReserved")
  BY <1>1, NotFollowing DEF Following
<1>3. /\ ~MoveShipment(w) /\ ~MoveShipping(w) /\ ~ReadStatus(w)
      /\ ~Follow(w) /\ ~CollectCash(w) /\ ~SellReserved(w)
  BY <1>2 DEF MoveShipment, MoveShipping, ReadStatus, Follow, CollectCash, SellReserved
<1> QED
  BY <1>3, QuietStatements, InsertOrderKeeps, OpenPaymentKeeps, CancellingKeeps, FetchKeeps,
     ClaimPaidKeeps, ConfirmKeeps, ClaimRestoreKeeps, SetIfSameKeeps
  DEF Step

\* No scan is applied where nobody asks the courier and its webhook is not called.
LEMMA NobodyScans ==
    ASSUME NoScans, NEW w \in Workers, NEW o \in Orders
    PROVE  ~Track(w, o) /\ \A scan \in Scans : ~ScanWebhook(w, o, scan)
  BY DEF NoScans, Track, ScanWebhook, Run

LEMMA InitClosing ==
    ASSUME LifecycleConstants, Init
    PROVE  Closing
<1>1. ASSUME NEW w \in Workers
      PROVE  /\ Left(w) = {} /\ ~At(w, "setIfSame") /\ Decides(job[w].todo)
             /\ ~Claimed(job[w].todo)
  <2>1. job[w] = NoJob
    BY DEF Init
  <2> QED
    BY <2>1, EmptyFits, NoJobWellFormed DEF Left, Fits, At
<1>2. Unscanned /\ ReadOpen
  BY <1>1 DEF Unscanned, ReadOpen, Init
<1>3. Ungraded
  BY <1>1 DEF Ungraded, UnpaidNeverFulfilled, Init
<1>4. CashOnly
  BY <1>1 DEF CashOnly, Init
<1> QED
  BY <1>2, <1>3, <1>4 DEF Closing

LEMMA NextClosing ==
    ASSUME LifecycleConstants, NoScans, IInv, Closing, [Next]_vars
    PROVE  Closing'
<1>1. ASSUME NEW w \in Workers, Step(w)  PROVE Closing'
  BY <1>1, StepKeeps
<1>2. ASSUME NEW w \in Workers, Sweep(w)  PROVE Closing'
  BY <1>2, GiveUpKeeps, ReplayKeeps DEF Sweep
<1>3. ASSUME NEW w \in Workers, NEW o \in Orders, Request(w, o)  PROVE Closing'
  BY <1>3, NobodyScans, CheckoutKeeps, ShortCallKeeps, GiveUpKeeps, CancelOrderKeeps,
     PaymentWebhookKeeps, SetStatusKeeps
  DEF Request
<1>4. ASSUME NEW o \in Orders, NEW extent \in {"part", "full"}, AdminRefund(o, extent)
      PROVE  Closing'
  <2>1. UNCHANGED << status, restored, events, job >>
    BY <1>4 DEF AdminRefund, stockVars, eventVars
  <2>2. \A p \in Orders : paymentStatus[p] \in Settled => paymentStatus'[p] \in Settled
    BY <1>4 DEF AdminRefund, GiveBack, Settled, IInv, Types
  <2> QED
    BY <2>1, <2>2, NobodyKeeps DEF Settles
<1>5. ASSUME NEW o \in Orders, NEW k \in Attempts, GatewayMoves(o, k)  PROVE Closing'
  <2>1. UNCHANGED << status, restored, paymentStatus, events, job >>
    BY <1>5 DEF GatewayMoves, orderVars, stockVars, eventVars
  <2> QED
    BY <2>1, NobodyKeeps DEF Settles
<1>6. ASSUME NEW o \in Orders, CourierMoves(o)  PROVE Closing'
  <2>1. UNCHANGED << status, restored, paymentStatus, events, job >>
    BY <1>6 DEF CourierMoves, orderVars, stockVars, eventVars
  <2> QED
    BY <2>1, NobodyKeeps DEF Settles
<1>7. CASE UNCHANGED vars
  <2>1. UNCHANGED << status, restored, paymentStatus, events, job >>
    BY <1>7 DEF vars
  <2> QED
    BY <2>1, NobodyKeeps DEF Settles
<1> QED
  BY <1>1, <1>2, <1>3, <1>4, <1>5, <1>6, <1>7, StatementFailsKeeps, CrashKeeps DEF Next

LEMMA AlwaysClosing ==
    ASSUME NoScans
    PROVE  Spec => [](IInv /\ Closing)
<1>1. Init => IInv /\ Closing
  BY InitIInv, InitClosing, LifecycleConstants
<1>2. IInv /\ Closing /\ [Next]_vars => (IInv /\ Closing)'
  BY NextIInv, NextClosing, LifecycleConstants
<1> QED
  BY <1>1, <1>2, PTL DEF Spec

-----------------------------------------------------------------------------
(* The theorems.                                                           *)

\* Only five statements write the status of an order.
LEMMA StatusStays ==
    ASSUME NEW w \in Workers,
           Step(w), ~InsertOrder(w), ~VoidOrder(w), ~Confirm(w), ~CancelUnpaid(w),
           ~SetIfSame(w), ~Follow(w)
    PROVE  UNCHANGED status
<1>1. CASE Deduct(w) \/ OpenPayment(w) \/ Fetch(w) \/ RecordPayment(w) \/ InsertAttempt(w)
           \/ ClaimPaid(w) \/ CommitStock(w)
  BY <1>1 DEF orderVars, Deduct, OpenPayment, Fetch, RecordPayment, InsertAttempt, ClaimPaid,
     CommitStock
<1>2. CASE FailPayment(w) \/ ClaimRestore(w) \/ Restock(w) \/ RefundIfPaid(w)
           \/ RecallShipment(w) \/ RecallOrder(w)
  BY <1>2 DEF orderVars, FailPayment, ClaimRestore, Restock, RefundIfPaid, RecallShipment,
     RecallOrder
<1>3. CASE OpenShipment(w) \/ AssignAwb(w) \/ NoteAwb(w) \/ MoveShipment(w) \/ MoveShipping(w)
           \/ ReadStatus(w)
  BY <1>3 DEF orderVars, OpenShipment, AssignAwb, NoteAwb, MoveShipment, MoveShipping, ReadStatus
<1>4. CASE CollectCash(w) \/ SellReserved(w) \/ Finish(w)
  BY <1>4 DEF orderVars, CollectCash, SellReserved, Finish
<1> QED
  BY <1>1, <1>2, <1>3, <1>4 DEF Step

LEMMA RequestsWriteNoStatus ==
    ASSUME NEW w \in Workers,
           \/ Sweep(w) \/ StatementFails(w) \/ \E o \in Orders : Request(w, o)
    PROVE  UNCHANGED status
<1>1. CASE Sweep(w)
  BY <1>1 DEF Sweep, Expire, Replay, orderVars
<1>2. CASE StatementFails(w)
  BY <1>2 DEF StatementFails, orderVars
<1>3. ASSUME NEW o \in Orders, Request(w, o)  PROVE UNCHANGED status
  BY <1>3 DEF Request, Checkout, Retry, CancelPayment, CancelOrder, Book, Unbook, Track, Verify,
     PaymentWebhook, ScanWebhook, SetStatus, orderVars
<1> QED
  BY <1>1, <1>2, <1>3

LEMMA ClosedStays ==
    ASSUME LifecycleConstants, IInv, Closing, [Next]_vars, NEW o \in Orders, status[o] \in CLOSED,
           "setStatus" \notin Requests \/ AllCash
    PROVE  status'[o] = status[o]
<1>1. Types /\ \A w \in Workers : Ready(w)
  BY DEF IInv
<1>2. status[o] # "none" /\ status[o] # "PENDING_PAYMENT"
  BY DEF CLOSED
<1>3. ASSUME NEW w \in Workers, InsertOrder(w)  PROVE status'[o] = status[o]
  <2>1. status[job[w].order] = "none"
    BY <1>1, <1>3 DEF Ready, InsertOrder
  <2> QED
    BY <1>1, <1>2, <1>3, <2>1 DEF InsertOrder, Types
<1>4. ASSUME NEW w \in Workers, Confirm(w) \/ CancelUnpaid(w)  PROVE status'[o] = status[o]
  BY <1>1, <1>2, <1>4 DEF Confirm, CancelUnpaid, Types
<1>5. ASSUME NEW w \in Workers, VoidOrder(w)  PROVE status'[o] = status[o]
  <2>1. At(w, "voidOrder") /\ status' = [status EXCEPT ![job[w].order] = "CANCELLED"]
    BY <1>5 DEF VoidOrder
  <2>2. "voidOrder" \in Left(w)
    BY <1>1, <2>1, HeadLeft
  <2>3. ~AllCash
    BY <2>2 DEF Closing, CashOnly, Prepaying
  <2>4. status[o] = "CANCELLED"
    BY <2>3 DEF Closing, Ungraded, CLOSED
  <2> QED
    BY <1>1, <2>1, <2>4 DEF Types
<1>6. ASSUME NEW w \in Workers, SetIfSame(w)  PROVE status'[o] = status[o]
  <2>1. job[w].seen \notin CLOSED
    BY <1>6 DEF SetIfSame, Closing, ReadOpen
  <2> QED
    BY <1>1, <1>6, <2>1 DEF SetIfSame, Types
<1>7. ASSUME NEW w \in Workers  PROVE ~Follow(w)
  <2>1. ~At(w, "follow")
    BY NotFollowing DEF Closing, Following
  <2> QED
    BY <2>1 DEF Follow
<1>8. ASSUME NEW w \in Workers, Step(w)  PROVE status'[o] = status[o]
  BY <1>3, <1>4, <1>5, <1>6, <1>7, <1>8, StatusStays
<1>9. ASSUME NEW w \in Workers, Sweep(w) \/ StatementFails(w) \/ \E p \in Orders : Request(w, p)
      PROVE  status'[o] = status[o]
  BY <1>9, RequestsWriteNoStatus
<1>10. ASSUME NEW p \in Orders, \/ \E extent \in {"part", "full"} : AdminRefund(p, extent)
                                \/ \E k \in Attempts : GatewayMoves(p, k)
                                \/ CourierMoves(p)
       PROVE  status'[o] = status[o]
  BY <1>10 DEF AdminRefund, GatewayMoves, CourierMoves, orderVars
<1>11. CASE Crash \/ UNCHANGED vars
  BY <1>11 DEF Crash, vars, orderVars
<1> QED
  BY <1>8, <1>9, <1>10, <1>11 DEF Next

\* Where no scan is applied, a cancelled or returned order stays as it ended,
\* whichever handler had read it while it was open: nobody climbs the ladder, or
\* no order is prepaid, so that none is voided by a gateway that refuses it.
THEOREM ClosedStaysClosed ==
    ASSUME NoScans, "setStatus" \notin Requests \/ AllCash
    PROVE  Spec => ClosedIsFinal
<1>1. IInv /\ Closing /\ [Next]_vars => \A o \in Orders : status[o] \in CLOSED => status'[o] = status[o]
  BY ClosedStays, LifecycleConstants
<1>2. Spec => [](IInv /\ Closing)
  BY AlwaysClosing
<1>3. Spec => [][Next]_vars
  BY DEF Spec
<1> QED
  BY <1>1, <1>2, <1>3, PTL DEF ClosedIsFinal

\* Where nobody climbs the ladder by hand, no handler fulfils an order that is
\* not paid, although none of them looks at the payment in the UPDATE it makes.
THEOREM UnpaidIsNotFulfilled ==
    ASSUME NoScans, "setStatus" \notin Requests
    PROVE  Spec => []UnpaidNeverFulfilled
<1>1. Closing => UnpaidNeverFulfilled
  BY DEF Closing, Ungraded
<1>2. Spec => [](IInv /\ Closing)
  BY AlwaysClosing
<1> QED
  BY <1>1, <1>2, PTL

\* Where every order is paid on delivery, an order that is open has its unit:
\* stock goes back only after the statement that closes the order.
THEOREM LiveOrdersHoldStock ==
    ASSUME NoScans, AllCash
    PROVE  Spec => []LiveOrderHoldsStock
<1>1. IInv /\ Closing => LiveOrderHoldsStock
  <2> SUFFICES ASSUME IInv, Closing, NEW o \in Orders, status[o] \notin CLOSED \cup {"none"}
               PROVE  o \in committed \ restored
    BY DEF LiveOrderHoldsStock
  <2>1. o \in committed
    BY DEF IInv, Inserted
  <2>2. o \notin restored
    BY DEF Closing, CashOnly
  <2> QED
    BY <2>1, <2>2
<1>2. Spec => [](IInv /\ Closing)
  BY AlwaysClosing
<1> QED
  BY <1>1, <1>2, PTL

-----------------------------------------------------------------------------
(* What an event marked PROCESSED has left behind.                         *)

LEMMA AmongRest ==
    ASSUME NEW m \in Nat, NEW i, NEW j, i.todo \in Seq(Statements), Rest(j, i, m)
    PROVE  /\ Among(j.todo) \subseteq Among(i.todo) /\ m <= Len(i.todo)
           /\ Among(i.todo) \subseteq Among(j.todo) \cup {i.todo[k] : k \in 1 .. m}
           /\ \A k \in 1 .. Len(j.todo) : j.todo[k] = i.todo[k + m] /\ k + m \in 1 .. Len(i.todo)
<1>1. j.todo \in Seq(Statements) /\ Len(j.todo) + m = Len(i.todo)
      /\ \A k \in 1 .. Len(j.todo) : j.todo[k] = i.todo[k + m]
  BY DEF Rest, Drops
<1>2. Len(j.todo) \in Nat /\ Len(i.todo) \in Nat
  BY <1>1
<1>3. \A k \in 1 .. Len(j.todo) : j.todo[k] = i.todo[k + m] /\ k + m \in 1 .. Len(i.todo)
  BY <1>1, <1>2
<1>4. Among(j.todo) \subseteq Among(i.todo)
  BY <1>3 DEF Among
<1>5. ASSUME NEW k \in 1 .. Len(i.todo)
      PROVE  i.todo[k] \in Among(j.todo) \cup {i.todo[n] : n \in 1 .. m}
  <2>1. CASE k \in 1 .. m
    BY <2>1
  <2>2. CASE k \notin 1 .. m
    <3>1. k - m \in 1 .. Len(j.todo) /\ (k - m) + m = k
      BY <1>1, <1>2, <2>2
    <3>2. j.todo[k - m] = i.todo[k]
      BY <1>1, <3>1
    <3> QED
      BY <3>1, <3>2 DEF Among
  <2> QED
    BY <2>1, <2>2
<1>6. Among(i.todo) \subseteq Among(j.todo) \cup {i.todo[k] : k \in 1 .. m}
  BY <1>5 DEF Among
<1> QED
  BY <1>1, <1>2, <1>3, <1>4, <1>6

LEMMA ScriptedRest ==
    ASSUME NEW m \in Nat \ {0}, NEW i, NEW j, i.todo \in Seq(Statements), Rest(j, i, m), Scripted(i)
    PROVE  Scripted(j)
<1>1. /\ Among(j.todo) \subseteq Among(i.todo) /\ m <= Len(i.todo)
      /\ Among(i.todo) \subseteq Among(j.todo) \cup {i.todo[k] : k \in 1 .. m}
      /\ \A k \in 1 .. Len(j.todo) : j.todo[k] = i.todo[k + m] /\ k + m \in 1 .. Len(i.todo)
      /\ m \in Nat /\ m > 0
  <2>1. m \in Nat /\ m > 0
    OBVIOUS
  <2> QED
    BY <2>1, AmongRest
<1>2. j.order = i.order /\ j.event = i.event /\ j.verdict = i.verdict
      /\ Len(j.todo) + m = Len(i.todo) /\ Len(j.todo) \in Nat /\ j.todo \in Seq(Statements)
  BY DEF Rest, Drops
<1>3. \A k \in 1 .. Len(j.todo) : j.todo[k] # "moveShipment"
                                  /\ (j.todo[k] = "finish" => k = Len(j.todo))
  <2> TAKE k \in 1 .. Len(j.todo)
  <2>1. k + m # 1 /\ (k + m = Len(i.todo) => k = Len(j.todo))
    BY <1>1, <1>2
  <2> QED
    BY <1>1, <2>1 DEF Scripted
<1>4. \A k \in 1 .. Len(j.todo) : j.todo[k] = "moveShipping" =>
         k = 1 /\ m = 1 /\ i.todo[1] = "moveShipment"
  <2> SUFFICES ASSUME NEW k \in 1 .. Len(j.todo), j.todo[k] = "moveShipping"
               PROVE  k = 1 /\ m = 1 /\ i.todo[1] = "moveShipment"
    OBVIOUS
  <2>1. k + m # 1 /\ k + m \in 1 .. Len(i.todo) /\ i.todo[k + m] = "moveShipping"
    BY <1>1
  <2>2. i.todo[(k + m) - 1] = "moveShipment"
    BY <2>1 DEF Scripted, After
  <2>3. (k + m) - 1 \in 1 .. Len(i.todo)
    BY <1>1, <1>2, <2>1
  <2>4. (k + m) - 1 = 1
    BY <2>2, <2>3 DEF Scripted
  <2> QED
    BY <1>1, <2>2, <2>4
<1>5. After(j.todo, "moveShipping", "moveShipment")
  BY <1>4 DEF After
<1>6. ASSUME "moveShipping" \in Among(j.todo)
      PROVE  Among(i.todo) \subseteq Among(j.todo) \cup {"moveShipment"}
  <2>1. m = 1 /\ i.todo[1] = "moveShipment"
    BY <1>4, <1>6 DEF Among
  <2> QED
    BY <1>1, <2>1
<1> QED
  BY <1>1, <1>2, <1>3, <1>5, <1>6 DEF Scripted

LEMMA ScriptedNoJob ==
    ASSUME LifecycleConstants
    PROVE  Scripted(NoJob) /\ Among(NoJob.todo) = {}
<1>1. NoJob.todo = << >> /\ NoJob.event = None
  BY NoJobWellFormed
<1>2. Among(<< >>) = {}
  BY DEF Among
<1> QED
  BY <1>1, <1>2 DEF Scripted, After

-----------------------------------------------------------------------------
(* Going on.                                                               *)

\* w leaves the statements P behind.
Passing(w, P) ==
    /\ Alone(w) /\ Scripted(job'[w])
    /\ Left(w)' \subseteq Left(w) /\ Left(w) \subseteq Left(w)' \cup P
    /\ \/ job'[w] = NoJob
       \/ /\ job'[w].order = job[w].order /\ job'[w].event = job[w].event
          /\ job'[w].verdict = job[w].verdict

LEMMA RestPassing ==
    ASSUME LifecycleConstants, IInv, Scripts, NEW w \in Workers, NEW m \in Nat \ {0},
           NEW j, Rest(j, job[w], m), GoOn(w, j), NEW P, \A k \in 1 .. m : job[w].todo[k] \in P
    PROVE  /\ Passing(w, P)
           /\ \A x, p : After(job[w].todo, x, p) /\ At(w, x)' => job[w].todo[m] = p
<1>1. Ready(w) /\ job \in [Workers -> Jobs] /\ WellFormed(job[w])
  BY DEF IInv, Types, Ready
<1>2. job[w].todo \in Seq(Statements)
  BY <1>1 DEF Jobs
<1>3. /\ Among(j.todo) \subseteq Among(job[w].todo)
      /\ Among(job[w].todo) \subseteq Among(j.todo) \cup P
  <2>1. m \in Nat
    OBVIOUS
  <2>2. /\ Among(j.todo) \subseteq Among(job[w].todo)
        /\ Among(job[w].todo) \subseteq Among(j.todo) \cup {job[w].todo[k] : k \in 1 .. m}
    BY <1>2, <2>1, AmongRest
  <2> QED
    BY <2>2
<1>4. Scripted(j)
  BY <1>2, ScriptedRest DEF Scripts
<1>5. /\ \A v \in Workers \ {w} : job'[v] = job[v]
      /\ \A x, p : After(job[w].todo, x, p) /\ m > 0 /\ At(w, x)' => job[w].todo[m] = p
  BY <1>1, WentOn
<1>6. job'[w] = IF j.todo = << >> THEN NoJob ELSE j
  BY <1>1 DEF GoOn
<1>7. CASE j.todo = << >>
  <2>1. job'[w] = NoJob /\ Among(NoJob.todo) = {} /\ Scripted(NoJob) /\ Among(j.todo) = {}
    BY <1>6, <1>7, ScriptedNoJob, NoJobWellFormed
  <2> QED
    BY <1>3, <1>5, <2>1 DEF Passing, Alone, Left
<1>8. CASE j.todo # << >>
  <2>1. job'[w] = j
    BY <1>6, <1>8
  <2> QED
    BY <1>3, <1>4, <1>5, <2>1 DEF Passing, Alone, Left, Rest
<1> QED
  BY <1>7, <1>8

LEMMA NextPassing ==
    ASSUME LifecycleConstants, IInv, Scripts, NEW w \in Workers, NEW s, At(w, s),
           GoOn(w, Next1(w))
    PROVE  /\ Passing(w, {s})
           /\ \A x, p : After(job[w].todo, x, p) /\ At(w, x)' => s = p
<1>1. Ready(w) /\ job \in [Workers -> Jobs]
  BY DEF IInv, Types
<1>2. job[w].todo # << >> /\ job[w].todo[1] = s
  BY <1>1, AtHead
<1>3. Rest(Next1(w), job[w], 1)
  BY <1>1, <1>2, NextRest
<1>4. \A k \in 1 .. 1 : job[w].todo[k] \in {s}
  BY <1>2
<1>5. 1 \in Nat \ {0}
  OBVIOUS
<1> QED
  BY <1>2, <1>3, <1>4, <1>5, RestPassing

\* The branch not taken is one statement, n.
LEMMA SkipPassing ==
    ASSUME LifecycleConstants, IInv, Scripts, NEW w \in Workers, NEW s, At(w, s), NEW n,
           Before(job[w].todo, s, n), GoOn(w, Skipping(w, 1))
    PROVE  /\ Passing(w, {s, n})
           /\ \A x, p : After(job[w].todo, x, p) /\ At(w, x)' => n = p
<1>1. Ready(w) /\ job \in [Workers -> Jobs]
  BY DEF IInv, Types
<1>2. /\ job[w].todo \in Seq(Statements) /\ Len(job[w].todo) > 0 /\ job[w].todo[1] = s
  BY <1>1, AtHead
<1>3. 1 \in 1 .. Len(job[w].todo)
  BY <1>2
<1>4. 1 + 1 <= Len(job[w].todo) /\ job[w].todo[1 + 1] = n
  BY <1>2, <1>3 DEF Before
<1>5. Rest(Skipping(w, 1), job[w], 1 + 1) /\ 1 + 1 \in Nat \ {0}
  BY <1>1, <1>4, SkipRest
<1>6. \A k \in 1 .. (1 + 1) : job[w].todo[k] \in {s, n}
  <2>1. \A k \in 1 .. (1 + 1) : k = 1 \/ k = 1 + 1
    OBVIOUS
  <2> QED
    BY <1>2, <1>4, <2>1
<1> QED
  BY <1>4, <1>5, <1>6, RestPassing

-----------------------------------------------------------------------------
(* What lasts.                                                             *)

\* What no step undoes.
Steady ==
    /\ collected \subseteq collected' /\ restored \subseteq restored'
    /\ \A o \in Orders :
          /\ status[o] # "none" => status'[o] # "none"
          /\ status'[o] = "PENDING_PAYMENT" => status[o] \in {"PENDING_PAYMENT", "none"}
          /\ paymentStatus'[o] = "COD_PENDING" =>
                paymentStatus[o] = "COD_PENDING" \/ (status[o] = "none" /\ Method[o] = "cod")
          /\ paymentStatus'[o] \in Settled => paymentStatus[o] \in Settled \/ o \in collected'
          /\ o \in collected' => o \in collected \/ paymentStatus'[o] \in Settled
          /\ paymentStatus[o] \in Settled =>
                \/ paymentStatus'[o] \in Settled
                \/ \E w \in Workers : job[w].order = o /\ At(w, "voidOrder")
          /\ shippingStatus[o] # "NOT_SHIPPED" => shippingStatus'[o] # "NOT_SHIPPED"
          /\ shippingStatus'[o] = shippingStatus[o] \/ status[o] # "none"

\* w keeps on its list what it is about to execute, or executes it.
Carries(w) ==
    \A s \in {"collectCash", "claimRestore"} :
        s \in Left(w) /\ Left(w) \subseteq Aftermath =>
           \/ job'[w].order = job[w].order /\ s \in Left(w)' /\ Left(w)' \subseteq Aftermath
           \/ s = "collectCash" /\ paymentStatus'[job[w].order] # "COD_PENDING"
           \/ s = "claimRestore" /\ job[w].order \in restored'

\* What the step does to the handler of w.
Minds(w) ==
    /\ Scripted(job'[w]) /\ Carries(w)
    /\ At(w, "commitStock") \/ At(w, "confirm") =>
          \/ status'[job[w].order] # "PENDING_PAYMENT"
          \/ job'[w].order = job[w].order /\ (At(w, "commitStock") \/ At(w, "confirm"))'
    /\ job'[w].event # None /\ Left(w)' \cap Awaits(job'[w].event) = {} =>
          \/ job'[w].event = job[w].event /\ Left(w) \cap Awaits(job[w].event) = {}
          \/ Effect(job[w].event)'
    /\ "follow" \in Left(w)' /\ "moveShipping" \notin Left(w)' /\ job'[w].verdict = "DELIVERED" =>
          \/ /\ job'[w].order = job[w].order /\ job[w].verdict = "DELIVERED"
             /\ "follow" \in Left(w) /\ "moveShipping" \notin Left(w)
          \/ CashIn(job[w].order)'

\* What the step does to the rows.
Outcome ==
    /\ \A o \in Orders : Method[o] = "online" /\ o \in collected' =>
          o \in collected \/ \E w \in Workers : job'[w].order = o /\ At(w, "commitStock")'
    /\ \A e \in Event : events'[e] = "PROCESSED" => events[e] = "PROCESSED" \/ Effect(e)'
    /\ \A o \in Orders :
          /\ shippingStatus'[o] = "DELIVERED" => shippingStatus[o] = "DELIVERED" \/ CashIn(o)'
          /\ shippingStatus'[o] = "RTO_DELIVERED" =>
                shippingStatus[o] = "RTO_DELIVERED" \/ UnitBack(o)'
          /\ "setStatus" \notin Requests /\ status'[o] = "DELIVERED" =>
                status[o] = "DELIVERED" \/ CashIn(o)'

LEMMA Lasting ==
    ASSUME Steady, \A w \in Workers : Carries(w), NEW o \in Orders, status[o] # "none"
    PROVE  (CashIn(o) => CashIn(o)') /\ (UnitBack(o) => UnitBack(o)')
<1>1. ASSUME Underway(o, "collectCash")  PROVE CashIn(o)'
  <2>1. PICK w \in Workers : /\ job[w].order = o /\ "collectCash" \in Left(w)
                             /\ Left(w) \subseteq Aftermath
    BY <1>1 DEF Underway
  <2>2. \/ job'[w].order = o /\ "collectCash" \in Left(w)' /\ Left(w)' \subseteq Aftermath
        \/ paymentStatus'[o] # "COD_PENDING"
    BY <2>1 DEF Carries
  <2> QED
    BY <2>2 DEF CashIn, Underway, Left
<1>2. ASSUME Underway(o, "claimRestore")  PROVE UnitBack(o)'
  <2>1. PICK w \in Workers : /\ job[w].order = o /\ "claimRestore" \in Left(w)
                             /\ Left(w) \subseteq Aftermath
    BY <1>2 DEF Underway
  <2>2. \/ job'[w].order = o /\ "claimRestore" \in Left(w)' /\ Left(w)' \subseteq Aftermath
        \/ o \in restored'
    BY <2>1 DEF Carries
  <2> QED
    BY <2>2 DEF UnitBack, Underway, Left
<1>3. /\ paymentStatus[o] # "COD_PENDING" => paymentStatus'[o] # "COD_PENDING"
      /\ o \in restored => o \in restored'
  BY DEF Steady
<1> QED
  BY <1>1, <1>2, <1>3 DEF CashIn, UnitBack

LEMMA LastingEffect ==
    ASSUME Steady, \A w \in Workers : Carries(w), NEW e \in Event, status[e.order] # "none",
           Effect(e)
    PROVE  Effect(e)'
<1>1. e.order \in Orders
  BY EventOrder
<1>2. (CashIn(e.order) => CashIn(e.order)') /\ (UnitBack(e.order) => UnitBack(e.order)')
  BY <1>1, Lasting
<1>3. /\ e.order \in collected => e.order \in collected'
      /\ status[e.order] # "PENDING_PAYMENT" => status'[e.order] # "PENDING_PAYMENT"
      /\ shippingStatus[e.order] # "NOT_SHIPPED" => shippingStatus'[e.order] # "NOT_SHIPPED"
  BY <1>1 DEF Steady
<1> QED
  BY <1>2, <1>3 DEF Effect

LEMMA WorkerEvent ==
    ASSUME IInv, NEW w \in Workers, job[w].event # None
    PROVE  job[w].event \in Event /\ status[job[w].event.order] # "none"
<1>1. job[w].event \in Event /\ events[job[w].event] # "none"
  BY DEF IInv, Types, Jobs, Ready
<1> QED
  BY <1>1 DEF IInv, Inserted

LEMMA FollowOrder ==
    ASSUME LifecycleConstants, IInv, Scripts, NEW w \in Workers, "follow" \in Left(w)
    PROVE  job[w].order \in Orders /\ status[job[w].order] # "none"
<1>1. Ready(w) /\ WellFormed(job[w]) /\ job[w].todo \in Seq(Statements)
  BY DEF IInv, Ready, WellFormed, Jobs
<1>2. Left(w) \subseteq Aftermath \cup {"moveShipment", "moveShipping"}
  BY DEF Scripts, Scripted, Left
<1>3. job[w].todo # << >>
  BY DEF Left, Among
<1>4. 1 \in 1 .. Len(job[w].todo) /\ Head(job[w].todo) = job[w].todo[1]
  BY <1>1, <1>3
<1>5. Head(job[w].todo) \in Left(w)
  BY <1>4 DEF Left, Among
<1>6. ~At(w, "deduct") /\ ~At(w, "insertOrder")
  BY <1>2, <1>5 DEF At, Aftermath
<1> QED
  BY <1>1, <1>3, <1>6 DEF Ready, WellFormed, Equipped

LEMMA InEffectStays ==
    ASSUME LifecycleConstants, IInv, InEffect, Steady,
           \A w \in Workers : Minds(w), Outcome, Voided'
    PROVE  InEffect'
<1>1. \A w \in Workers : Carries(w) /\ Scripted(job'[w])
  BY DEF Minds
<1>2. Inserted /\ Scripts /\ Charged /\ Shown /\ Worked /\ HandedOver /\ Cash
  BY DEF IInv, InEffect
<1>3. Scripts'
  <2>1. \A w \in Workers : Scripted(job[w])'
    BY <1>1 DEF Scripted, Among, After, Aftermath, Reports
  <2> QED
    BY <2>1 DEF Scripts
<1>4. Cash'
  BY <1>2 DEF Cash, Steady
<1>5. Charged'
  <2> SUFFICES ASSUME NEW o \in Orders, Method[o] = "online", o \in collected',
                      status'[o] = "PENDING_PAYMENT"
               PROVE  \E w \in Workers : /\ job'[w].order = o
                                         /\ At(w, "commitStock")' \/ At(w, "confirm")'
    BY DEF Charged
  <2>1. CASE o \in collected
    <3>1. status[o] = "PENDING_PAYMENT"
      BY <1>2, <2>1 DEF Steady, Inserted
    <3>2. PICK w \in Workers : job[w].order = o /\ (At(w, "commitStock") \/ At(w, "confirm"))
      BY <1>2, <2>1, <3>1 DEF Charged
    <3> QED
      BY <3>2 DEF Minds
  <2>2. CASE o \notin collected
    BY <2>2 DEF Outcome
  <2> QED
    BY <2>1, <2>2
<1>6. Shown'
  <2> SUFFICES ASSUME NEW o \in Orders
               PROVE  /\ status'[o] = "none" => shippingStatus'[o] = "NOT_SHIPPED"
                      /\ shippingStatus'[o] = "DELIVERED" => CashIn(o)'
                      /\ shippingStatus'[o] = "RTO_DELIVERED" => UnitBack(o)'
    BY DEF Shown
  <2>1. CASE status[o] = "none"
    <3>1. shippingStatus'[o] = "NOT_SHIPPED"
      BY <1>2, <2>1 DEF Shown, Steady
    <3> QED
      BY <3>1
  <2>2. CASE status[o] # "none"
    <3>1. (CashIn(o) => CashIn(o)') /\ (UnitBack(o) => UnitBack(o)')
      BY <1>1, <2>2, Lasting
    <3>2. status'[o] # "none"
      BY <2>2 DEF Steady
    <3> QED
      BY <1>2, <3>1, <3>2 DEF Shown, Outcome
  <2> QED
    BY <2>1, <2>2
<1>7. Worked'
  <2>1. ASSUME NEW e \in Event, events'[e] = "PROCESSED"  PROVE Effect(e)'
    <3>1. CASE events[e] = "PROCESSED"
      <4>1. status[e.order] # "none" /\ Effect(e)
        BY <1>2, <3>1 DEF Inserted, Worked
      <4> QED
        BY <1>1, <4>1, LastingEffect
    <3> QED
      BY <2>1, <3>1 DEF Outcome
  <2>2. ASSUME NEW w \in Workers, job'[w].event # None,
               Left(w)' \cap Awaits(job'[w].event) = {}
        PROVE  Effect(job[w].event)'
    <3>1. CASE job'[w].event = job[w].event /\ Left(w) \cap Awaits(job[w].event) = {}
      <4>1. PICK e : e = job[w].event
        OBVIOUS
      <4>2. e \in Event /\ status[e.order] # "none" /\ Effect(e)
        BY <1>2, <2>2, <3>1, <4>1, WorkerEvent DEF Worked
      <4>3. Effect(e)'
        BY <1>1, <4>2, LastingEffect
      <4> QED
        BY <3>1, <4>1, <4>3
    <3> QED
      BY <2>2, <3>1 DEF Minds
  <2>3. ASSUME NEW w \in Workers, "follow" \in Left(w)', "moveShipping" \notin Left(w)',
               job'[w].verdict = "DELIVERED"
        PROVE  CashIn(job[w].order)'
    <3>1. CASE /\ job'[w].order = job[w].order /\ job[w].verdict = "DELIVERED"
               /\ "follow" \in Left(w) /\ "moveShipping" \notin Left(w)
      <4>1. PICK o : o = job[w].order
        OBVIOUS
      <4>2. o \in Orders /\ status[o] # "none" /\ CashIn(o)
        BY <1>2, <3>1, <4>1, FollowOrder DEF Worked
      <4>3. CashIn(o)'
        BY <1>1, <4>2, Lasting
      <4> QED
        BY <3>1, <4>1, <4>3
    <3> QED
      BY <2>3, <3>1 DEF Minds
  <2>4. \A w \in Workers :
          /\ job'[w].event # None /\ Left(w)' \cap Awaits(job'[w].event) = {} => Effect(job[w].event)'
          /\ "follow" \in Left(w)' /\ "moveShipping" \notin Left(w)' /\ job'[w].verdict = "DELIVERED"
                => CashIn(job[w].order)'
    BY <2>2, <2>3
  <2> QED
    BY <2>1, <2>4 DEF Worked, Awaits
<1>8. HandedOver'
  <2> SUFFICES ASSUME NEW o \in Orders, "setStatus" \notin Requests, status'[o] = "DELIVERED"
               PROVE  CashIn(o)'
    BY DEF HandedOver
  <2>1. CASE status[o] = "DELIVERED"
    <3>1. CashIn(o) /\ status[o] # "none"
      BY <1>2, <2>1 DEF HandedOver
    <3> QED
      BY <1>1, <3>1, Lasting
  <2> QED
    BY <2>1 DEF Outcome
<1> QED
  BY <1>3, <1>4, <1>5, <1>6, <1>7, <1>8 DEF InEffect

\* The handler of another worker.
LEMMA Undisturbed ==
    ASSUME Scripts, NEW w \in Workers, job'[w] = job[w]
    PROVE  Minds(w)
<1>1. Left(w)' = Left(w) /\ Scripted(job'[w])
  BY DEF Left, Scripts
<1> QED
  BY <1>1 DEF Minds, Carries, At

\* A handler that passes the statements P.
LEMMA PassingMinds ==
    ASSUME NEW w \in Workers, NEW s, At(w, s), NEW P, Passing(w, P),
           "collectCash" \in P => paymentStatus'[job[w].order] # "COD_PENDING",
           "claimRestore" \in P => job[w].order \in restored',
           s \in {"commitStock", "confirm"} =>
              \/ status'[job[w].order] # "PENDING_PAYMENT"
              \/ job'[w].order = job[w].order /\ At(w, "confirm")',
           job'[w].event # None /\ P \cap Awaits(job[w].event) # {} =>
              \/ Left(w)' \cap Awaits(job[w].event) # {}
              \/ Effect(job[w].event)',
           "moveShipping" \in P /\ job'[w].order = job[w].order /\ job[w].verdict = "DELIVERED" =>
              CashIn(job[w].order)'
    PROVE  Minds(w)
<1>1. /\ Scripted(job'[w])
      /\ Left(w)' \subseteq Left(w) /\ Left(w) \subseteq Left(w)' \cup P
  BY DEF Passing
<1>2. CASE job'[w].todo = << >> /\ job'[w].event = None
  <2>1. Left(w)' = {}
    BY <1>2 DEF Left, Among
  <2>2. Left(w) \subseteq P
    BY <1>1, <2>1
  <2>3. Carries(w)
    BY <2>2 DEF Carries
  <2> QED
    BY <1>1, <1>2, <2>1, <2>3 DEF Minds, At
<1>3. CASE /\ job'[w].order = job[w].order /\ job'[w].event = job[w].event
           /\ job'[w].verdict = job[w].verdict
  <2>1. Carries(w)
    BY <1>1, <1>3 DEF Carries
  <2>2. At(w, "commitStock") \/ At(w, "confirm") =>
          \/ status'[job[w].order] # "PENDING_PAYMENT"
          \/ job'[w].order = job[w].order /\ (At(w, "commitStock") \/ At(w, "confirm"))'
    BY DEF At
  <2>3. job'[w].event # None /\ Left(w)' \cap Awaits(job'[w].event) = {} =>
          \/ job'[w].event = job[w].event /\ Left(w) \cap Awaits(job[w].event) = {}
          \/ Effect(job[w].event)'
    BY <1>1, <1>3
  <2>4. ASSUME "follow" \in Left(w)', "moveShipping" \notin Left(w)',
               job'[w].verdict = "DELIVERED"
        PROVE  \/ /\ job'[w].order = job[w].order /\ job[w].verdict = "DELIVERED"
                  /\ "follow" \in Left(w) /\ "moveShipping" \notin Left(w)
               \/ CashIn(job[w].order)'
    BY <1>1, <1>3, <2>4
  <2> QED
    BY <1>1, <2>1, <2>2, <2>3, <2>4 DEF Minds
<1>4. job'[w] = NoJob => job'[w].todo = << >> /\ job'[w].event = None
  <2>1. NoJob.todo = << >> /\ NoJob.event = None
    BY DEF NoJob
  <2> QED
    BY <2>1
<1>5. \/ job'[w] = NoJob
      \/ /\ job'[w].order = job[w].order /\ job'[w].event = job[w].event
         /\ job'[w].verdict = job[w].verdict
  BY DEF Passing
<1> QED
  BY <1>2, <1>3, <1>4, <1>5

\* A handler that is over although it was to do more.
LEMMA EndMinds ==
    ASSUME LifecycleConstants, IInv, NEW w \in Workers, NEW s, At(w, s),
           s \notin Aftermath \cup {"commitStock", "confirm"}, GoOn(w, NoJob)
    PROVE  Minds(w) /\ Alone(w) /\ Left(w)' = {}
<1>1. /\ job'[w] = NoJob /\ Alone(w) /\ Scripted(NoJob) /\ Among(NoJob.todo) = {}
      /\ NoJob.event = None
  <2>1. NoJob.todo = << >> /\ NoJob.event = None /\ job \in [Workers -> Jobs]
    BY NoJobWellFormed DEF IInv, Types
  <2>2. job' = [job EXCEPT ![w] = NoJob]
    BY DEF GoOn
  <2> QED
    BY <2>1, <2>2, ScriptedNoJob DEF Alone
<1>2. s \in Left(w)
  BY HeadLeft DEF IInv
<1>3. Left(w)' = {}
  BY <1>1 DEF Left
<1>4. ~At(w, "commitStock") /\ ~At(w, "confirm")
  BY DEF At
<1> QED
  BY <1>1, <1>2, <1>3, <1>4 DEF Minds, Carries

\* A list a handler may begin or go on with.
Fresh(j) ==
    /\ j.todo \in Seq(Statements) /\ Scripted(j)
    /\ j.event # None => Among(j.todo) \cap Awaits(j.event) # {}
    /\ "follow" \in Among(j.todo) => "moveShipping" \in Among(j.todo)

LEMMA FreshNoJob ==
    ASSUME LifecycleConstants
    PROVE  Fresh(NoJob)
<1>1. NoJob.todo = << >> /\ NoJob.event = None
  BY NoJobWellFormed
<1>2. << >> \in Seq(Statements)
  OBVIOUS
<1> QED
  BY <1>1, <1>2, ScriptedNoJob DEF Fresh

LEMMA FreshMinds ==
    ASSUME LifecycleConstants, IInv, NEW w \in Workers, NEW j, Fresh(j), job'[w] = j,
           \/ Idle(w)
           \/ \E s : s \notin Aftermath \cup {"commitStock", "confirm"} /\ At(w, s)
    PROVE  Minds(w)
<1>1. /\ {"collectCash", "claimRestore"} \cap Left(w) = {} \/ ~(Left(w) \subseteq Aftermath)
      /\ ~At(w, "commitStock") /\ ~At(w, "confirm")
  <2>1. CASE Idle(w)
    BY <2>1, IdleNowhere, ScriptedNoJob DEF Idle, Left
  <2>2. CASE \E s : s \notin Aftermath \cup {"commitStock", "confirm"} /\ At(w, s)
    <3>1. PICK s : s \notin Aftermath \cup {"commitStock", "confirm"} /\ At(w, s)
      BY <2>2
    <3>2. s \in Left(w)
      BY <3>1, HeadLeft DEF IInv
    <3> QED
      BY <3>1, <3>2 DEF At
  <2> QED
    BY <2>1, <2>2
<1>2. Left(w)' = Among(j.todo)
  BY DEF Left
<1> QED
  BY <1>1, <1>2 DEF Minds, Carries, Fresh

LEMMA VoidedStays ==
    ASSUME LifecycleConstants, IInv, Steady, Voided,
           \A o \in Orders, k \in Attempts :
              gateway'[o][k] # {} => gateway[o][k] # {} \/ "retry" \in Requests,
           \A w \in Workers : "voidOrder" \in Left(w)' =>
              "voidOrder" \in Left(w) /\ job'[w].order = job[w].order,
           \A w \in Workers : At(w, "openPayment")' =>
              \/ At(w, "openPayment") /\ job'[w].order = job[w].order
              \/ status[job'[w].order] = "none"
    PROVE  Voided'
<1> SUFFICES ASSUME "retry" \notin Requests
             PROVE  /\ \A o \in Orders : /\ \A k \in Retries : gateway'[o][k] = {}
                                         /\ o \in collected' => paymentStatus'[o] \in Settled
                    /\ \A w \in Workers : "voidOrder" \in Left(w)' =>
                          /\ Method[job'[w].order] = "online" /\ gateway'[job'[w].order][0] = {}
                          /\ \A v \in Workers : At(v, "openPayment")' => job'[v].order # job'[w].order
  BY DEF Voided
<1>1. 0 \in Attempts /\ Retries \subseteq Attempts /\ \A k \in Attempts : k = 0 \/ k \in Retries
  BY DEF Attempts, Retries, LifecycleConstants
<1>2. ASSUME NEW w \in Workers, "voidOrder" \in Left(w)
      PROVE  job[w].order \in Orders /\ status[job[w].order] # "none"
  <2>1. Ready(w) /\ Equipped(job[w])
    BY DEF IInv, Ready, WellFormed
  <2>2. Has(job[w].todo, {"voidOrder"}) /\ job[w].todo # << >>
    BY <1>2 DEF Left, Among, Has
  <2>3. ~Has(job[w].todo, {"deduct", "insertOrder"}) /\ job[w].order \in Orders
    BY <2>1, <2>2 DEF Equipped
  <2>4. \A s : At(w, s) => Has(job[w].todo, {s})
    BY <2>1, AtHead
  <2>5. ~At(w, "deduct") /\ ~At(w, "insertOrder")
    BY <2>3, <2>4 DEF Has
  <2> QED
    BY <2>1, <2>2, <2>3, <2>5 DEF Ready
<1>3. \A o \in Orders, k \in Retries : gateway'[o][k] = {}
  BY <1>1 DEF Voided
<1>4. ASSUME NEW o \in Orders, o \in collected'  PROVE paymentStatus'[o] \in Settled
  <2> SUFFICES ASSUME paymentStatus'[o] \notin Settled
               PROVE  FALSE
    OBVIOUS
  <2>1. o \in collected
    BY <1>4 DEF Steady
  <2>2. paymentStatus[o] \in Settled
    BY <2>1 DEF Voided
  <2>3. PICK w \in Workers : job[w].order = o /\ At(w, "voidOrder")
    BY <2>2 DEF Steady
  <2>4. "voidOrder" \in Left(w)
    BY <2>3, HeadLeft DEF IInv
  <2>5. Method[o] = "online" /\ \A k \in Attempts : gateway[o][k] = {}
    BY <1>1, <2>3, <2>4 DEF Voided
  <2>6. ~Captured(o)
    BY <2>5 DEF Captured
  <2> QED
    BY <2>1, <2>5, <2>6 DEF IInv, Money
<1>5. ASSUME NEW w \in Workers, "voidOrder" \in Left(w)'
      PROVE  /\ Method[job'[w].order] = "online" /\ gateway'[job'[w].order][0] = {}
             /\ \A v \in Workers : At(v, "openPayment")' => job'[v].order # job'[w].order
  <2>1. "voidOrder" \in Left(w) /\ job'[w].order = job[w].order
    BY <1>5
  <2>2. job[w].order \in Orders /\ status[job[w].order] # "none"
    BY <1>2, <2>1
  <2>3. Method[job[w].order] = "online" /\ gateway[job[w].order][0] = {}
        /\ \A v \in Workers : At(v, "openPayment") => job[v].order # job[w].order
    BY <2>1 DEF Voided
  <2>4. gateway'[job[w].order][0] = {}
    BY <1>1, <2>2, <2>3
  <2>5. \A v \in Workers : At(v, "openPayment")' => job'[v].order # job[w].order
    BY <2>2, <2>3
  <2> QED
    BY <2>1, <2>3, <2>4, <2>5
<1> QED
  BY <1>3, <1>4, <1>5

LEMMA SameRows ==
    ASSUME UNCHANGED << status, paymentStatus, shippingStatus, collected, restored >>
    PROVE  Steady
  BY DEF Steady

LEMMA StepSteady ==
    ASSUME LifecycleConstants, IInv, NEW w \in Workers, Step(w)
    PROVE  Steady
<1>1. PICK o : o = job[w].order
  OBVIOUS
<1>2. Ready(w) /\ Types /\ Inserted
  BY DEF IInv
<1>3. \A s : At(w, s) => o \in Orders /\ (s \notin {"deduct", "insertOrder"} => status[o] # "none")
  BY <1>1, <1>2, AtHead
<1>4. /\ status \in [Orders -> OrderStatuses \cup {"none"}]
      /\ paymentStatus \in [Orders -> PaymentStatuses \cup {"none"}]
      /\ shippingStatus \in [Orders -> Scans \cup {"NOT_SHIPPED", "AWB_ASSIGNED", "CANCELLED"}]
  BY <1>2 DEF Types
<1>5. CASE \/ Deduct(w) \/ OpenPayment(w) \/ Fetch(w) \/ RecordPayment(w) \/ InsertAttempt(w)
           \/ CommitStock(w) \/ Restock(w) \/ RecallShipment(w) \/ OpenShipment(w) \/ AssignAwb(w)
           \/ MoveShipment(w) \/ ReadStatus(w) \/ SellReserved(w) \/ Finish(w)
  <2>1. UNCHANGED << status, paymentStatus, shippingStatus, collected, restored >>
    BY <1>5 DEF Deduct, OpenPayment, Fetch, RecordPayment, InsertAttempt, CommitStock, Restock,
                RecallShipment, OpenShipment, AssignAwb, MoveShipment, ReadStatus, SellReserved,
                Finish, orderVars, stockVars
  <2> QED
    BY <2>1, SameRows
<1>6. CASE InsertOrder(w)
  <2>1. /\ At(w, "insertOrder") /\ UNCHANGED << shippingStatus, collected, restored >>
        /\ status' = [status EXCEPT ![o] = IF Method[o] = "online" THEN "PENDING_PAYMENT"
                                                                   ELSE "PLACED"]
        /\ paymentStatus' = [paymentStatus EXCEPT ![o] = IF Method[o] = "online" THEN "PENDING"
                                                                                ELSE "COD_PENDING"]
    BY <1>1, <1>6 DEF InsertOrder
  <2>2. status[o] = "none" /\ o \in Orders /\ Method[o] \in {"online", "cod"}
        /\ paymentStatus[o] = "none"
    BY <1>1, <1>2, <1>3, <2>1 DEF Ready, Inserted, LifecycleConstants
  <2>3. \A p \in Orders : p # o => status'[p] = status[p] /\ paymentStatus'[p] = paymentStatus[p]
    BY <1>4, <2>1
  <2>4. /\ status'[o] = IF Method[o] = "online" THEN "PENDING_PAYMENT" ELSE "PLACED"
        /\ paymentStatus'[o] = IF Method[o] = "online" THEN "PENDING" ELSE "COD_PENDING"
    BY <1>4, <2>1, <2>2
  <2> QED
    BY <2>1, <2>2, <2>3, <2>4 DEF Steady, Settled
<1>7. CASE VoidOrder(w)
  <2>1. /\ At(w, "voidOrder") /\ UNCHANGED << shippingStatus, collected, restored >>
        /\ status' = [status EXCEPT ![o] = "CANCELLED"]
        /\ paymentStatus' = [paymentStatus EXCEPT ![o] = "FAILED"]
    BY <1>1, <1>7 DEF VoidOrder, stockVars
  <2>2. o \in Orders /\ status'[o] = "CANCELLED" /\ paymentStatus'[o] = "FAILED"
        /\ \A p \in Orders : p # o => status'[p] = status[p] /\ paymentStatus'[p] = paymentStatus[p]
    BY <1>3, <1>4, <2>1
  <2> QED
    BY <1>1, <2>1, <2>2 DEF Steady, Settled
<1>8. CASE ClaimPaid(w) \/ CollectCash(w)
  <2>1. /\ UNCHANGED << status, shippingStatus, restored >>
        /\ \/ UNCHANGED << paymentStatus, collected >>
           \/ /\ paymentStatus' = [paymentStatus EXCEPT ![o] = "PAID"]
              /\ collected' = collected \cup {o}
    BY <1>1, <1>8 DEF ClaimPaid, CollectCash, stockVars
  <2>2. CASE UNCHANGED << paymentStatus, collected >>
    BY <2>1, <2>2, SameRows
  <2>3. CASE /\ paymentStatus' = [paymentStatus EXCEPT ![o] = "PAID"]
             /\ collected' = collected \cup {o}
    <3>1. \A p \in Orders : paymentStatus'[p] = IF p = o THEN "PAID" ELSE paymentStatus[p]
      BY <1>4, <2>3
    <3> QED
      BY <2>1, <2>3, <3>1 DEF Steady, Settled
  <2> QED
    BY <2>1, <2>2, <2>3
<1>9. CASE Confirm(w) \/ CancelUnpaid(w) \/ SetIfSame(w) \/ Follow(w)
  <2>1. UNCHANGED << paymentStatus, shippingStatus, collected, restored >>
    BY <1>9 DEF Confirm, CancelUnpaid, SetIfSame, Follow, stockVars
  <2>2. \E x \in OrderStatuses \ {"PENDING_PAYMENT"} :
           \A p \in Orders : status'[p] = status[p] \/ (p = o /\ status'[p] = x)
    <3>1. CASE Confirm(w) \/ CancelUnpaid(w)
      <4>1. UNCHANGED status \/ \E x \in {"CONFIRMED", "CANCELLED"} : status' = [status EXCEPT ![o] = x]
        BY <1>1, <3>1 DEF Confirm, CancelUnpaid
      <4>2. {"CONFIRMED", "CANCELLED"} \subseteq OrderStatuses \ {"PENDING_PAYMENT"}
        BY DEF OrderStatuses
      <4>3. CASE UNCHANGED status
        BY <4>2, <4>3
      <4>4. CASE \E x \in {"CONFIRMED", "CANCELLED"} : status' = [status EXCEPT ![o] = x]
        <5>1. PICK x \in {"CONFIRMED", "CANCELLED"} : status' = [status EXCEPT ![o] = x]
          BY <4>4
        <5>2. \A p \in Orders : status'[p] = IF p = o THEN x ELSE status[p]
          BY <1>4, <5>1
        <5> QED
          BY <4>2, <5>2
      <4> QED
        BY <4>1, <4>3, <4>4
    <3>2. CASE SetIfSame(w)
      <4>1. At(w, "setIfSame")
            /\ (UNCHANGED status \/ status' = [status EXCEPT ![o] = job[w].verdict])
        BY <1>1, <3>2 DEF SetIfSame
      <4>2. job[w].verdict \in OrderStatuses \ {"PENDING_PAYMENT"}
        BY <1>2, <4>1, HeadEquipped
      <4>3. \A p \in Orders : status'[p] = status[p] \/ (p = o /\ status'[p] = job[w].verdict)
        BY <1>4, <4>1
      <4> QED
        BY <4>2, <4>3
    <3>3. CASE Follow(w)
      <4>1. At(w, "follow") /\ status' = [status EXCEPT ![o] = SHIPPING_TO_ORDER_STATUS[job[w].verdict]]
        BY <1>1, <3>3 DEF Follow
      <4>2. SHIPPING_TO_ORDER_STATUS[job[w].verdict] \in OrderStatuses \ {"PENDING_PAYMENT"}
        <5>1. job[w].verdict \in Scans
          BY <1>2, <4>1, HeadEquipped
        <5> QED
          BY <5>1 DEF Scans, SHIPPING_TO_ORDER_STATUS, OrderStatuses
      <4>3. \A p \in Orders : status'[p] = status[p]
                              \/ (p = o /\ status'[p] = SHIPPING_TO_ORDER_STATUS[job[w].verdict])
        BY <1>4, <4>1
      <4> QED
        BY <4>2, <4>3
    <3> QED
      BY <1>9, <3>1, <3>2, <3>3
  <2>3. "none" \notin OrderStatuses
    BY DEF OrderStatuses
  <2> QED
    BY <2>1, <2>2, <2>3 DEF Steady
<1>10. CASE FailPayment(w)
  <2>1. /\ At(w, "failPayment") /\ UNCHANGED << status, shippingStatus, collected, restored >>
        /\ \/ UNCHANGED paymentStatus
           \/ /\ paymentStatus[o] \notin Settled
              /\ paymentStatus' = [paymentStatus EXCEPT ![o] = job[w].verdict]
    BY <1>1, <1>10 DEF FailPayment, stockVars
  <2>2. job[w].verdict \in {"FAILED", "CANCELLED", "EXPIRED"}
    BY <1>2, <2>1, HeadEquipped
  <2>3. CASE UNCHANGED paymentStatus
    BY <2>1, <2>3, SameRows
  <2>4. CASE /\ paymentStatus[o] \notin Settled
             /\ paymentStatus' = [paymentStatus EXCEPT ![o] = job[w].verdict]
    <3>1. \A p \in Orders : paymentStatus'[p] = IF p = o THEN job[w].verdict ELSE paymentStatus[p]
      BY <1>4, <2>4
    <3> QED
      BY <2>1, <2>2, <2>4, <3>1 DEF Steady, Settled
  <2> QED
    BY <2>1, <2>3, <2>4
<1>11. CASE ClaimRestore(w)
  <2>1. UNCHANGED << status, paymentStatus, shippingStatus, collected >> /\ restored \subseteq restored'
    BY <1>11 DEF ClaimRestore, orderVars
  <2> QED
    BY <2>1 DEF Steady
<1>12. CASE RefundIfPaid(w)
  <2>1. /\ UNCHANGED << status, shippingStatus, collected, restored >>
        /\ UNCHANGED paymentStatus
           \/ (o \in collected /\ paymentStatus' = [paymentStatus EXCEPT ![o] = "REFUNDED"])
    BY <1>1, <1>12 DEF RefundIfPaid, GiveBack, Refundable, stockVars
  <2>2. CASE UNCHANGED paymentStatus
    BY <2>1, <2>2, SameRows
  <2>3. CASE o \in collected /\ paymentStatus' = [paymentStatus EXCEPT ![o] = "REFUNDED"]
    <3>1. \A p \in Orders : paymentStatus'[p] = IF p = o THEN "REFUNDED" ELSE paymentStatus[p]
      BY <1>4, <2>3
    <3> QED
      BY <2>1, <2>3, <3>1 DEF Steady, Settled
  <2> QED
    BY <2>1, <2>2, <2>3
<1>13. CASE MoveShipping(w) \/ NoteAwb(w) \/ RecallOrder(w)
  <2>1. /\ UNCHANGED << status, paymentStatus, collected, restored >>
        /\ \E s \in {"moveShipping", "noteAwb", "recallOrder"} : At(w, s)
        /\ \E x \in {job[w].verdict, "AWB_ASSIGNED", "CANCELLED"} :
              /\ x = job[w].verdict => At(w, "moveShipping") \/ x \in {"AWB_ASSIGNED", "CANCELLED"}
              /\ shippingStatus' = [shippingStatus EXCEPT ![o] = x]
    <3>1. UNCHANGED << status, paymentStatus, collected, restored >>
      BY <1>13 DEF MoveShipping, NoteAwb, RecallOrder, stockVars
    <3>2. /\ \E s \in {"moveShipping", "noteAwb", "recallOrder"} : At(w, s)
          /\ \E x \in {job[w].verdict, "AWB_ASSIGNED", "CANCELLED"} :
                /\ x = job[w].verdict => At(w, "moveShipping") \/ x \in {"AWB_ASSIGNED", "CANCELLED"}
                /\ shippingStatus' = [shippingStatus EXCEPT ![o] = x]
      BY <1>1, <1>13 DEF MoveShipping, NoteAwb, RecallOrder
    <3> QED
      BY <3>1, <3>2
  <2>2. PICK x : /\ x \in {job[w].verdict, "AWB_ASSIGNED", "CANCELLED"}
                 /\ x = job[w].verdict => At(w, "moveShipping") \/ x \in {"AWB_ASSIGNED", "CANCELLED"}
                 /\ shippingStatus' = [shippingStatus EXCEPT ![o] = x]
    BY <2>1
  <2>3. At(w, "moveShipping") => job[w].verdict \in Scans
    BY <1>2, HeadEquipped
  <2>4. x # "NOT_SHIPPED"
    BY <2>2, <2>3 DEF Scans, SHIPPING_TO_ORDER_STATUS
  <2>5. o \in Orders /\ status[o] # "none"
    BY <1>3, <2>1
  <2>6. \A p \in Orders : shippingStatus'[p] = IF p = o THEN x ELSE shippingStatus[p]
    BY <1>4, <2>2
  <2> QED
    BY <2>1, <2>4, <2>5, <2>6 DEF Steady
<1> QED
  BY <1>5, <1>6, <1>7, <1>8, <1>9, <1>10, <1>11, <1>12, <1>13 DEF Step

-----------------------------------------------------------------------------
(* The statements.                                                         *)

LEMMA OneMinds ==
    ASSUME Scripts, NEW w \in Workers, Alone(w), Minds(w)
    PROVE  \A v \in Workers : Minds(v)
<1>1. ASSUME NEW v \in Workers, v # w  PROVE Minds(v)
  BY <1>1, Undisturbed DEF Alone
<1> QED
  BY <1>1

\* Nothing that a scan or a payment leads to is written.
Quietly ==
    /\ UNCHANGED events /\ \A o \in Orders : Method[o] = "online" => (o \in collected' => o \in collected)
    /\ \A o \in Orders : shippingStatus'[o] \in {"DELIVERED", "RTO_DELIVERED"} =>
          shippingStatus'[o] = shippingStatus[o]
    /\ \A o \in Orders : status'[o] = "DELIVERED" => status[o] = "DELIVERED" \/ "setStatus" \in Requests

\* The gateway opens nothing that a voided order could be paid with.
Unopened ==
    \A o \in Orders, k \in Attempts :
        gateway'[o][k] # {} => gateway[o][k] # {} \/ "retry" \in Requests

LEMMA WorkerEffect ==
    ASSUME LifecycleConstants, IInv, InEffect, Steady, NEW w \in Workers, Alone(w), Minds(w),
           Unopened, Outcome,
           "voidOrder" \in Left(w)' => "voidOrder" \in Left(w) /\ job'[w].order = job[w].order,
           At(w, "openPayment")' => status[job'[w].order] = "none"
    PROVE  InEffect'
<1>1. \A v \in Workers : Minds(v)
  BY OneMinds DEF InEffect
<1>2. \A v \in Workers : "voidOrder" \in Left(v)' =>
              "voidOrder" \in Left(v) /\ job'[v].order = job[v].order
  BY DEF Alone, Left
<1>3. \A v \in Workers : At(v, "openPayment")' =>
              \/ At(v, "openPayment") /\ job'[v].order = job[v].order
              \/ status[job'[v].order] = "none"
  BY DEF Alone, At
<1>4. Voided'
  BY <1>2, <1>3, VoidedStays DEF InEffect, Unopened
<1> QED
  BY <1>1, <1>4, InEffectStays

\* w passes the statements P, the last of which is n.
LEMMA PassingEffect ==
    ASSUME LifecycleConstants, IInv, InEffect, Steady, NEW w \in Workers, NEW s, At(w, s), NEW P,
           Passing(w, P), NEW n, \A x, p : After(job[w].todo, x, p) /\ At(w, x)' => n = p,
           Unopened, Outcome, n # "insertOrder" \/ status[job[w].order] = "none",
           "collectCash" \in P => paymentStatus'[job[w].order] # "COD_PENDING",
           "claimRestore" \in P => job[w].order \in restored',
           s \in {"commitStock", "confirm"} =>
              \/ status'[job[w].order] # "PENDING_PAYMENT"
              \/ job'[w].order = job[w].order /\ At(w, "confirm")',
           job'[w].event # None /\ P \cap Awaits(job[w].event) # {} =>
              \/ Left(w)' \cap Awaits(job[w].event) # {}
              \/ Effect(job[w].event)',
           "moveShipping" \in P /\ job'[w].order = job[w].order /\ job[w].verdict = "DELIVERED" =>
              CashIn(job[w].order)'
    PROVE  InEffect'
<1>1. Minds(w) /\ Alone(w)
  BY PassingMinds DEF Passing
<1>2. ASSUME "voidOrder" \in Left(w)' \/ At(w, "openPayment")'
      PROVE  job'[w].order = job[w].order
  <2>1. job'[w].todo # << >>
    BY <1>2 DEF Left, Among, At
  <2>2. NoJob.todo = << >>
    BY NoJobWellFormed
  <2> QED
    BY <2>1, <2>2 DEF Passing
<1>3. At(w, "openPayment")' => n = "insertOrder"
  <2>1. After(job[w].todo, "openPayment", "insertOrder")
    BY DEF IInv, Ready, WellFormed, InOrder
  <2> QED
    BY <2>1
<1>4. "voidOrder" \in Left(w)' => "voidOrder" \in Left(w) /\ job'[w].order = job[w].order
  BY <1>2 DEF Passing
<1> QED
  BY <1>1, <1>2, <1>3, <1>4, WorkerEffect

LEMMA QuietOutcome ==
    ASSUME Quietly
    PROVE  Outcome
  BY DEF Quietly, Outcome

Deciding == {"claimPaid", "failPayment", "cancelUnpaid", "moveShipping"}

LEMMA QuietEffect ==
    ASSUME LifecycleConstants, IInv, InEffect, Steady, NEW w \in Workers, NEW s, At(w, s),
           Unopened, Quietly,
           \/ GoOn(w, Next1(w)) /\ (s # "insertOrder" \/ status[job[w].order] = "none")
           \/ \E n : /\ Before(job[w].todo, s, n) /\ GoOn(w, Skipping(w, 1))
                     /\ n \notin {"insertOrder", "collectCash", "claimRestore"} \cup Deciding
           \/ GoOn(w, NoJob) /\ s \notin Aftermath,
           s \notin {"collectCash", "claimRestore", "commitStock", "confirm"} \cup Deciding
    PROVE  InEffect'
<1>1. Outcome /\ Scripts
  BY QuietOutcome DEF InEffect
<1>2. \A e : Awaits(e) \subseteq Deciding
  BY DEF Awaits, Deciding
<1>3. CASE GoOn(w, Next1(w)) /\ (s # "insertOrder" \/ status[job[w].order] = "none")
  <2>1. Passing(w, {s}) /\ \A x, p : After(job[w].todo, x, p) /\ At(w, x)' => s = p
    BY <1>1, <1>3, NextPassing
  <2>2. {s} \cap Awaits(job[w].event) = {} /\ s # "moveShipping"
    BY <1>2 DEF Deciding
  <2> QED
    BY <1>1, <1>3, <2>1, <2>2, PassingEffect
<1>4. CASE \E n : /\ Before(job[w].todo, s, n) /\ GoOn(w, Skipping(w, 1))
                  /\ n \notin {"insertOrder", "collectCash", "claimRestore"} \cup Deciding
  <2>1. PICK n : /\ Before(job[w].todo, s, n) /\ GoOn(w, Skipping(w, 1))
                 /\ n \notin {"insertOrder", "collectCash", "claimRestore"} \cup Deciding
    BY <1>4
  <2>2. Passing(w, {s, n}) /\ \A x, p : After(job[w].todo, x, p) /\ At(w, x)' => n = p
    BY <1>1, <2>1, SkipPassing
  <2>3. /\ {s, n} \cap Awaits(job[w].event) = {} /\ "moveShipping" \notin {s, n}
        /\ "collectCash" \notin {s, n} /\ "claimRestore" \notin {s, n} /\ n # "insertOrder"
    BY <1>2, <2>1 DEF Deciding
  <2> QED
    BY <1>1, <2>2, <2>3, PassingEffect
<1>5. CASE GoOn(w, NoJob) /\ s \notin Aftermath
  <2>1. Minds(w) /\ Alone(w) /\ Left(w)' = {}
    BY <1>5, EndMinds
  <2>2. ~At(w, "openPayment")'
    <3>1. job'[w].todo = << >>
      <4>1. NoJob.todo = << >> /\ job \in [Workers -> Jobs]
        BY NoJobWellFormed DEF IInv, Types
      <4>2. job' = [job EXCEPT ![w] = NoJob]
        BY <1>5, <4>1 DEF GoOn
      <4> QED
        BY <4>1, <4>2
    <3> QED
      BY <3>1 DEF At
  <2> QED
    BY <1>1, <2>1, <2>2, WorkerEffect
<1> QED
  BY <1>3, <1>4, <1>5

LEMMA QuietStepEffect ==
    ASSUME LifecycleConstants, IInv, InEffect, NEW w \in Workers,
           \/ Deduct(w) \/ InsertOrder(w) \/ VoidOrder(w) \/ RecordPayment(w) \/ InsertAttempt(w)
           \/ Restock(w) \/ RefundIfPaid(w) \/ RecallShipment(w) \/ RecallOrder(w)
           \/ OpenShipment(w) \/ AssignAwb(w) \/ NoteAwb(w) \/ ReadStatus(w) \/ SellReserved(w)
           \/ SetIfSame(w)
    PROVE  InEffect'
<1>1. PICK o : o = job[w].order
  OBVIOUS
<1>2. Ready(w) /\ Types /\ InOrder(job[w].todo) /\ Scripts
  BY DEF IInv, Ready, WellFormed, InEffect
<1>3. /\ status \in [Orders -> OrderStatuses \cup {"none"}]
      /\ shippingStatus \in [Orders -> Scans \cup {"NOT_SHIPPED", "AWB_ASSIGNED", "CANCELLED"}]
  BY <1>2 DEF Types
<1>4. Steady
  BY StepSteady DEF Step
<1>5. ASSUME UNCHANGED << status, shippingStatus, collected, events, gateway >>
      PROVE  Quietly /\ Unopened
  BY <1>5 DEF Quietly, Unopened
<1>6. CASE Deduct(w) \/ OpenShipment(w) \/ AssignAwb(w)
  <2>1. UNCHANGED << status, shippingStatus, collected, events, gateway >>
    BY <1>6 DEF Deduct, OpenShipment, AssignAwb, orderVars, eventVars, world
  <2>2. \E s \in {"deduct", "openShipment", "assignAwb"} :
           At(w, s) /\ (GoOn(w, Next1(w)) \/ GoOn(w, NoJob))
    BY <1>6 DEF Deduct, OpenShipment, AssignAwb
  <2>3. PICK s \in {"deduct", "openShipment", "assignAwb"} :
           At(w, s) /\ (GoOn(w, Next1(w)) \/ GoOn(w, NoJob))
    BY <2>2
  <2>4. /\ s \notin {"collectCash", "claimRestore", "commitStock", "confirm"} \cup Deciding
        /\ s \notin Aftermath /\ s # "insertOrder"
    BY DEF Deciding, Aftermath
  <2> QED
    BY <1>4, <1>5, <2>1, <2>3, <2>4, QuietEffect
<1>7. CASE RecordPayment(w) \/ Restock(w) \/ RefundIfPaid(w) \/ SellReserved(w)
  <2>1. UNCHANGED << status, shippingStatus, collected, events, gateway >>
    BY <1>7 DEF RecordPayment, Restock, RefundIfPaid, SellReserved, orderVars, eventVars, world
  <2>2. \E s \in {"recordPayment", "restock", "refundIfPaid", "sellReserved"} :
           At(w, s) /\ GoOn(w, Next1(w))
    BY <1>7 DEF RecordPayment, Restock, RefundIfPaid, SellReserved
  <2>3. PICK s \in {"recordPayment", "restock", "refundIfPaid", "sellReserved"} :
           At(w, s) /\ GoOn(w, Next1(w))
    BY <2>2
  <2>4. /\ s \notin {"collectCash", "claimRestore", "commitStock", "confirm"} \cup Deciding
        /\ s # "insertOrder"
    BY DEF Deciding
  <2> QED
    BY <1>4, <1>5, <2>1, <2>3, <2>4, QuietEffect
<1>8. CASE InsertOrder(w)
  <2>1. /\ At(w, "insertOrder") /\ UNCHANGED << shippingStatus, collected, events, gateway >>
        /\ GoOn(w, Next1(w))
        /\ status' = [status EXCEPT ![o] = IF Method[o] = "online" THEN "PENDING_PAYMENT"
                                                                   ELSE "PLACED"]
    BY <1>1, <1>8 DEF InsertOrder, eventVars, world
  <2>2. status[job[w].order] = "none"
    BY <1>2, <2>1 DEF Ready
  <2>3. Quietly /\ Unopened
    BY <1>3, <2>1 DEF Quietly, Unopened
  <2> QED
    BY <1>4, <2>1, <2>2, <2>3, QuietEffect DEF Deciding
<1>9. CASE VoidOrder(w)
  <2>1. /\ At(w, "voidOrder") /\ UNCHANGED << shippingStatus, collected, events, gateway >>
        /\ GoOn(w, Next1(w)) /\ status' = [status EXCEPT ![o] = "CANCELLED"]
    BY <1>1, <1>9 DEF VoidOrder, eventVars, world
  <2>2. Quietly /\ Unopened
    BY <1>3, <2>1 DEF Quietly, Unopened
  <2> QED
    BY <1>4, <2>1, <2>2, QuietEffect DEF Deciding
<1>10. CASE InsertAttempt(w)
  <2>1. /\ At(w, "insertAttempt") /\ UNCHANGED << status, shippingStatus, collected, events >>
        /\ GoOn(w, Next1(w))
    BY <1>10 DEF InsertAttempt, orderVars, eventVars
  <2>2. "insertAttempt" \in Left(w)
    BY <1>2, <2>1, HeadLeft
  <2>3. "retry" \in Requests
    BY <1>2, <2>2 DEF Scripts, Scripted, Left
  <2>4. Quietly /\ Unopened
    BY <2>1, <2>3 DEF Quietly, Unopened
  <2> QED
    BY <1>4, <2>1, <2>4, QuietEffect DEF Deciding
<1>11. CASE RecallShipment(w)
  <2>1. /\ At(w, "recall") /\ UNCHANGED << status, shippingStatus, collected, events, gateway >>
        /\ GoOn(w, Next1(w)) \/ GoOn(w, Skipping(w, 1))
    BY <1>11 DEF RecallShipment, orderVars, eventVars
  <2>2. Before(job[w].todo, "recall", "recallOrder")
    BY <1>2 DEF InOrder
  <2> QED
    BY <1>4, <1>5, <2>1, <2>2, QuietEffect DEF Deciding
<1>12. CASE RecallOrder(w) \/ NoteAwb(w)
  <2>1. /\ UNCHANGED << status, collected, events, gateway >> /\ GoOn(w, Next1(w))
        /\ \E x \in {"CANCELLED", "AWB_ASSIGNED"} : shippingStatus' = [shippingStatus EXCEPT ![o] = x]
    BY <1>1, <1>12 DEF RecallOrder, NoteAwb, eventVars, world
  <2>2. Quietly /\ Unopened
    BY <1>3, <2>1 DEF Quietly, Unopened
  <2>3. CASE RecallOrder(w)
    <3>1. At(w, "recallOrder")
      BY <2>3 DEF RecallOrder
    <3> QED
      BY <1>4, <2>1, <2>2, <3>1, QuietEffect DEF Deciding
  <2>4. CASE NoteAwb(w)
    <3>1. At(w, "noteAwb")
      BY <2>4 DEF NoteAwb
    <3> QED
      BY <1>4, <2>1, <2>2, <3>1, QuietEffect DEF Deciding
  <2> QED
    BY <1>12, <2>3, <2>4
<1>13. CASE ReadStatus(w)
  <2>1. /\ At(w, "readStatus") /\ UNCHANGED << status, shippingStatus, collected, events, gateway >>
        /\ GoOn(w, Next1(w)) \/ GoOn(w, Skipping(w, 1))
    BY <1>13 DEF ReadStatus, orderVars, eventVars, world
  <2>2. Before(job[w].todo, "readStatus", "follow")
    BY <1>2 DEF InOrder
  <2>3. /\ "follow" \notin {"insertOrder", "collectCash", "claimRestore"} \cup Deciding
        /\ "readStatus" \notin {"collectCash", "claimRestore", "commitStock", "confirm"} \cup Deciding
        /\ "readStatus" # "insertOrder"
    BY DEF Deciding
  <2>4. Quietly /\ Unopened
    BY <1>5, <2>1
  <2> QED
    BY <1>4, <2>1, <2>2, <2>3, <2>4, QuietEffect
<1>14. CASE SetIfSame(w)
  <2>1. /\ At(w, "setIfSame") /\ UNCHANGED << shippingStatus, collected, events, gateway >>
        /\ GoOn(w, Next1(w)) \/ GoOn(w, NoJob)
        /\ UNCHANGED status \/ status' = [status EXCEPT ![o] = job[w].verdict]
    BY <1>1, <1>14 DEF SetIfSame, eventVars, world
  <2>2. "setIfSame" \in Left(w)
    BY <1>2, <2>1, HeadLeft
  <2>3. "setStatus" \notin Requests => job[w].verdict # "DELIVERED"
    BY <1>2, <2>2 DEF Scripts, Scripted, Left
  <2>4. Quietly /\ Unopened
    BY <1>3, <2>1, <2>3 DEF Quietly, Unopened
  <2> QED
    BY <1>4, <2>1, <2>4, QuietEffect DEF Deciding, Aftermath
<1> QED
  BY <1>6, <1>7, <1>8, <1>9, <1>10, <1>11, <1>12, <1>13, <1>14

\* The event of a handler that goes on.
LEMMA PassingEvent ==
    ASSUME LifecycleConstants, IInv, Scripts, NEW w \in Workers, NEW P, Passing(w, P),
           job'[w].event # None
    PROVE  /\ job'[w].event = job[w].event /\ job[w].event \in Event
           /\ job[w].event.order = job[w].order
<1>1. NoJob.event = None
  BY NoJobWellFormed
<1>2. job'[w].event = job[w].event
  BY <1>1 DEF Passing
<1>3. job[w].event \in Event
  BY <1>2, WorkerEvent
<1> QED
  BY <1>2, <1>3 DEF Scripts, Scripted

\* The statements that a payment event waits for, and what follows them.
LEMMA PaymentEffect ==
    ASSUME LifecycleConstants, IInv, InEffect, NEW w \in Workers,
           \/ ClaimPaid(w) \/ CommitStock(w) \/ Confirm(w) \/ FailPayment(w) \/ CancelUnpaid(w)
    PROVE  InEffect'
<1>1. PICK o : o = job[w].order
  OBVIOUS
<1>2. Ready(w) /\ Types /\ InOrder(job[w].todo) /\ Scripts /\ Cash /\ Charged
  BY DEF IInv, Ready, WellFormed, InEffect
<1>3. /\ status \in [Orders -> OrderStatuses \cup {"none"}]
  BY <1>2 DEF Types
<1>4. Steady
  BY StepSteady DEF Step
<1>5. \A s : At(w, s) => o \in Orders
  BY <1>1, <1>2, AtHead
<1>8. CASE ClaimPaid(w)
  <2>1. /\ At(w, "claimPaid") /\ UNCHANGED << status, shippingStatus, events, gateway >>
        /\ Before(job[w].todo, "claimPaid", "commitStock")
        /\ Before(job[w].todo, "commitStock", "confirm")
    BY <1>2, <1>8 DEF ClaimPaid, eventVars, world, InOrder
  <2>2. o \in collected'
    <3>1. CASE paymentStatus[o] # "PAID"
      BY <1>1, <1>8, <3>1 DEF ClaimPaid
    <3>2. CASE paymentStatus[o] = "PAID"
      BY <1>1, <1>2, <1>4, <1>5, <2>1, <3>2 DEF Cash, Settled, Steady
    <3> QED
      BY <3>1, <3>2
  <2>3. Unopened
    BY <2>1 DEF Unopened
  <2>4. ASSUME NEW P \in {{"claimPaid"}, Paying}, Passing(w, P), job'[w].event # None,
               P \cap Awaits(job[w].event) # {}
        PROVE  Effect(job[w].event)'
    <3>1. job[w].event.about = "captured"
      BY <2>4 DEF Awaits, Paying
    <3>2. job'[w].event = job[w].event /\ job[w].event.order = o
      BY <1>1, <1>2, <2>4, PassingEvent
    <3> QED
      BY <2>2, <3>1, <3>2 DEF Effect
  <2>5. CASE paymentStatus[o] # "PAID"
    <3>1. GoOn(w, Next1(w)) /\ collected' = collected \cup {o}
      BY <1>1, <1>8, <2>5 DEF ClaimPaid
    <3>2. Passing(w, {"claimPaid"}) /\ \A x, p : After(job[w].todo, x, p) /\ At(w, x)' => "claimPaid" = p
      BY <1>2, <2>1, <3>1, NextPassing
    <3>3. At(w, "commitStock")' /\ job'[w].order = o
      BY <1>1, <2>1, <3>1, Passes
    <3>4. Outcome
      BY <2>1, <3>1, <3>3 DEF Outcome
    <3>5. job'[w].event # None /\ {"claimPaid"} \cap Awaits(job[w].event) # {} => Effect(job[w].event)'
      BY <2>4, <3>2
    <3> QED
      BY <1>4, <2>1, <2>3, <3>2, <3>4, <3>5, PassingEffect
  <2>6. CASE paymentStatus[o] = "PAID"
    <3>1. GoOn(w, Skipping(w, 2)) /\ UNCHANGED collected
      BY <1>1, <1>8, <2>6 DEF ClaimPaid
    <3>2. /\ job[w].todo \in Seq(Statements) /\ Len(job[w].todo) > 0
          /\ job[w].todo[1] = "claimPaid"
      BY <1>2, <2>1, AtHead
    <3>3. 1 < Len(job[w].todo) /\ job[w].todo[1 + 1] = "commitStock"
      <4>1. 1 \in 1 .. Len(job[w].todo)
        BY <3>2
      <4> QED
        BY <2>1, <3>2, <4>1 DEF Before
    <3>4. 2 < Len(job[w].todo) /\ job[w].todo[2 + 1] = "confirm"
      <4>1. 2 \in 1 .. Len(job[w].todo) /\ job[w].todo[2] = "commitStock"
        BY <3>2, <3>3
      <4> QED
        BY <2>1, <4>1 DEF Before
    <3>5. Rest(Skipping(w, 2), job[w], 2 + 1) /\ 2 + 1 \in Nat \ {0}
      <4>1. 2 \in Nat /\ 2 + 1 <= Len(job[w].todo) /\ job \in [Workers -> Jobs]
        BY <1>2, <3>2, <3>4 DEF Types
      <4> QED
        BY <4>1, SkipRest
    <3>6. \A k \in 1 .. (2 + 1) : job[w].todo[k] \in Paying
      <4>1. \A k \in 1 .. (2 + 1) : k = 1 \/ k = 2 \/ k = 2 + 1
        OBVIOUS
      <4> QED
        BY <3>2, <3>3, <3>4, <4>1 DEF Paying
    <3>7. Passing(w, Paying) /\ \A x, p : After(job[w].todo, x, p) /\ At(w, x)' => "confirm" = p
      BY <1>2, <3>1, <3>4, <3>5, <3>6, RestPassing
    <3>8. Outcome
      BY <2>1, <3>1 DEF Outcome
    <3>9. job'[w].event # None /\ Paying \cap Awaits(job[w].event) # {} => Effect(job[w].event)'
      BY <2>4, <3>7
    <3>10. Paying \cap {"collectCash", "claimRestore", "moveShipping"} = {}
      BY DEF Paying
    <3> QED
      BY <1>4, <2>1, <2>3, <3>7, <3>8, <3>9, <3>10, PassingEffect
  <2> QED
    BY <2>5, <2>6
<1>9. CASE CommitStock(w)
  <2>1. /\ At(w, "commitStock") /\ GoOn(w, Next1(w))
        /\ UNCHANGED << status, shippingStatus, collected, events, gateway >>
        /\ Before(job[w].todo, "commitStock", "confirm")
    BY <1>2, <1>9 DEF CommitStock, orderVars, eventVars, world, InOrder
  <2>2. Unopened /\ Outcome
    BY <2>1 DEF Unopened, Outcome
  <2>3. Passing(w, {"commitStock"}) /\ \A x, p : After(job[w].todo, x, p) /\ At(w, x)' => "commitStock" = p
    BY <1>2, <2>1, NextPassing
  <2>4. At(w, "confirm")' /\ job'[w].order = job[w].order
    BY <2>1, Passes
  <2>5. {"commitStock"} \cap Awaits(job[w].event) = {}
    BY DEF Awaits
  <2> QED
    BY <1>4, <2>1, <2>2, <2>3, <2>4, <2>5, PassingEffect
<1>10. CASE Confirm(w)
  <2>1. /\ At(w, "confirm") /\ GoOn(w, Next1(w)) /\ UNCHANGED << shippingStatus, collected, events, gateway >>
        /\ status' = IF status[o] = "PENDING_PAYMENT" THEN [status EXCEPT ![o] = "CONFIRMED"]
                                                      ELSE status
    BY <1>1, <1>10 DEF Confirm, eventVars, world
  <2>2. /\ status'[o] # "PENDING_PAYMENT"
        /\ \A p \in Orders : status'[p] = "DELIVERED" => status[p] = "DELIVERED"
    BY <1>3, <1>5, <2>1
  <2>3. Unopened /\ Outcome
    BY <2>1, <2>2 DEF Unopened, Outcome
  <2>4. Passing(w, {"confirm"}) /\ \A x, p : After(job[w].todo, x, p) /\ At(w, x)' => "confirm" = p
    BY <1>2, <2>1, NextPassing
  <2>5. {"confirm"} \cap Awaits(job[w].event) = {}
    BY DEF Awaits
  <2> QED
    BY <1>1, <1>4, <2>1, <2>2, <2>3, <2>4, <2>5, PassingEffect
<1>11. CASE CancelUnpaid(w)
  <2>1. /\ At(w, "cancelUnpaid") /\ GoOn(w, Next1(w))
        /\ UNCHANGED << shippingStatus, collected, events, gateway >>
        /\ status' = IF status[o] = "PENDING_PAYMENT" THEN [status EXCEPT ![o] = "CANCELLED"]
                                                      ELSE status
    BY <1>1, <1>11 DEF CancelUnpaid, eventVars, world
  <2>2. /\ status'[o] # "PENDING_PAYMENT"
        /\ \A p \in Orders : status'[p] = "DELIVERED" => status[p] = "DELIVERED"
    BY <1>3, <1>5, <2>1
  <2>3. Unopened /\ Outcome
    BY <2>1, <2>2 DEF Unopened, Outcome
  <2>4. Passing(w, {"cancelUnpaid"}) /\ \A x, p : After(job[w].todo, x, p) /\ At(w, x)' => "cancelUnpaid" = p
    BY <1>2, <2>1, NextPassing
  <2>5. job'[w].event # None /\ {"cancelUnpaid"} \cap Awaits(job[w].event) # {} => Effect(job[w].event)'
    <3>1. {"cancelUnpaid"} \cap Awaits(job[w].event) # {} => job[w].event.about = "failed"
      BY DEF Awaits
    <3>2. job'[w].event # None => job'[w].event = job[w].event /\ job[w].event.order = o
      BY <1>1, <1>2, <2>4, PassingEvent
    <3> QED
      BY <2>2, <3>1, <3>2 DEF Effect
  <2> QED
    BY <1>4, <2>1, <2>3, <2>4, <2>5, PassingEffect
<1>12. CASE FailPayment(w)
  <2>1. /\ At(w, "failPayment") /\ UNCHANGED << status, shippingStatus, collected, events, gateway >>
        /\ Before(job[w].todo, "failPayment", "cancelUnpaid")
        /\ \/ GoOn(w, Next1(w))
           \/ /\ GoOn(w, Skipping(w, 1))
              /\ paymentStatus[o] \in Settled \/ status[o] # "PENDING_PAYMENT"
    BY <1>1, <1>2, <1>12 DEF FailPayment, eventVars, world, InOrder
  <2>2. Unopened /\ Outcome
    BY <2>1 DEF Unopened, Outcome
  <2>3. CASE GoOn(w, Next1(w))
    <3>1. Passing(w, {"failPayment"}) /\ \A x, p : After(job[w].todo, x, p) /\ At(w, x)' => "failPayment" = p
      BY <1>2, <2>1, <2>3, NextPassing
    <3>2. At(w, "cancelUnpaid")'
      BY <2>1, <2>3, Passes
    <3>3. "cancelUnpaid" \in Left(w)'
      <4>1. IInv'
        BY <1>12, FailPaymentStep
      <4>2. job'[w].todo \in Seq(Statements)
        BY <4>1 DEF IInv, Types, Jobs
      <4>3. job'[w].todo # << >> /\ Head(job'[w].todo) = "cancelUnpaid"
        BY <3>2 DEF At
      <4>4. 1 \in 1 .. Len(job'[w].todo) /\ job'[w].todo[1] = "cancelUnpaid"
        BY <4>2, <4>3
      <4> QED
        BY <4>4 DEF Left, Among
    <3>4. {"failPayment"} \cap Awaits(job[w].event) # {} => Left(w)' \cap Awaits(job[w].event) # {}
      BY <3>3 DEF Awaits
    <3> QED
      BY <1>4, <2>1, <2>2, <3>1, <3>4, PassingEffect
  <2>4. CASE /\ GoOn(w, Skipping(w, 1))
             /\ paymentStatus[o] \in Settled \/ status[o] # "PENDING_PAYMENT"
    <3>1. /\ Passing(w, {"failPayment", "cancelUnpaid"})
          /\ \A x, p : After(job[w].todo, x, p) /\ At(w, x)' => "cancelUnpaid" = p
      BY <1>2, <2>1, <2>4, SkipPassing
    <3>2. status'[o] # "PENDING_PAYMENT" \/ o \in collected'
      BY <1>2, <1>5, <2>1, <2>4 DEF Cash
    <3>3. job'[w].event # None /\ {"failPayment", "cancelUnpaid"} \cap Awaits(job[w].event) # {} =>
             Effect(job[w].event)'
      <4>1. {"failPayment", "cancelUnpaid"} \cap Awaits(job[w].event) # {} => job[w].event.about = "failed"
        BY DEF Awaits
      <4>2. job'[w].event # None => job'[w].event = job[w].event /\ job[w].event.order = o
        BY <1>1, <1>2, <3>1, PassingEvent
      <4> QED
        BY <3>2, <4>1, <4>2 DEF Effect
    <3> QED
      BY <1>4, <2>1, <2>2, <3>1, <3>3, PassingEffect
  <2> QED
    BY <2>1, <2>3, <2>4
<1> QED
  BY <1>8, <1>9, <1>10, <1>11, <1>12

LEMMA ClaimRestoreEffect ==
    ASSUME LifecycleConstants, IInv, InEffect, NEW w \in Workers, ClaimRestore(w)
    PROVE  InEffect'
<1>1. PICK o : o = job[w].order
  OBVIOUS
<1>2. Ready(w) /\ Types /\ Inserted /\ InOrder(job[w].todo) /\ Scripts
  BY DEF IInv, Ready, WellFormed, InEffect
<1>3. /\ At(w, "claimRestore") /\ UNCHANGED << status, shippingStatus, collected, events, gateway >>
      /\ Before(job[w].todo, "claimRestore", "restock")
  BY <1>2 DEF ClaimRestore, orderVars, eventVars, world, InOrder
<1>4. Steady /\ Unopened /\ Outcome
  <2>1. Steady
    BY StepSteady DEF Step
  <2> QED
    BY <1>3, <2>1 DEF Unopened, Outcome
<1>5. o \in Orders /\ status[o] # "none"
  BY <1>1, <1>2, <1>3, AtHead
<1>6. o \in committed
  BY <1>2, <1>5 DEF Inserted
<1>7. \A e : Awaits(e) \cap {"claimRestore", "restock"} = {}
  BY DEF Awaits
<1>8. CASE o \in committed \ restored
  <2>1. GoOn(w, Next1(w)) /\ restored' = restored \cup {o}
    BY <1>1, <1>8 DEF ClaimRestore
  <2>2. /\ Passing(w, {"claimRestore"})
        /\ \A x, p : After(job[w].todo, x, p) /\ At(w, x)' => "claimRestore" = p
    BY <1>2, <1>3, <2>1, NextPassing
  <2>3. {"claimRestore"} \cap Awaits(job[w].event) = {}
    BY <1>7
  <2> QED
    BY <1>1, <1>3, <1>4, <2>1, <2>2, <2>3, PassingEffect
<1>9. CASE o \notin committed \ restored
  <2>1. GoOn(w, Skipping(w, 1)) /\ UNCHANGED restored
    BY <1>1, <1>9 DEF ClaimRestore
  <2>2. /\ Passing(w, {"claimRestore", "restock"})
        /\ \A x, p : After(job[w].todo, x, p) /\ At(w, x)' => "restock" = p
    BY <1>2, <1>3, <2>1, SkipPassing
  <2>3. {"claimRestore", "restock"} \cap Awaits(job[w].event) = {}
    BY <1>7
  <2> QED
    BY <1>1, <1>3, <1>4, <1>6, <1>9, <2>1, <2>2, <2>3, PassingEffect
<1> QED
  BY <1>8, <1>9

LEMMA MoveShipmentEffect ==
    ASSUME LifecycleConstants, IInv, InEffect, NEW w \in Workers, MoveShipment(w)
    PROVE  InEffect'
<1>1. Ready(w) /\ Scripts /\ job \in [Workers -> Jobs]
  BY DEF IInv, InEffect, Types
<1>2. PICK j : j = [Next1(w) EXCEPT !.flag = shipment[job[w].order] \notin {"none", job[w].verdict}]
  OBVIOUS
<1>3. /\ At(w, "moveShipment") /\ GoOn(w, j)
      /\ UNCHANGED << status, shippingStatus, collected, events, gateway >>
  BY <1>2 DEF MoveShipment, orderVars, eventVars, world
<1>4. Steady
  BY StepSteady DEF Step
<1>5. Unopened /\ Outcome
  BY <1>3 DEF Unopened, Outcome
<1>6. job[w].todo # << >> /\ job[w].todo[1] = "moveShipment"
  BY <1>1, <1>3, AtHead
<1>7. Rest(j, job[w], 1)
  <2>1. Rest(Next1(w), job[w], 1)
    BY <1>1, <1>6, NextRest
  <2>2. Next1(w) \in Jobs
    BY <2>1 DEF Rest
  <2>3. /\ j \in Jobs /\ j.todo = Next1(w).todo /\ j.order = Next1(w).order
        /\ j.event = Next1(w).event /\ j.verdict = Next1(w).verdict
    BY <1>2, <2>2 DEF Jobs
  <2> QED
    BY <2>1, <2>3 DEF Rest
<1>8. \A k \in 1 .. 1 : job[w].todo[k] \in {"moveShipment"}
  BY <1>6
<1>9. 1 \in Nat \ {0}
  OBVIOUS
<1>10. /\ Passing(w, {"moveShipment"})
       /\ \A x, p : After(job[w].todo, x, p) /\ At(w, x)' => "moveShipment" = p
  BY <1>1, <1>3, <1>6, <1>7, <1>8, <1>9, RestPassing
<1>11. {"moveShipment"} \cap Awaits(job[w].event) = {}
  BY DEF Awaits
<1> QED
  BY <1>3, <1>4, <1>5, <1>10, <1>11, PassingEffect

\* The handler is past the shipments row: nothing that is left can stop it.
LEMMA PastMoves ==
    ASSUME IInv, Scripts, NEW w \in Workers, NEW s \in {"moveShipping", "follow"}, At(w, s)
    PROVE  /\ "moveShipment" \notin Left(w) /\ Left(w) \subseteq Aftermath \cup {s}
           /\ s \in Left(w) /\ Scripted(job[w]) /\ job[w].order \in Orders
           /\ status[job[w].order] # "none" /\ job[w].verdict \in Scans
<1>1. Ready(w)
  BY DEF IInv
<1>2. /\ job[w].todo \in Seq(Statements) /\ Len(job[w].todo) > 0 /\ job[w].todo[1] = s
      /\ job[w].order \in Orders /\ s \in Left(w) /\ Scripted(job[w])
      /\ status[job[w].order] # "none"
  BY <1>1, AtHead, HeadLeft DEF Scripts
<1>3. job[w].verdict \in Scans
  BY <1>1, HeadEquipped
<1>4. "moveShipment" \notin Left(w)
  BY <1>2 DEF Scripted, Left, Among
<1>5. Left(w) \subseteq Aftermath \cup {"moveShipment", "moveShipping"}
  BY <1>2 DEF Scripted, Left
<1>6. s = "follow" => "moveShipping" \notin Left(w)
  <2> SUFFICES ASSUME s = "follow", NEW i \in 1 .. Len(job[w].todo), job[w].todo[i] = "moveShipping"
               PROVE  FALSE
    BY DEF Left, Among
  <2>1. i # 1
    BY <1>2
  <2>2. job[w].todo[i - 1] = "moveShipment"
    BY <1>2, <2>1 DEF Scripted, After
  <2>3. i - 1 \in 1 .. Len(job[w].todo)
    BY <1>2, <2>1
  <2> QED
    BY <1>4, <2>2, <2>3 DEF Left, Among
<1> QED
  BY <1>2, <1>3, <1>4, <1>5, <1>6 DEF Aftermath

LEMMA CollectCashEffect ==
    ASSUME LifecycleConstants, IInv, InEffect, NEW w \in Workers, CollectCash(w)
    PROVE  InEffect'
<1>1. PICK o : o = job[w].order
  OBVIOUS
<1>2. Ready(w) /\ Types /\ Scripts /\ Cash
  BY DEF IInv, InEffect
<1>3. /\ At(w, "collectCash") /\ UNCHANGED << status, shippingStatus, events, gateway >>
      /\ GoOn(w, Next1(w))
      /\ \/ /\ Method[o] = "cod" /\ collected' = collected \cup {o}
            /\ paymentStatus' = [paymentStatus EXCEPT ![o] = "PAID"]
         \/ /\ ~(Method[o] = "cod" /\ paymentStatus[o] = "COD_PENDING")
            /\ UNCHANGED << paymentStatus, collected >>
  BY <1>1 DEF CollectCash, eventVars, world
<1>4. o \in Orders
  BY <1>1, <1>2, <1>3, AtHead
<1>5. paymentStatus'[o] # "COD_PENDING"
  BY <1>2, <1>3, <1>4 DEF Types, Cash
<1>6. Steady
  BY StepSteady DEF Step
<1>7. Unopened /\ Outcome
  BY <1>3 DEF Unopened, Outcome
<1>8. /\ Passing(w, {"collectCash"})
      /\ \A x, p : After(job[w].todo, x, p) /\ At(w, x)' => "collectCash" = p
  BY <1>2, <1>3, NextPassing
<1>9. {"collectCash"} \cap Awaits(job[w].event) = {}
  BY DEF Awaits
<1> QED
  BY <1>1, <1>3, <1>5, <1>6, <1>7, <1>8, <1>9, PassingEffect

\* An order is moved to DELIVERED only when its shipping status is written.
LEMMA FollowEffect ==
    ASSUME LifecycleConstants, IInv, InEffect, NEW w \in Workers, Follow(w)
    PROVE  InEffect'
<1>1. PICK o : o = job[w].order
  OBVIOUS
<1>2. Types /\ Scripts /\ Worked
  BY DEF IInv, InEffect
<1>3. /\ At(w, "follow") /\ UNCHANGED << shippingStatus, collected, events, gateway >>
      /\ GoOn(w, Next1(w))
      /\ status' = [status EXCEPT ![o] = SHIPPING_TO_ORDER_STATUS[job[w].verdict]]
  BY <1>1 DEF Follow, eventVars, world
<1>4. /\ Left(w) \subseteq Aftermath \cup {"follow"} /\ "follow" \in Left(w)
      /\ o \in Orders /\ status[o] # "none" /\ job[w].verdict \in Scans
  BY <1>1, <1>2, <1>3, PastMoves
<1>5. Steady
  BY StepSteady DEF Step
<1>6. /\ Passing(w, {"follow"})
      /\ \A x, p : After(job[w].todo, x, p) /\ At(w, x)' => "follow" = p
  BY <1>2, <1>3, NextPassing
<1>7. {"follow"} \cap Awaits(job[w].event) = {}
  BY DEF Awaits
<1>8. Minds(w)
  BY <1>3, <1>6, <1>7, PassingMinds
<1>9. \A v \in Workers : Carries(v)
  <2>1. \A v \in Workers : Minds(v)
    BY <1>2, <1>6, <1>8, OneMinds DEF Passing
  <2> QED
    BY <2>1 DEF Minds
<1>10. job[w].verdict = "DELIVERED" => CashIn(o)'
  <2>1. "moveShipping" \notin Left(w)
    BY <1>4 DEF Aftermath
  <2>2. job[w].verdict = "DELIVERED" => CashIn(o)
    BY <1>1, <1>2, <1>4, <2>1 DEF Worked
  <2> QED
    BY <1>4, <1>5, <1>9, <2>2, Lasting
<1>11. \A p \in Orders : status'[p] = "DELIVERED" => status[p] = "DELIVERED" \/ CashIn(p)'
  <2>1. SHIPPING_TO_ORDER_STATUS[job[w].verdict] = "DELIVERED" => job[w].verdict = "DELIVERED"
    BY <1>4 DEF Scans, SHIPPING_TO_ORDER_STATUS
  <2>2. \A p \in Orders : p # o => status'[p] = status[p]
    BY <1>2, <1>3 DEF Types
  <2>3. status'[o] = SHIPPING_TO_ORDER_STATUS[job[w].verdict]
    BY <1>2, <1>3, <1>4 DEF Types
  <2> QED
    BY <1>10, <2>1, <2>2, <2>3
<1>12. Unopened /\ Outcome
  BY <1>3, <1>11 DEF Unopened, Outcome
<1> QED
  BY <1>3, <1>5, <1>6, <1>7, <1>12, PassingEffect

\* An event is marked PROCESSED by the last statement of its handler.
LEMMA FinishEffect ==
    ASSUME LifecycleConstants, IInv, InEffect, NEW w \in Workers, Finish(w)
    PROVE  InEffect'
<1>1. PICK e : e = job[w].event
  OBVIOUS
<1>2. Ready(w) /\ Types /\ Scripts /\ Worked
  BY DEF IInv, InEffect
<1>3. /\ At(w, "finish") /\ GoOn(w, Next1(w))
      /\ UNCHANGED << status, shippingStatus, collected, gateway >>
      /\ events' = [events EXCEPT ![e] = "PROCESSED"]
  BY <1>1 DEF Finish, orderVars, world
<1>4. /\ job[w].todo \in Seq(Statements) /\ Len(job[w].todo) > 0 /\ job[w].todo[1] = "finish"
  BY <1>2, <1>3, AtHead
<1>5. e # None
  <2>1. e \in Event
    BY <1>1, <1>2, <1>3, HeadEquipped
  <2> QED
    BY <2>1 DEF LifecycleConstants
<1>6. e \in Event /\ status[e.order] # "none"
  BY <1>1, <1>5, WorkerEvent
<1>7. Left(w) \subseteq {"finish"}
  <2>1. 1 \in 1 .. Len(job[w].todo)
    BY <1>4
  <2>2. 1 = Len(job[w].todo)
    BY <1>2, <1>4, <2>1 DEF Scripts, Scripted
  <2> QED
    BY <1>4, <2>2 DEF Left, Among
<1>8. Effect(e)
  <2>1. Left(w) \cap Awaits(e) = {}
    BY <1>7 DEF Awaits
  <2> QED
    BY <1>1, <1>2, <1>5, <2>1 DEF Worked
<1>9. Steady
  BY StepSteady DEF Step
<1>10. /\ Passing(w, {"finish"})
       /\ \A x, p : After(job[w].todo, x, p) /\ At(w, x)' => "finish" = p
  BY <1>2, <1>3, NextPassing
<1>11. {"finish"} \cap Awaits(job[w].event) = {}
  BY DEF Awaits
<1>12. Minds(w)
  BY <1>3, <1>10, <1>11, PassingMinds
<1>13. \A v \in Workers : Carries(v)
  <2>1. \A v \in Workers : Minds(v)
    BY <1>2, <1>10, <1>12, OneMinds DEF Passing
  <2> QED
    BY <2>1 DEF Minds
<1>14. Effect(e)'
  BY <1>6, <1>8, <1>9, <1>13, LastingEffect
<1>15. \A x \in Event : events'[x] = "PROCESSED" => events[x] = "PROCESSED" \/ Effect(x)'
  <2>1. \A x \in Event : x # e => events'[x] = events[x]
    BY <1>2, <1>3 DEF Types
  <2> QED
    BY <1>14, <2>1
<1>16. Unopened /\ Outcome
  BY <1>3, <1>15 DEF Unopened, Outcome
<1> QED
  BY <1>3, <1>9, <1>10, <1>11, <1>16, PassingEffect

\* The scan's status is on the order from here on, and what follows from it is
\* still on the list; or it was there before, and another handler saw to it.
LEMMA MoveShippingEffect ==
    ASSUME LifecycleConstants, IInv, InEffect, NEW w \in Workers, MoveShipping(w)
    PROVE  InEffect'
<1>1. PICK o : o = job[w].order
  OBVIOUS
<1>2. PICK scan : scan = job[w].verdict
  OBVIOUS
<1>3. Types /\ Scripts /\ Shown /\ job \in [Workers -> Jobs]
  BY DEF IInv, InEffect, Types
<1>4. /\ At(w, "moveShipping")
      /\ UNCHANGED << status, paymentStatus, collected, restored, events, gateway >>
      /\ shippingStatus' = [shippingStatus EXCEPT ![o] = scan]
  BY <1>1, <1>2 DEF MoveShipping, stockVars, eventVars, world
<1>5. /\ "moveShipment" \notin Left(w) /\ Left(w) \subseteq Aftermath \cup {"moveShipping"}
      /\ "moveShipping" \in Left(w) /\ Scripted(job[w]) /\ o \in Orders
      /\ status[o] # "none" /\ scan \in Scans
  BY <1>1, <1>2, <1>3, <1>4, PastMoves
<1>6. shippingStatus'[o] = scan /\ \A p \in Orders : p # o => shippingStatus'[p] = shippingStatus[p]
  BY <1>3, <1>4, <1>5 DEF Types
<1>7. Steady /\ Unopened
  <2>1. Steady
    BY StepSteady DEF Step
  <2> QED
    BY <1>4, <2>1 DEF Unopened
<1>8. CASE GoOn(w, Next1(w))
  <2>1. /\ Passing(w, {"moveShipping"})
        /\ \A x, p : After(job[w].todo, x, p) /\ At(w, x)' => "moveShipping" = p
    BY <1>3, <1>4, <1>8, NextPassing
  <2>2. \A s \in Left(w)' : s \in Left(w) /\ job'[w].order = o
    <3>1. NoJob.todo = << >>
      BY NoJobWellFormed
    <3>2. job'[w].todo = << >> => Left(w)' = {}
      BY DEF Left, Among
    <3> QED
      BY <1>1, <2>1, <3>1, <3>2 DEF Passing
  <2>3. "moveShipping" \notin Left(w)'
    <3> SUFFICES ASSUME NEW i \in 1 .. Len(job'[w].todo), job'[w].todo[i] = "moveShipping"
                 PROVE  FALSE
      BY DEF Left, Among
    <3>1. IInv'
      BY MoveShippingStep
    <3>2. job'[w].todo \in Seq(Statements)
      BY <3>1 DEF IInv, Types, Jobs
    <3>3. i = 1 \/ job'[w].todo[i - 1] = "moveShipment"
      BY <2>1 DEF Passing, Scripted, After
    <3>4. CASE i = 1
      <4>1. job'[w].todo # << >> /\ Head(job'[w].todo) = job'[w].todo[1]
        BY <3>2, <3>4
      <4>2. At(w, "moveShipping")'
        BY <3>4, <4>1 DEF At
      <4>3. After(job[w].todo, "moveShipping", "moveShipment")
        BY <1>5 DEF Scripted
      <4> QED
        BY <2>1, <4>2, <4>3
    <3>5. CASE i # 1
      <4>1. i - 1 \in 1 .. Len(job'[w].todo) /\ job'[w].todo[i - 1] = "moveShipment"
        BY <3>2, <3>3, <3>5
      <4>2. "moveShipment" \in Left(w)'
        BY <4>1 DEF Left, Among
      <4> QED
        BY <1>5, <2>2, <4>2
    <3> QED
      BY <3>4, <3>5
  <2>4. \A s \in Aftermath : s \in Left(w) => Underway(o, s)'
    <3> SUFFICES ASSUME NEW s \in Aftermath, s \in Left(w)
                 PROVE  Underway(o, s)'
      OBVIOUS
    <3>1. s \in Left(w)'
      BY <2>1 DEF Passing, Aftermath
    <3>2. Left(w)' \subseteq Aftermath
      BY <1>5, <2>2, <2>3
    <3> QED
      BY <2>2, <3>1, <3>2 DEF Underway, Left
  <2>5. /\ scan = "DELIVERED" => CashIn(o)'
        /\ scan = "RTO_DELIVERED" => UnitBack(o)'
    <3>1. /\ scan = "DELIVERED" => "collectCash" \in Left(w)
          /\ scan = "RTO_DELIVERED" => "claimRestore" \in Left(w)
      BY <1>2, <1>5 DEF Scripted, Left
    <3>2. "collectCash" \in Aftermath /\ "claimRestore" \in Aftermath
      BY DEF Aftermath
    <3> QED
      BY <2>4, <3>1, <3>2 DEF CashIn, UnitBack
  <2>6. Outcome
    BY <1>4, <1>6, <2>5 DEF Outcome
  <2>7. job'[w].event # None /\ {"moveShipping"} \cap Awaits(job[w].event) # {} => Effect(job[w].event)'
    <3> SUFFICES ASSUME job'[w].event # None, {"moveShipping"} \cap Awaits(job[w].event) # {}
                 PROVE  Effect(job[w].event)'
      OBVIOUS
    <3>1. job'[w].event = job[w].event /\ job[w].event \in Event /\ job[w].event.order = o
      BY <1>1, <1>3, <2>1, PassingEvent
    <3>2. job[w].event.about \in Scans
      <4>1. job[w].event.about \notin {"captured", "failed"}
        BY DEF Awaits
      <4> QED
        BY <3>1, <4>1 DEF Event
    <3>3. job[w].event.about = scan
      BY <1>2, <1>5, <3>1, <3>2 DEF Scripted
    <3>4. scan # "captured" /\ scan # "failed" /\ scan # "NOT_SHIPPED"
      BY <1>5 DEF Scans, SHIPPING_TO_ORDER_STATUS
    <3> QED
      BY <1>6, <2>5, <3>1, <3>3, <3>4 DEF Effect
  <2>8. job'[w].order = job[w].order /\ job[w].verdict = "DELIVERED" => CashIn(job[w].order)'
    BY <1>1, <1>2, <2>5
  <2> QED
    BY <1>4, <1>7, <2>1, <2>6, <2>7, <2>8, PassingEffect
<1>9. CASE ~GoOn(w, Next1(w))
  <2>1. PICK t : t = IF job[w].event = None THEN << >> ELSE << "finish" >>
    OBVIOUS
  <2>2. PICK j : j = [job[w] EXCEPT !.todo = t]
    OBVIOUS
  <2>3. shippingStatus[o] = scan /\ GoOn(w, j)
    BY <1>1, <1>2, <1>9, <2>1, <2>2 DEF MoveShipping
  <2>4. /\ j.todo = t /\ j.order = o /\ j.event = job[w].event /\ j.verdict = job[w].verdict
    BY <1>1, <1>3, <2>2 DEF Jobs
  <2>5. /\ t \in Seq(Statements) /\ Among(t) \subseteq {"finish"}
        /\ t # << >> => job[w].event # None /\ t = << "finish" >>
    <3>1. "finish" \in Statements
      BY DEF Statements
    <3> QED
      BY <2>1, <3>1, AmongOne, AmongNone
  <2>6. Scripted(j)
    <3>1. \A i \in 1 .. Len(t) : i = Len(t) /\ t[i] = "finish"
      BY <2>1
    <3>2. Among(t) \subseteq Reports
      BY <2>5 DEF Reports, Aftermath
    <3> QED
      BY <1>1, <1>5, <2>4, <2>5, <3>1, <3>2 DEF Scripted, After
  <2>7. PICK i : i = IF j.todo = << >> THEN NoJob ELSE j
    OBVIOUS
  <2>8. /\ job'[w] = i /\ Alone(w) /\ Scripted(i) /\ Among(i.todo) \subseteq {"finish"}
        /\ i.event # None => i.event = job[w].event
    <3>1. job' = [job EXCEPT ![w] = i]
      BY <2>3, <2>7 DEF GoOn
    <3> QED
      BY <1>3, <2>4, <2>5, <2>6, <2>7, <3>1, ScriptedNoJob, NoJobWellFormed DEF Alone
  <2>9. Left(w)' \subseteq {"finish"}
    BY <2>8 DEF Left
  <2>10. Minds(w)
    <3>1. ~(Left(w) \subseteq Aftermath) /\ ~At(w, "commitStock") /\ ~At(w, "confirm")
      BY <1>4, <1>5 DEF Aftermath, At
    <3>2. ASSUME job'[w].event # None, Left(w)' \cap Awaits(job'[w].event) = {}
          PROVE  \/ job'[w].event = job[w].event /\ Left(w) \cap Awaits(job[w].event) = {}
                 \/ Effect(job[w].event)'
      <4>1. job'[w].event = job[w].event /\ job[w].event \in Event /\ job[w].event.order = o
        BY <1>1, <1>5, <2>8, <3>2, WorkerEvent DEF Scripted
      <4>2. CASE job[w].event.about \in {"captured", "failed"}
        <5>1. Left(w) \cap Awaits(job[w].event) = {}
          BY <1>5, <4>2 DEF Awaits, Aftermath
        <5> QED
          BY <4>1, <5>1
      <4>3. CASE job[w].event.about \notin {"captured", "failed"}
        <5>1. job[w].event.about \in Scans
          BY <4>1, <4>3 DEF Event
        <5>2. job[w].event.about = scan
          BY <1>2, <1>5, <4>1, <5>1 DEF Scripted
        <5>3. /\ scan = "DELIVERED" => CashIn(o)
              /\ scan = "RTO_DELIVERED" => UnitBack(o)
          BY <1>3, <1>5, <2>3 DEF Shown
        <5>4. \A v \in Workers : Carries(v)
          <6>1. ASSUME NEW v \in Workers, v # w  PROVE Minds(v)
            BY <1>3, <2>8, <6>1, Undisturbed DEF Alone
          <6>2. Carries(w)
            BY <3>1 DEF Carries
          <6> QED
            BY <6>1, <6>2 DEF Minds
        <5>5. /\ scan = "DELIVERED" => CashIn(o)'
              /\ scan = "RTO_DELIVERED" => UnitBack(o)'
          BY <1>5, <1>7, <5>3, <5>4, Lasting
        <5>6. scan # "NOT_SHIPPED"
          BY <1>5 DEF Scans, SHIPPING_TO_ORDER_STATUS
        <5> QED
          BY <1>6, <4>1, <4>3, <5>2, <5>5, <5>6 DEF Effect
      <4> QED
        BY <4>2, <4>3
    <3> QED
      BY <2>8, <2>9, <3>1, <3>2 DEF Minds, Carries
  <2>11. Outcome
    <3>1. \A p \in Orders : shippingStatus'[p] = shippingStatus[p]
      BY <1>6, <2>3
    <3> QED
      BY <1>4, <3>1 DEF Outcome
  <2>12. ~At(w, "openPayment")' /\ "voidOrder" \notin Left(w)'
    <3>1. i.todo # << >> => i.todo = << "finish" >>
      BY <2>4, <2>5, <2>7, NoJobWellFormed
    <3>2. i.todo # << >> => Head(i.todo) = "finish"
      BY <3>1
    <3> QED
      BY <2>8, <2>9, <3>2 DEF At
  <2> QED
    BY <1>7, <2>8, <2>10, <2>11, <2>12, WorkerEffect
<1> QED
  BY <1>8, <1>9

\* A list that has nothing to do with scans and no event.
LEMMA FreshPlain ==
    ASSUME NEW j, j.todo \in Seq(Statements), j.event = None,
           Among(j.todo) \cap {"moveShipment", "moveShipping", "follow", "finish"} = {},
           "setStatus" \notin Requests /\ "setIfSame" \in Among(j.todo) => j.verdict # "DELIVERED",
           "retry" \notin Requests => "insertAttempt" \notin Among(j.todo)
    PROVE  Fresh(j)
<1>1. \A i \in 1 .. Len(j.todo) : j.todo[i] \in Among(j.todo)
  BY DEF Among
<1>2. \A i \in 1 .. Len(j.todo) : j.todo[i] \notin {"moveShipment", "moveShipping", "follow", "finish"}
  BY <1>1
<1>3. After(j.todo, "moveShipping", "moveShipment")
  BY <1>2 DEF After
<1> QED
  BY <1>2, <1>3 DEF Fresh, Scripted

\* w turns to a list.
LEMMA TurnEffect ==
    ASSUME LifecycleConstants, IInv, InEffect, Steady, Outcome, Unopened, NEW w \in Workers, NEW j,
           Fresh(j), "voidOrder" \notin Among(j.todo), j.todo # << >> => j.todo[1] # "openPayment",
           job' = [job EXCEPT ![w] = j],
           \/ Idle(w)
           \/ \E s : s \notin Aftermath \cup {"commitStock", "confirm"} /\ At(w, s)
    PROVE  InEffect'
<1>1. job'[w] = j /\ Alone(w)
  BY DEF IInv, Types, Alone
<1>2. Minds(w)
  BY <1>1, FreshMinds
<1>3. "voidOrder" \notin Left(w)'
  BY <1>1 DEF Left
<1>4. ~At(w, "openPayment")'
  <2>1. \A r \in Seq(Statements) : r # << >> => Head(r) = r[1]
    OBVIOUS
  <2> QED
    BY <1>1, <2>1 DEF At, Fresh
<1> QED
  BY <1>1, <1>2, <1>3, <1>4, WorkerEffect

\* What fetchPayment answers decides on the rest.
LEMMA FetchEffect ==
    ASSUME LifecycleConstants, IInv, InEffect, NEW w \in Workers, Fetch(w)
    PROVE  InEffect'
<1> DEFINE rec == << "recordPayment" >>
           j(v, t) == [job[w] EXCEPT !.verdict = v, !.todo = t]
<1>1. Ready(w) /\ Types /\ At(w, "fetch") /\ job[w] \in Jobs /\ Scripts
  BY DEF Fetch, IInv, Types, InEffect
<1>2. \/ GoOn(w, j("PAID", rec \o Pay)) \/ GoOn(w, j("PENDING", rec \o << >>))
      \/ GoOn(w, j("FAILED", rec \o Fail)) \/ GoOn(w, NoJob)
  BY DEF Fetch
<1>3. job[w].event = None
  <2>1. "fetch" \in Left(w) /\ Scripted(job[w])
    BY <1>1, HeadLeft DEF Scripts
  <2>2. "fetch" \notin Reports
    BY DEF Reports, Aftermath
  <2> QED
    BY <2>1, <2>2 DEF Scripted, Left
<1>4. \A v, t : j(v, t).todo = t /\ j(v, t).event = None
  BY <1>1, <1>3 DEF Jobs
<1>5. rec \in Seq(Statements) /\ Among(rec) = {"recordPayment"} /\ Len(rec) = 1 /\ rec[1] = "recordPayment"
  <2>0. "recordPayment" \in Statements
    BY DEF Statements
  <2>1. rec \in Seq(Statements) /\ Among(rec) = {"recordPayment"}
    BY <2>0, AmongOne
  <2> QED
    BY <2>1
<1>6. << >> \in Seq(Statements) /\ Among(<< >>) = {}
  BY AmongNone
<1>7. Steady /\ Unopened /\ Outcome
  <2>1. UNCHANGED << status, shippingStatus, collected, events, gateway >>
    BY DEF Fetch, orderVars, eventVars, world
  <2>2. Steady
    BY StepSteady DEF Step
  <2> QED
    BY <2>1, <2>2 DEF Unopened, Outcome
<1> HIDE DEF rec, j
<1>8. ASSUME NEW v, NEW t \in {Pay, Fail, << >>}
      PROVE  /\ Fresh(j(v, rec \o t)) /\ "voidOrder" \notin Among(j(v, rec \o t).todo)
             /\ j(v, rec \o t).todo[1] # "openPayment"
  <2>1. t \in Seq(Statements) /\ Among(t) \subseteq Paying \cup Failing
    BY <1>6, AmongLists
  <2>2. PICK u : u = rec \o t
    OBVIOUS
  <2>3. u \in Seq(Statements) /\ Among(u) = Among(rec) \cup Among(t)
    BY <1>5, <2>1, <2>2, AmongJoined
  <2>4. Among(u) \subseteq {"recordPayment"} \cup Paying \cup Failing
    BY <1>5, <2>1, <2>3
  <2>5. Among(u) \cap {"moveShipment", "moveShipping", "follow", "finish", "setIfSame",
                       "insertAttempt", "voidOrder"} = {}
    BY <2>4 DEF Paying, Failing, Restoring
  <2>6. PICK i : i = j(v, u)
    OBVIOUS
  <2>7. i.todo = u /\ i.event = None
    BY <1>4, <2>6
  <2>8. Fresh(i)
    BY <2>3, <2>5, <2>7, FreshPlain
  <2>9. u[1] = "recordPayment"
    <3>1. t \in Seq(Statements) /\ 1 \in 1 .. Len(rec)
      BY <1>5, <2>1
    <3>2. rec \in Seq(Statements) /\ rec # << >> /\ rec[1] = "recordPayment"
      BY <1>5
    <3>3. (rec \o t)[1] = rec[1]
      BY <3>1, <3>2, JoinedHas
    <3> QED
      BY <2>2, <3>2, <3>3
  <2> QED
    BY <2>2, <2>5, <2>6, <2>7, <2>8, <2>9
<1>9. PICK i : /\ Fresh(i) /\ "voidOrder" \notin Among(i.todo)
               /\ i.todo # << >> => i.todo[1] # "openPayment"
               /\ GoOn(w, i)
  <2>1. NoJob.todo = << >> /\ Among(NoJob.todo) = {} /\ Fresh(NoJob)
    BY FreshNoJob, ScriptedNoJob, NoJobWellFormed
  <2> QED
    BY <1>2, <1>8, <2>1
<1>10. PICK k : k = IF i.todo = << >> THEN NoJob ELSE i
  OBVIOUS
<1>11. /\ Fresh(k) /\ "voidOrder" \notin Among(k.todo)
       /\ k.todo # << >> => k.todo[1] # "openPayment"
       /\ job' = [job EXCEPT ![w] = k]
  <2>1. NoJob.todo = << >> /\ Among(NoJob.todo) = {} /\ Fresh(NoJob)
    BY FreshNoJob, ScriptedNoJob, NoJobWellFormed
  <2> QED
    BY <1>9, <1>10, <2>1 DEF GoOn
<1>12. "fetch" \notin Aftermath \cup {"commitStock", "confirm"}
  BY DEF Aftermath
<1> QED
  BY <1>1, <1>7, <1>11, <1>12, TurnEffect

\* The gateway opens an order that is not voided, or refuses one that was never
\* paid.
LEMMA OpenPaymentEffect ==
    ASSUME LifecycleConstants, IInv, InEffect, NEW w \in Workers, OpenPayment(w)
    PROVE  InEffect'
<1>1. PICK o : o = job[w].order
  OBVIOUS
<1>2. Types /\ Scripts /\ Voided /\ job[w] \in Jobs /\ \A v \in Workers : Ready(v)
  BY DEF IInv, InEffect, Types
<1>3. /\ At(w, "openPayment")
      /\ UNCHANGED << status, paymentStatus, shippingStatus, collected, events >>
  BY DEF OpenPayment, orderVars, eventVars
<1>4. Steady /\ Outcome
  <2>1. Steady
    BY StepSteady DEF Step
  <2> QED
    BY <1>3, <2>1 DEF Outcome
<1>5. o \in Orders /\ Method[o] = "online" /\ gateway[o][0] = {} /\ stockLock = w
  BY <1>1, <1>2, <1>3, AtHead, HeadEquipped DEF Ready
<1>6. \A v \in Workers : At(v, "openPayment") => v = w
  BY <1>2, <1>5 DEF Ready
<1>7. 0 \in Attempts /\ Retries \subseteq Attempts /\ 0 \notin Retries
  BY DEF Attempts, Retries, LifecycleConstants
<1>8. gateway \in [Orders -> [Attempts -> SUBSET {"open", "failed", "captured"}]]
  BY <1>2 DEF Types
<1>9. CASE /\ gateway' = [gateway EXCEPT ![o][0] = {"open"}] /\ GoOn(w, Next1(w))
  <2>1. /\ Passing(w, {"openPayment"})
        /\ \A x, p : After(job[w].todo, x, p) /\ At(w, x)' => "openPayment" = p
    BY <1>2, <1>3, <1>9, NextPassing
  <2>2. {"openPayment"} \cap Awaits(job[w].event) = {}
    BY DEF Awaits
  <2>3. Minds(w)
    BY <1>3, <2>1, <2>2, PassingMinds
  <2>4. \A v \in Workers : Minds(v)
    BY <1>2, <2>1, <2>3, OneMinds DEF Passing
  <2>5. ~At(w, "openPayment")'
    <3>1. After(job[w].todo, "openPayment", "insertOrder")
      BY <1>2 DEF Ready, WellFormed, InOrder
    <3> QED
      BY <2>1, <3>1
  <2>6. \A v \in Workers : ~At(v, "openPayment")'
    <3>1. \A v \in Workers \ {w} : At(v, "openPayment")' => At(v, "openPayment")
      BY <2>1 DEF Passing, Alone, At
    <3> QED
      BY <1>6, <2>5, <3>1
  <2>7. \A p \in Orders, k \in Attempts : p # o \/ k # 0 => gateway'[p][k] = gateway[p][k]
    BY <1>5, <1>7, <1>8, <1>9
  <2>8. ASSUME "retry" \notin Requests, NEW v \in Workers, "voidOrder" \in Left(v)'
        PROVE  Method[job'[v].order] = "online" /\ gateway'[job'[v].order][0] = {}
    <3>1. "voidOrder" \notin Left(w)
      BY <1>2, <1>3, <2>8 DEF Voided
    <3>2. v # w
      BY <2>1, <2>8, <3>1 DEF Passing
    <3>3. job'[v] = job[v] /\ "voidOrder" \in Left(v)
      BY <2>1, <2>8, <3>2 DEF Passing, Alone, Left
    <3>4. /\ Method[job[v].order] = "online" /\ gateway[job[v].order][0] = {}
          /\ job[v].order # o
      BY <1>1, <1>2, <1>3, <2>8, <3>3 DEF Voided
    <3>5. job[v].order \in Orders
      <4>1. job[v].todo # << >>
        BY <3>3 DEF Left, Among
      <4> QED
        BY <1>2, <4>1 DEF Ready, WellFormed, Equipped
    <3> QED
      BY <1>7, <2>7, <3>3, <3>4, <3>5
  <2>9. Voided'
    <3>1. \A p \in Orders, k \in Retries : gateway'[p][k] = gateway[p][k]
      BY <1>7, <2>7
    <3> QED
      BY <1>2, <1>3, <2>6, <2>8, <3>1 DEF Voided, Left, Settled
  <2> QED
    BY <1>4, <2>4, <2>9, InEffectStays
<1>10. CASE /\ GoOn(w, [job[w] EXCEPT !.todo = ReturnStock \o << "voidOrder" >>])
            /\ UNCHANGED gateway
  <2>1. PICK v : v = << "voidOrder" >>
    OBVIOUS
  <2>2. PICK t : t = ReturnStock \o v
    OBVIOUS
  <2>3. v \in Seq(Statements) /\ Among(v) = {"voidOrder"}
    <3>1. "voidOrder" \in Statements
      BY DEF Statements
    <3> QED
      BY <2>1, <3>1, AmongOne
  <2>4. t \in Seq(Statements) /\ Among(t) = Restoring \cup {"voidOrder"}
    BY <2>2, <2>3, AmongLists, AmongJoined
  <2>5. PICK j : j = [job[w] EXCEPT !.todo = t]
    OBVIOUS
  <2>6. job[w].event = None
    <3>1. "openPayment" \in Left(w) /\ Scripted(job[w])
      BY <1>2, <1>3, HeadLeft DEF Scripts
    <3>2. "openPayment" \notin Reports
      BY DEF Reports, Aftermath
    <3> QED
      BY <3>1, <3>2 DEF Scripted, Left
  <2>7. j.todo = t /\ j.order = o /\ j.event = None /\ GoOn(w, j) /\ t # << >>
        /\ t[1] = "claimRestore"
    <3>1. t # << >> /\ t[1] = "claimRestore"
      BY <2>1, <2>2, MoreLists DEF Good
    <3> QED
      BY <1>1, <1>2, <1>10, <2>1, <2>2, <2>5, <2>6, <3>1 DEF Jobs
  <2>8. job'[w] = j /\ Alone(w)
    <3>1. job' = [job EXCEPT ![w] = j]
      BY <2>7 DEF GoOn
    <3> QED
      BY <1>2, <3>1 DEF Types, Alone
  <2>9. Fresh(j)
    <3>1. Among(t) \cap {"moveShipment", "moveShipping", "follow", "finish", "setIfSame",
                         "insertAttempt"} = {}
      BY <2>4 DEF Restoring
    <3> QED
      BY <2>4, <2>7, <3>1, FreshPlain
  <2>10. Minds(w)
    <3>1. "openPayment" \notin Aftermath \cup {"commitStock", "confirm"}
      BY DEF Aftermath
    <3> QED
      BY <1>3, <2>8, <2>9, <3>1, FreshMinds
  <2>11. \A x \in Workers : Minds(x)
    BY <1>2, <2>8, <2>10, OneMinds
  <2>12. \A x \in Workers : ~At(x, "openPayment")'
    <3>1. ~At(w, "openPayment")'
      <4>1. Head(t) = "claimRestore"
        BY <2>4, <2>7
      <4> QED
        BY <2>7, <2>8, <4>1 DEF At
    <3>2. \A x \in Workers \ {w} : At(x, "openPayment")' => At(x, "openPayment")
      BY <2>8 DEF Alone, At
    <3> QED
      BY <1>6, <3>1, <3>2
  <2>13. ASSUME "retry" \notin Requests, NEW x \in Workers, "voidOrder" \in Left(x)'
         PROVE  Method[job'[x].order] = "online" /\ gateway'[job'[x].order][0] = {}
    <3>1. CASE x = w
      BY <1>5, <1>10, <2>7, <2>8, <3>1
    <3>2. CASE x # w
      <4>1. job'[x] = job[x] /\ "voidOrder" \in Left(x)
        BY <2>8, <2>13, <3>2 DEF Alone, Left
      <4> QED
        BY <1>2, <1>10, <2>13, <4>1 DEF Voided
    <3> QED
      BY <3>1, <3>2
  <2>14. Voided'
    BY <1>2, <1>3, <1>10, <2>12, <2>13 DEF Voided, Left, Settled
  <2> QED
    BY <1>4, <2>11, <2>14, InEffectStays
<1>11. \/ /\ gateway' = [gateway EXCEPT ![o][0] = {"open"}] /\ GoOn(w, Next1(w))
       \/ /\ GoOn(w, [job[w] EXCEPT !.todo = ReturnStock \o << "voidOrder" >>])
          /\ UNCHANGED gateway
  BY <1>1 DEF OpenPayment
<1> QED
  BY <1>9, <1>10, <1>11

-----------------------------------------------------------------------------
(* A handler is called.                                                    *)

LEMMA BeginEffect ==
    ASSUME LifecycleConstants, IInv, InEffect, NEW w \in Workers, NEW handler, NEW j,
           Run(w, handler, j), Fresh(j), "voidOrder" \notin Among(j.todo),
           j.todo # << >> => j.todo[1] # "openPayment", UNCHANGED << orderVars, stockVars, world >>,
           \A e \in Event : events'[e] = "PROCESSED" => events[e] = "PROCESSED"
    PROVE  InEffect'
<1>1. UNCHANGED << status, paymentStatus, shippingStatus, collected, restored, gateway >>
  BY DEF orderVars, stockVars, world
<1>2. Steady /\ Outcome /\ Unopened
  BY <1>1, SameRows DEF Outcome, Unopened
<1>3. Idle(w) /\ job' = [job EXCEPT ![w] = j]
  BY DEF Run
<1> QED
  BY <1>2, <1>3, TurnEffect

\* A handler that neither works on an event nor follows the parcel.
LEMMA PlainCallEffect ==
    ASSUME LifecycleConstants, IInv, InEffect, NEW w \in Workers, NEW handler, NEW j, NEW R,
           Run(w, handler, j), Good(j.todo, R), j.event = None,
           R \cap {"moveShipment", "moveShipping", "follow", "finish", "voidOrder"} = {},
           "setStatus" \notin Requests /\ "setIfSame" \in R => j.verdict # "DELIVERED",
           "retry" \notin Requests => "insertAttempt" \notin R,
           UNCHANGED << orderVars, stockVars, ledger, shipment, eventVars, world >>
    PROVE  InEffect'
<1>1. j.todo \in Seq(Statements) /\ Among(j.todo) \subseteq R /\ j.todo[1] # "openPayment"
  BY DEF Good, Of, Among, Opens
<1>2. Fresh(j)
  BY <1>1, FreshPlain
<1> QED
  BY <1>1, <1>2, BeginEffect DEF eventVars

LEMMA CheckoutEffect ==
    ASSUME LifecycleConstants, IInv, InEffect, NEW w \in Workers, NEW o \in Orders, Checkout(w, o)
    PROVE  InEffect'
<1>1. PICK t : /\ Run(w, "checkout", Job(o, t))
               /\ t = << "deduct", "insertOrder" >> \o
                         (IF Method[o] = "online" THEN << "openPayment" >> ELSE << >>)
  BY DEF Checkout
<1>2. PICK R : Good(t, R) /\ R \subseteq {"deduct", "insertOrder", "openPayment"}
  <2>1. CASE Method[o] = "online"
    BY <1>1, <2>1, MoreLists
  <2>2. CASE Method[o] # "online"
    <3>1. t = << "deduct", "insertOrder" >>
      BY <1>1, <2>2
    <3> QED
      BY <3>1, SmallLists
  <2> QED
    BY <2>1, <2>2
<1>3. PICK j : j = Job(o, t)
  OBVIOUS
<1>4. j.todo = t /\ j.event = None
  BY <1>3 DEF Job, NoJob
<1> QED
  BY <1>1, <1>2, <1>3, <1>4, PlainCallEffect DEF Checkout

LEMMA ShortCallEffect ==
    ASSUME LifecycleConstants, IInv, InEffect, NEW w \in Workers, NEW o \in Orders,
           \/ Retry(w, o) \/ Unbook(w, o) \/ Book(w, o) \/ CancelPayment(w, o) \/ Expire(w, o)
           \/ \E k \in Attempts : Verify(w, o, k)
    PROVE  InEffect'
<1>1. UNCHANGED << orderVars, stockVars, ledger, shipment, eventVars, world >>
  BY DEF Retry, Unbook, Book, CancelPayment, Expire, Verify
<1>2. CASE Retry(w, o)
  <2>1. PICK j : j = Job(o, << "insertAttempt" >>)
    OBVIOUS
  <2>2. j.todo = << "insertAttempt" >> /\ j.event = None
    BY <2>1 DEF Job, NoJob
  <2>3. Run(w, "retry", j) /\ "retry" \in Requests
    BY <1>2, <2>1 DEF Retry, Run
  <2>4. Good(j.todo, {"insertAttempt"})
    BY <2>2, SmallLists
  <2> QED
    BY <1>1, <2>2, <2>3, <2>4, PlainCallEffect
<1>3. CASE Unbook(w, o)
  <2>1. PICK j : j = Job(o, Recall)
    OBVIOUS
  <2>2. j.todo = Recall /\ j.event = None
    BY <2>1 DEF Job, NoJob
  <2>3. Run(w, "recall", j)
    BY <1>3, <2>1 DEF Unbook
  <2>4. Good(j.todo, Recalling)
    BY <2>2, Lists
  <2> QED
    BY <1>1, <2>2, <2>3, <2>4, PlainCallEffect DEF Recalling
<1>4. CASE Book(w, o)
  <2>1. PICK j : j = Job(o, << "openShipment", "assignAwb", "noteAwb" >>)
    OBVIOUS
  <2>2. j.todo = << "openShipment", "assignAwb", "noteAwb" >> /\ j.event = None
    BY <2>1 DEF Job, NoJob
  <2>3. Run(w, "book", j)
    BY <1>4, <2>1 DEF Book
  <2>4. Good(j.todo, Booking)
    BY <2>2, Lists
  <2> QED
    BY <1>1, <2>2, <2>3, <2>4, PlainCallEffect DEF Booking
<1>5. CASE CancelPayment(w, o) \/ Expire(w, o)
  <2>1. PICK verdict \in {"CANCELLED", "EXPIRED"} :
           \E handler : Run(w, handler, [Job(o, Fail) EXCEPT !.verdict = verdict])
    BY <1>5 DEF CancelPayment, Expire
  <2>2. PICK j : j = [Job(o, Fail) EXCEPT !.verdict = verdict]
    OBVIOUS
  <2>3. PICK handler : Run(w, handler, j)
    BY <2>1, <2>2
  <2>4. j.todo = Fail /\ j.event = None
    BY <2>2 DEF Job, NoJob
  <2>5. Good(j.todo, Failing)
    BY <2>4, Lists
  <2>6. Failing \cap {"moveShipment", "moveShipping", "follow", "finish", "voidOrder", "setIfSame",
                      "insertAttempt"} = {}
    BY DEF Failing, Restoring
  <2> QED
    BY <1>1, <2>3, <2>4, <2>5, <2>6, PlainCallEffect
<1>6. CASE \E k \in Attempts : Verify(w, o, k)
  <2>1. PICK k \in Attempts : Verify(w, o, k)
    BY <1>6
  <2>2. PICK ask : ask = [Job(o, << "fetch" >>) EXCEPT !.attempt = k]
    OBVIOUS
  <2>3. PICK refuse : refuse = [Job(o, << "recordPayment" >>) EXCEPT !.attempt = k,
                                                                    !.verdict = "FAILED"]
    OBVIOUS
  <2>4. /\ ask.todo = << "fetch" >> /\ ask.event = None
        /\ refuse.todo = << "recordPayment" >> /\ refuse.event = None
    BY <2>2, <2>3 DEF Job, NoJob
  <2>5. Good(ask.todo, {"fetch"}) /\ Good(refuse.todo, {"recordPayment"})
    BY <2>4, SmallLists
  <2>6. Run(w, "verify", ask) \/ Run(w, "verify", refuse)
    BY <2>1, <2>2, <2>3 DEF Verify
  <2>7. CASE Run(w, "verify", ask)
    BY <1>1, <2>4, <2>5, <2>7, PlainCallEffect
  <2>8. CASE Run(w, "verify", refuse)
    BY <1>1, <2>4, <2>5, <2>8, PlainCallEffect
  <2> QED
    BY <2>6, <2>7, <2>8
<1> QED
  BY <1>2, <1>3, <1>4, <1>5, <1>6

\* Where nobody moves an order by hand, the one decision is to cancel.
LEMMA MoveByHandEffect ==
    ASSUME LifecycleConstants, IInv, InEffect, NEW w \in Workers, NEW o \in Orders,
           CancelOrder(w, o) \/ \E to \in OrderStatuses : SetStatus(w, o, to)
    PROVE  InEffect'
<1>1. UNCHANGED << orderVars, stockVars, ledger, shipment, eventVars, world >>
  BY DEF CancelOrder, SetStatus
<1>2. CASE CancelOrder(w, o)
  <2>1. PICK s : s = << "setIfSame" >> \o ReturnStock
    OBVIOUS
  <2>2. PICK r : r = s \o << "refundIfPaid" >>
    OBVIOUS
  <2>3. PICK t : t = r \o Recall
    OBVIOUS
  <2>4. PICK j : j = [Job(o, t) EXCEPT !.verdict = "CANCELLED", !.seen = status[o],
                                       !.flag = paymentStatus[o] = "PAID" /\ o \in collected]
    OBVIOUS
  <2>5. Run(w, "cancelOrder", j)
    BY <1>2, <2>1, <2>2, <2>3, <2>4 DEF CancelOrder
  <2>6. j.todo = t /\ j.event = None /\ j.verdict = "CANCELLED"
    BY <2>4 DEF Job, NoJob
  <2>7. Good(s, {"setIfSame"} \cup Restoring)
    BY <2>1, SetThenRestore
  <2>8. Good(<< "refundIfPaid" >>, {"refundIfPaid"}) /\ Good(Recall, Recalling)
    BY SmallLists, Lists
  <2>9. Good(r, ({"setIfSame"} \cup Restoring) \cup {"refundIfPaid"})
    BY <2>2, <2>7, <2>8, GoodJoined
  <2>10. PICK R : R = (({"setIfSame"} \cup Restoring) \cup {"refundIfPaid"}) \cup Recalling
    OBVIOUS
  <2>11. Good(j.todo, R)
    BY <2>3, <2>6, <2>8, <2>9, <2>10, GoodJoined
  <2>12. R \cap {"moveShipment", "moveShipping", "follow", "finish", "voidOrder", "insertAttempt"} = {}
    BY <2>10 DEF Restoring, Recalling
  <2> QED
    BY <1>1, <2>5, <2>6, <2>11, <2>12, PlainCallEffect
<1>3. CASE \E to \in OrderStatuses : SetStatus(w, o, to)
  <2>0. PICK to \in OrderStatuses : SetStatus(w, o, to)
    BY <1>3
  <2>1. PICK s : s = << "setIfSame" >> \o (IF to \in CLOSED THEN ReturnStock ELSE << >>)
    OBVIOUS
  <2>2. PICK t : t = s \o (IF to = "CANCELLED" THEN Recall ELSE << >>)
    OBVIOUS
  <2>3. PICK j : j = [Job(o, t) EXCEPT !.verdict = to, !.seen = status[o]]
    OBVIOUS
  <2>4. Run(w, "setStatus", j) /\ "setStatus" \in Requests
    BY <2>0, <2>1, <2>2, <2>3 DEF SetStatus, Run
  <2>5. j.todo = t /\ j.event = None
    BY <2>3 DEF Job, NoJob
  <2>6. Good(s, {"setIfSame"} \cup Restoring)
    <3>1. CASE to \in CLOSED
      BY <2>1, <3>1, SetThenRestore
    <3>2. CASE to \notin CLOSED
      <4>1. s = << "setIfSame" >>
        BY <2>1, <3>2
      <4>2. Good(s, {"setIfSame"})
        BY <4>1, SmallLists
      <4> QED
        BY <4>2 DEF Good, Of
    <3> QED
      BY <3>1, <3>2
  <2>7. PICK R : R = ({"setIfSame"} \cup Restoring) \cup Recalling
    OBVIOUS
  <2>8. Good(j.todo, R)
    <3>1. CASE to = "CANCELLED"
      <4>1. t = s \o Recall /\ Good(Recall, Recalling)
        BY <2>2, <3>1, Lists
      <4> QED
        BY <2>5, <2>6, <2>7, <4>1, GoodJoined
    <3>2. CASE to # "CANCELLED"
      <4>1. t = s
        BY <2>2, <2>6, <3>2 DEF Good
      <4> QED
        BY <2>5, <2>6, <2>7, <4>1 DEF Good, Of
    <3> QED
      BY <3>1, <3>2
  <2>9. R \cap {"moveShipment", "moveShipping", "follow", "finish", "voidOrder", "insertAttempt"} = {}
    BY <2>7 DEF Restoring, Recalling
  <2> QED
    BY <1>1, <2>4, <2>5, <2>8, <2>9, PlainCallEffect
<1> QED
  BY <1>2, <1>3

\* Where the statements of a scan stand in a list.
Placed(t) ==
    /\ t \in Seq(Statements) /\ After(t, "moveShipping", "moveShipment")
    /\ \A i \in 1 .. Len(t) : /\ t[i] = "moveShipment" => i = 1
                              /\ t[i] = "finish" => i = Len(t)

\* What every webhook ends with.
LEMMA EndedList ==
    ASSUME NEW b, Placed(b), "finish" \notin Among(b), NEW t, t = b \o << "finish" >>
    PROVE  Placed(t) /\ Among(t) = Among(b) \cup {"finish"}
<1>1. PICK f : f = << "finish" >>
  OBVIOUS
<1>2. "finish" \in Statements
  BY DEF Statements
<1>3. f \in Seq(Statements) /\ Among(f) = {"finish"} /\ Len(f) = 1 /\ f[1] = "finish"
  <2>1. Len(f) = 1 /\ f[1] = "finish"
    BY <1>1
  <2> QED
    BY <1>1, <1>2, <2>1, AmongOne
<1>4. b \in Seq(Statements)
  BY DEF Placed
<1>5. t \in Seq(Statements) /\ Among(t) = Among(b) \cup {"finish"}
  BY <1>1, <1>3, <1>4, AmongJoined
<1>6. /\ Len(b) \in Nat /\ Len(t) = Len(b) + 1
      /\ \A i \in 1 .. Len(b) : t[i] = b[i]
      /\ t[Len(b) + 1] = "finish"
  <2>1. t = b \o f
    BY <1>1
  <2>2. Len(b) \in Nat
    BY <1>4
  <2>3. Len(t) = Len(b) + Len(f) /\ \A i \in 1 .. Len(b) : t[i] = b[i]
    BY <1>3, <1>4, <2>1
  <2>4. t[Len(b) + 1] = f[1]
    BY <1>3, <1>4, <2>1
  <2> QED
    BY <1>3, <2>2, <2>3, <2>4
<1>7. ASSUME NEW i \in 1 .. Len(t)
      PROVE  /\ t[i] = "moveShipment" => i = 1
             /\ t[i] = "finish" => i = Len(t)
             /\ t[i] = "moveShipping" => i = 1 \/ t[i - 1] = "moveShipment"
  <2>1. CASE i = Len(b) + 1
    BY <1>6, <2>1
  <2>2. CASE i # Len(b) + 1
    <3>1. i \in 1 .. Len(b) /\ t[i] = b[i] /\ b[i] \in Among(b)
      BY <1>6, <2>2 DEF Among
    <3>2. i # 1 => t[i - 1] = b[i - 1]
      <4>1. i # 1 => i - 1 \in 1 .. Len(b)
        BY <1>6, <3>1
      <4> QED
        BY <1>6, <4>1
    <3> QED
      BY <3>1, <3>2 DEF Placed, After
  <2> QED
    BY <2>1, <2>2
<1> QED
  BY <1>5, <1>7 DEF Placed, After

\* A list without scans and without an end.
LEMMA PlacedPlain ==
    ASSUME NEW t \in Seq(Statements),
           Among(t) \cap {"moveShipment", "moveShipping", "finish"} = {}
    PROVE  Placed(t)
<1>1. \A i \in 1 .. Len(t) : t[i] \in Among(t)
  BY DEF Among
<1>2. \A i \in 1 .. Len(t) : t[i] \notin {"moveShipment", "moveShipping", "finish"}
  BY <1>1
<1> QED
  BY <1>2 DEF Placed, After

\* applyShippingStatus.
LEMMA ApplyPlaced ==
    ASSUME NEW scan
    PROVE  /\ Placed(Apply(scan)) /\ Among(Apply(scan)) \subseteq Applying
           /\ "moveShipping" \in Among(Apply(scan))
           /\ scan = "DELIVERED" => "collectCash" \in Among(Apply(scan))
           /\ scan = "RTO_DELIVERED" => "claimRestore" \in Among(Apply(scan))
<1>1. PICK u : u = << "moveShipment", "moveShipping", "readStatus", "follow" >>
  OBVIOUS
<1>2. PICK a : a = IF scan = "DELIVERED" THEN << "collectCash", "sellReserved" >> ELSE << >>
  OBVIOUS
<1>3. PICK b : b = IF scan = "RTO_DELIVERED" THEN ReturnStock ELSE << >>
  OBVIOUS
<1>4. PICK r : r = a \o b
  OBVIOUS
<1>5. PICK t : t = u \o r
  OBVIOUS
<1>6. /\ u \in Seq(Statements) /\ Len(u) = 4 /\ u[1] = "moveShipment" /\ u[2] = "moveShipping"
      /\ u[3] = "readStatus" /\ u[4] = "follow"
  BY <1>1 DEF Statements
<1>7. Among(u) = {"moveShipment", "moveShipping", "readStatus", "follow"}
  <2>1. \A i \in 1 .. 4 : i = 1 \/ i = 2 \/ i = 3 \/ i = 4
    OBVIOUS
  <2>2. 1 \in 1 .. 4 /\ 2 \in 1 .. 4 /\ 3 \in 1 .. 4 /\ 4 \in 1 .. 4
    OBVIOUS
  <2>3. Among(u) = {u[i] : i \in 1 .. 4}
    BY <1>6 DEF Among
  <2> QED
    BY <1>6, <2>1, <2>2, <2>3
<1>8. /\ a \in Seq(Statements)
      /\ Among(a) = IF scan = "DELIVERED" THEN {"collectCash", "sellReserved"} ELSE {}
  <2>1. "collectCash" \in Statements /\ "sellReserved" \in Statements
    BY DEF Statements
  <2> QED
    BY <1>2, <2>1, AmongShort
<1>9. b \in Seq(Statements) /\ Among(b) = IF scan = "RTO_DELIVERED" THEN Restoring ELSE {}
  BY <1>3, AmongLists, AmongNone
<1>10. r \in Seq(Statements) /\ Among(r) = Among(a) \cup Among(b)
  BY <1>4, <1>8, <1>9, AmongJoined
<1>11. t \in Seq(Statements) /\ Among(t) = Among(u) \cup Among(r)
  BY <1>5, <1>6, <1>10, AmongJoined
<1>12. Apply(scan) = t
  <2>1. Apply(scan) = (u \o a) \o b
    BY <1>1, <1>2, <1>3 DEF Apply
  <2>2. (u \o a) \o b = u \o (a \o b)
    BY <1>6, <1>8, <1>9, ConcatAssociative
  <2> QED
    BY <1>4, <1>5, <2>1, <2>2
<1>13. Among(r) \cap {"moveShipment", "moveShipping", "finish"} = {}
  BY <1>8, <1>9, <1>10 DEF Restoring
<1>14. ASSUME NEW i \in 1 .. Len(t)
       PROVE  /\ t[i] = "moveShipment" => i = 1
              /\ t[i] # "finish"
              /\ t[i] = "moveShipping" => i = 1 \/ t[i - 1] = "moveShipment"
  <2>1. /\ Len(r) \in Nat /\ Len(t) = 4 + Len(r)
        /\ \A k \in 1 .. 4 : t[k] = u[k]
        /\ \A n \in 1 .. Len(r) : t[4 + n] = r[n]
    <3>1. /\ Len(t) = Len(u) + Len(r) /\ Len(r) \in Nat
          /\ \A k \in 1 .. Len(u) + Len(r) : t[k] = IF k <= Len(u) THEN u[k] ELSE r[k - Len(u)]
      <4>1. u \in Seq(Statements) /\ r \in Seq(Statements)
        BY <1>6, <1>10
      <4>2. /\ Len(u \o r) = Len(u) + Len(r)
            /\ \A k \in 1 .. Len(u) + Len(r) :
                  (u \o r)[k] = IF k <= Len(u) THEN u[k] ELSE r[k - Len(u)]
        BY <4>1, ConcatProperties, Zenon
      <4>3. Len(r) \in Nat
        BY <4>1
      <4> QED
        BY <1>5, <4>2, <4>3, Zenon
    <3>2. ASSUME NEW n \in 1 .. Len(r)
          PROVE  t[4 + n] = r[n]
      <4>1. 4 + n \in 1 .. Len(u) + Len(r) /\ ~(4 + n <= Len(u)) /\ (4 + n) - Len(u) = n
        BY <1>6, <3>1
      <4> QED
        BY <3>1, <4>1
    <3>3. \A k \in 1 .. 4 : t[k] = u[k]
      BY <1>6, <3>1
    <3> QED
      BY <1>6, <3>1, <3>2, <3>3
  <2>2. CASE i <= 4
    <3>1. i = 1 \/ i = 2 \/ i = 3 \/ i = 4
      BY <2>2
    <3>2. t[1] = u[1] /\ t[2] = u[2] /\ t[3] = u[3] /\ t[4] = u[4]
      BY <2>1
    <3> QED
      BY <1>6, <3>1, <3>2
  <2>3. CASE i > 4
    <3>1. i - 4 \in 1 .. Len(r) /\ 4 + (i - 4) = i
      BY <2>1, <2>3
    <3>2. t[i] = r[i - 4] /\ r[i - 4] \in Among(r)
      BY <2>1, <3>1 DEF Among
    <3> QED
      BY <1>13, <3>2
  <2> QED
    BY <2>2, <2>3
<1>15. Placed(t)
  BY <1>11, <1>14 DEF Placed, After
<1> QED
  BY <1>7, <1>8, <1>9, <1>10, <1>11, <1>12, <1>15 DEF Applying, Restoring

\* The list of a handler of a payment event.
LEMMA FreshPayment ==
    ASSUME NEW j, Placed(j.todo), j.event # None, j.event.order = j.order,
           j.event.about \notin Scans, Among(j.todo) \cap Awaits(j.event) # {},
           Among(j.todo) \subseteq {"recordPayment", "finish"} \cup Paying \cup Failing
    PROVE  Fresh(j) /\ "voidOrder" \notin Among(j.todo)
<1>1. Among(j.todo) \cap {"moveShipping", "follow", "setIfSame", "insertAttempt", "voidOrder"} = {}
      /\ Among(j.todo) \subseteq Reports
  BY DEF Paying, Failing, Restoring, Reports, Aftermath
<1> QED
  BY <1>1 DEF Fresh, Scripted, Placed

\* The list of a handler that follows a parcel.
LEMMA FreshScan ==
    ASSUME NEW j, Placed(j.todo), Among(j.todo) \subseteq Applying \cup {"finish"},
           "moveShipping" \in Among(j.todo),
           j.verdict = "DELIVERED" => "collectCash" \in Among(j.todo),
           j.verdict = "RTO_DELIVERED" => "claimRestore" \in Among(j.todo),
           j.event # None => j.event.order = j.order /\ j.event.about = j.verdict
                             /\ j.event.about \in Scans
    PROVE  Fresh(j) /\ "voidOrder" \notin Among(j.todo)
<1>1. /\ Among(j.todo) \cap {"setIfSame", "insertAttempt", "voidOrder"} = {}
      /\ Among(j.todo) \subseteq Reports
      /\ Among(j.todo) \subseteq Aftermath \cup {"moveShipment", "moveShipping"}
  BY DEF Applying, Restoring, Reports, Aftermath
<1>2. j.event # None => Awaits(j.event) = {"moveShipping"}
  BY DEF Awaits, Scans, SHIPPING_TO_ORDER_STATUS
<1>3. Scripted(j)
  BY <1>1 DEF Scripted, Placed
<1> QED
  BY <1>1, <1>2, <1>3 DEF Fresh, Placed

LEMMA TrackEffect ==
    ASSUME LifecycleConstants, IInv, InEffect, NEW w \in Workers, NEW o \in Orders, Track(w, o)
    PROVE  InEffect'
<1>1. PICK scan : scan = Last(scanned[o])
  OBVIOUS
<1>2. PICK t : t = Apply(scan)
  OBVIOUS
<1>3. PICK j : j = [Job(o, t) EXCEPT !.verdict = scan]
  OBVIOUS
<1>4. /\ Run(w, "track", j) /\ UNCHANGED << orderVars, stockVars, eventVars, world >>
  BY <1>1, <1>2, <1>3 DEF Track
<1>5. j.todo = t /\ j.event = None /\ j.verdict = scan
  BY <1>3 DEF Job, NoJob
<1>6. Fresh(j) /\ "voidOrder" \notin Among(j.todo)
  BY <1>2, <1>5, ApplyPlaced, FreshScan
<1>7. j.todo[1] # "openPayment"
  BY <1>2, <1>5, ApplyList DEF Good, Opens
<1> QED
  BY <1>4, <1>6, <1>7, BeginEffect DEF eventVars

LEMMA ScanWebhookEffect ==
    ASSUME LifecycleConstants, IInv, InEffect, NEW w \in Workers, NEW o \in Orders,
           NEW scan \in Scans, ScanWebhook(w, o, scan)
    PROVE  InEffect'
<1>1. PICK e : e = [order |-> o, about |-> scan, attempt |-> 0]
  OBVIOUS
<1>2. PICK b : b = Apply(scan)
  OBVIOUS
<1>3. PICK t : t = b \o << "finish" >>
  OBVIOUS
<1>4. PICK j : j = [Job(o, t) EXCEPT !.event = e, !.verdict = scan]
  OBVIOUS
<1>5. /\ Run(w, "scan", j) /\ ClaimEvent(e) /\ UNCHANGED << orderVars, stockVars, world >>
  BY <1>1, <1>2, <1>3, <1>4 DEF ScanWebhook
<1>6. /\ j.todo = t /\ j.event = e /\ j.verdict = scan /\ j.order = o
      /\ e.order = o /\ e.about = scan
  BY <1>1, <1>4 DEF Job, NoJob
<1>7. Placed(t) /\ Among(t) = Among(b) \cup {"finish"}
  <2>1. Placed(b) /\ "finish" \notin Among(b)
    BY <1>2, ApplyPlaced DEF Applying, Restoring
  <2> QED
    BY <1>3, <2>1, EndedList
<1>8. Fresh(j) /\ "voidOrder" \notin Among(j.todo)
  <2>1. Among(t) \subseteq Applying \cup {"finish"} /\ "moveShipping" \in Among(t)
    BY <1>2, <1>7, ApplyPlaced
  <2>2. /\ scan = "DELIVERED" => "collectCash" \in Among(t)
        /\ scan = "RTO_DELIVERED" => "claimRestore" \in Among(t)
    BY <1>2, <1>7, ApplyPlaced
  <2> QED
    BY <1>6, <1>7, <2>1, <2>2, FreshScan
<1>9. j.todo[1] # "openPayment"
  <2>1. Good(t, Applying \cup {"finish"})
    BY <1>2, <1>3, ApplyList, SmallLists, GoodJoined
  <2> QED
    BY <1>6, <2>1 DEF Good, Opens
<1>10. \A x \in Event : events'[x] = "PROCESSED" => events[x] = "PROCESSED"
  BY <1>5 DEF ClaimEvent, IInv, Types
<1> QED
  BY <1>5, <1>8, <1>9, <1>10, BeginEffect

LEMMA PaymentWebhookEffect ==
    ASSUME LifecycleConstants, IInv, InEffect, NEW w \in Workers, NEW o \in Orders,
           NEW k \in Attempts, NEW about \in {"captured", "failed"}, PaymentWebhook(w, o, k, about)
    PROVE  InEffect'
<1>1. PICK e : e = [order |-> o, about |-> about, attempt |-> k]
  OBVIOUS
<1>2. PICK body : body = IF about = "captured" THEN Pay ELSE Fail
  OBVIOUS
<1>3. PICK rec : rec = << "recordPayment" >>
  OBVIOUS
<1>4. PICK b : b = rec \o body
  OBVIOUS
<1>5. PICK t : t = b \o << "finish" >>
  OBVIOUS
<1>6. PICK j : j = [Job(o, t) EXCEPT !.attempt = k, !.event = e,
                         !.verdict = IF about = "captured" THEN "PAID" ELSE "FAILED"]
  OBVIOUS
<1>7. Run(w, about, j) /\ ClaimEvent(e) /\ UNCHANGED << orderVars, stockVars, world >>
  BY <1>1, <1>2, <1>3, <1>4, <1>5, <1>6 DEF PaymentWebhook
<1>8. /\ j.todo = t /\ j.event = e /\ j.order = o /\ e.order = o /\ e.about = about
  BY <1>1, <1>6 DEF Job, NoJob
<1>9. body \in Seq(Statements) /\ Among(body) = IF about = "captured" THEN Paying ELSE Failing
  BY <1>2, AmongLists
<1>10. rec \in Seq(Statements) /\ Among(rec) = {"recordPayment"} /\ rec # << >>
       /\ rec[1] = "recordPayment"
  <2>1. "recordPayment" \in Statements
    BY DEF Statements
  <2>2. rec # << >> /\ rec[1] = "recordPayment"
    BY <1>3
  <2> QED
    BY <1>3, <2>1, <2>2, AmongOne
<1>11. /\ b \in Seq(Statements) /\ b # << >> /\ b[1] = "recordPayment"
       /\ Among(b) = {"recordPayment"} \cup Among(body)
  BY <1>4, <1>9, <1>10, AmongJoined, JoinedHas
<1>12. Placed(t) /\ Among(t) = Among(b) \cup {"finish"}
  <2>1. Among(b) \cap {"moveShipment", "moveShipping", "finish"} = {}
    BY <1>9, <1>11 DEF Paying, Failing, Restoring
  <2>2. Placed(b)
    BY <1>11, <2>1, PlacedPlain
  <2> QED
    BY <1>5, <2>1, <2>2, EndedList
<1>13. t[1] = "recordPayment"
  <2>1. << "finish" >> \in Seq(Statements)
    BY SmallLists DEF Good
  <2> QED
    BY <1>5, <1>11, <2>1, JoinedHas
<1>14. e # None
  <2>1. gateway[o][k] # {}
    BY DEF PaymentWebhook
  <2>2. Method[o] = "online"
    BY <2>1 DEF IInv, Money
  <2>3. e \in Event
    BY <1>1, <2>2 DEF Event
  <2> QED
    BY <2>3 DEF LifecycleConstants
<1>15. Fresh(j) /\ "voidOrder" \notin Among(j.todo)
  <2>1. about \notin Scans
    BY DEF Scans, SHIPPING_TO_ORDER_STATUS
  <2>2. Among(t) \subseteq {"recordPayment", "finish"} \cup Paying \cup Failing
    BY <1>9, <1>11, <1>12
  <2>3. Among(t) \cap Awaits(e) # {}
    <3>1. CASE about = "captured"
      BY <1>8, <1>9, <1>11, <1>12, <3>1 DEF Awaits, Paying
    <3>2. CASE about = "failed"
      BY <1>8, <1>9, <1>11, <1>12, <3>2 DEF Awaits, Failing
    <3> QED
      BY <3>1, <3>2
  <2> QED
    BY <1>8, <1>12, <1>14, <2>1, <2>2, <2>3, FreshPayment
<1>16. \A x \in Event : events'[x] = "PROCESSED" => events[x] = "PROCESSED"
  BY <1>7 DEF ClaimEvent, IInv, Types
<1> QED
  BY <1>7, <1>8, <1>13, <1>15, <1>16, BeginEffect

\* The sweep runs a payment or a scan again, and gives a failure up.
LEMMA ReplayEffect ==
    ASSUME LifecycleConstants, IInv, InEffect, NEW w \in Workers, NEW e \in Event, Replay(w, e)
    PROVE  InEffect'
<1>1. UNCHANGED << orderVars, stockVars, world >>
  BY DEF Replay
<1>2. e.order \in Orders /\ e.about \in Scans \cup {"captured", "failed"} /\ e # None
  BY DEF Event, LifecycleConstants
<1>3. CASE e.about = "failed"
  <2>1. events' = [events EXCEPT ![e] = "IGNORED"] /\ UNCHANGED job
    BY <1>3 DEF Replay
  <2>2. UNCHANGED << status, paymentStatus, shippingStatus, collected, restored, gateway >>
    BY <1>1 DEF orderVars, stockVars, world
  <2>3. \A x \in Event : events'[x] = "PROCESSED" => events[x] = "PROCESSED"
    BY <2>1 DEF IInv, Types
  <2>4. Steady /\ Outcome
    BY <2>2, <2>3, SameRows DEF Outcome
  <2>5. \A v \in Workers : Minds(v)
    BY <2>1, Undisturbed DEF InEffect
  <2>6. Voided'
    BY <2>1, <2>2, <2>4, VoidedStays DEF InEffect, Left, At
  <2> QED
    BY <2>4, <2>5, <2>6, InEffectStays
<1>4. CASE e.about # "failed"
  <2>1. PICK body : body = IF e.about = "captured" THEN Pay ELSE Apply(e.about)
    OBVIOUS
  <2>2. PICK t : t = body \o << "finish" >>
    OBVIOUS
  <2>3. PICK j : j = [Job(e.order, t) EXCEPT !.event = e, !.verdict = e.about]
    OBVIOUS
  <2>4. Run(w, "replay", j) /\ UNCHANGED eventVars
    BY <1>4, <2>1, <2>2, <2>3 DEF Replay
  <2>5. j.todo = t /\ j.event = e /\ j.order = e.order /\ j.verdict = e.about
    BY <2>3 DEF Job, NoJob
  <2>6. Fresh(j) /\ "voidOrder" \notin Among(j.todo)
    <3>1. CASE e.about = "captured"
      <4>1. body = Pay /\ Among(Pay) = Paying /\ Pay \in Seq(Statements)
        BY <2>1, <3>1, AmongLists
      <4>2. Among(Pay) \cap {"moveShipment", "moveShipping", "finish"} = {}
        BY <4>1 DEF Paying
      <4>3. Placed(t) /\ Among(t) = Paying \cup {"finish"}
        BY <2>2, <4>1, <4>2, PlacedPlain, EndedList
      <4>4. e.about \notin Scans
        BY <3>1 DEF Scans, SHIPPING_TO_ORDER_STATUS
      <4>5. Among(t) \cap Awaits(e) # {}
        BY <3>1, <4>3 DEF Awaits, Paying
      <4> QED
        BY <1>2, <2>5, <4>3, <4>4, <4>5, FreshPayment
    <3>2. CASE e.about # "captured"
      <4>1. body = Apply(e.about) /\ e.about \in Scans
        BY <1>2, <1>4, <2>1, <3>2
      <4>2. Placed(body) /\ "finish" \notin Among(body)
        BY <4>1, ApplyPlaced DEF Applying, Restoring
      <4>3. Placed(t) /\ Among(t) = Among(body) \cup {"finish"}
        BY <2>2, <4>2, EndedList
      <4>4. Among(t) \subseteq Applying \cup {"finish"} /\ "moveShipping" \in Among(t)
        BY <4>1, <4>3, ApplyPlaced
      <4>5. /\ e.about = "DELIVERED" => "collectCash" \in Among(t)
            /\ e.about = "RTO_DELIVERED" => "claimRestore" \in Among(t)
        BY <4>1, <4>3, ApplyPlaced
      <4> QED
        BY <2>5, <4>1, <4>3, <4>4, <4>5, FreshScan
    <3> QED
      BY <3>1, <3>2
  <2>7. j.todo[1] # "openPayment"
    <3>1. PICK B : Good(body, B)
      BY <2>1, Lists, ApplyList
    <3>2. Good(t, B \cup {"finish"})
      BY <2>2, <3>1, SmallLists, GoodJoined
    <3> QED
      BY <2>5, <3>2 DEF Good, Opens
  <2> QED
    BY <1>1, <2>4, <2>6, <2>7, BeginEffect DEF eventVars
<1> QED
  BY <1>3, <1>4

-----------------------------------------------------------------------------
(* The invariant holds.                                                    *)

\* Steps of nobody: the requests and the handlers are left alone.
LEMMA NobodyEffect ==
    ASSUME LifecycleConstants, IInv, InEffect, Steady, UNCHANGED job,
           UNCHANGED << status, shippingStatus, collected, restored, events >>,
           \A o \in Orders, k \in Attempts : gateway'[o][k] # {} => gateway[o][k] # {}
    PROVE  InEffect'
<1>1. Outcome
  BY DEF Outcome
<1>2. \A w \in Workers : Minds(w)
  BY Undisturbed DEF InEffect
<1>3. Voided'
  BY VoidedStays DEF InEffect, Left, At
<1> QED
  BY <1>1, <1>2, <1>3, InEffectStays

LEMMA AdminRefundEffect ==
    ASSUME LifecycleConstants, IInv, InEffect, NEW o \in Orders, NEW extent \in {"part", "full"},
           AdminRefund(o, extent)
    PROVE  InEffect'
<1>1. UNCHANGED << status, shippingStatus, collected, restored, events, job, gateway >>
  BY DEF AdminRefund, stockVars, eventVars, world
<1>2. \A p \in Orders : \/ paymentStatus'[p] = paymentStatus[p]
                        \/ p \in collected /\ paymentStatus'[p] \in Settled
  BY DEF AdminRefund, Refundable, GiveBack, Settled, IInv, Types
<1>3. Steady
  BY <1>1, <1>2 DEF Steady, Settled
<1> QED
  BY <1>1, <1>3, NobodyEffect

LEMMA WorldEffect ==
    ASSUME LifecycleConstants, IInv, InEffect,
           \/ \E o \in Orders, k \in Attempts : GatewayMoves(o, k)
           \/ \E o \in Orders : CourierMoves(o)
           \/ UNCHANGED vars
    PROVE  InEffect'
<1>1. UNCHANGED << status, paymentStatus, shippingStatus, collected, restored, events, job >>
  BY DEF GatewayMoves, CourierMoves, vars, orderVars, stockVars, eventVars
<1>2. \A p \in Orders, i \in Attempts : gateway'[p][i] # {} => gateway[p][i] # {}
  <2>1. ASSUME NEW o \in Orders, NEW k \in Attempts, GatewayMoves(o, k),
               NEW p \in Orders, NEW i \in Attempts, gateway'[p][i] # {}
        PROVE  gateway[p][i] # {}
    BY <2>1 DEF GatewayMoves, IInv, Types
  <2>2. CASE \/ \E o \in Orders : CourierMoves(o)
             \/ UNCHANGED vars
    BY <2>2 DEF CourierMoves, vars, world
  <2> QED
    BY <2>1, <2>2
<1>3. Steady
  BY <1>1, SameRows
<1> QED
  BY <1>1, <1>2, <1>3, NobodyEffect

LEMMA StepEffect ==
    ASSUME LifecycleConstants, IInv, InEffect, NEW w \in Workers, Step(w)
    PROVE  InEffect'
  BY QuietStepEffect, PaymentEffect, ClaimRestoreEffect, MoveShipmentEffect, MoveShippingEffect,
     FollowEffect, CollectCashEffect, FinishEffect, FetchEffect, OpenPaymentEffect DEF Step

LEMMA RequestEffect ==
    ASSUME LifecycleConstants, IInv, InEffect, NEW w \in Workers, NEW o \in Orders, Request(w, o)
    PROVE  InEffect'
  BY CheckoutEffect, ShortCallEffect, MoveByHandEffect, TrackEffect, ScanWebhookEffect,
     PaymentWebhookEffect DEF Request

LEMMA InitEffect ==
    ASSUME LifecycleConstants, Init
    PROVE  InEffect
<1>1. ASSUME NEW w \in Workers
      PROVE  /\ Scripted(job[w]) /\ Left(w) = {} /\ job[w].event = None
             /\ ~At(w, "openPayment")
  <2>1. job[w] = NoJob
    BY DEF Init
  <2> QED
    BY <2>1, ScriptedNoJob, NoJobWellFormed DEF Left, At
<1>2. Scripts
  BY <1>1 DEF Scripts
<1>3. Cash /\ Charged
  BY DEF Cash, Charged, Settled, Init
<1>4. Shown /\ HandedOver
  BY DEF Shown, HandedOver, Init
<1>5. Worked
  BY <1>1 DEF Worked, Init
<1>6. Voided
  <2>1. Retries \subseteq Attempts
    BY DEF Retries, Attempts
  <2> QED
    BY <1>1, <2>1 DEF Voided, Init
<1> QED
  BY <1>2, <1>3, <1>4, <1>5, <1>6 DEF InEffect

LEMMA NextEffect ==
    ASSUME LifecycleConstants, MayFail = FALSE, IInv, InEffect, [Next]_vars
    PROVE  InEffect'
<1>1. ASSUME NEW w \in Workers, Step(w)  PROVE InEffect'
  BY <1>1, StepEffect
<1>2. ASSUME NEW w \in Workers, Sweep(w)  PROVE InEffect'
  BY <1>2, ShortCallEffect, ReplayEffect DEF Sweep
<1>3. ASSUME NEW w \in Workers, NEW o \in Orders, Request(w, o)  PROVE InEffect'
  BY <1>3, RequestEffect
<1>4. ASSUME NEW o \in Orders, NEW extent \in {"part", "full"}, AdminRefund(o, extent)
      PROVE  InEffect'
  BY <1>4, AdminRefundEffect
<1>5. CASE \/ \E o \in Orders, k \in Attempts : GatewayMoves(o, k)
           \/ \E o \in Orders : CourierMoves(o)
           \/ UNCHANGED vars
  BY <1>5, WorldEffect
<1>6. ~Crash /\ \A w \in Workers : ~StatementFails(w)
  BY DEF Crash, StatementFails
<1> QED
  BY <1>1, <1>2, <1>3, <1>4, <1>5, <1>6 DEF Next

LEMMA AlwaysInEffect ==
    ASSUME MayFail = FALSE
    PROVE  Spec => [](IInv /\ InEffect)
<1>1. Init => IInv /\ InEffect
  BY InitIInv, InitEffect, LifecycleConstants
<1>2. IInv /\ InEffect /\ [Next]_vars => (IInv /\ InEffect)'
  BY NextIInv, NextEffect, LifecycleConstants
<1> QED
  BY <1>1, <1>2, PTL DEF Spec

LEMMA QuietNotUnderway ==
    ASSUME NEW o \in Orders, Quiet(o), NEW s
    PROVE  ~Underway(o, s)
  BY DEF Quiet, Underway

\* Where no statement fails, the server stays up and nobody moves an order by
\* hand, an order paid in cash that is delivered and that no handler is working
\* on has had its cash recorded: applyShippingStatus writes the order's status
\* before the payment's, two reports of one delivery can run it at once, and a
\* handler that reads the status written by the other counts on that one.
THEOREM CashOfADeliveryIsRecorded ==
    ASSUME MayFail = FALSE, "setStatus" \notin Requests
    PROVE  Spec => []DeliveredCodIsPaid
<1>1. IInv /\ InEffect => DeliveredCodIsPaid
  BY QuietNotUnderway DEF InEffect, HandedOver, CashIn, DeliveredCodIsPaid
<1> QED
  BY <1>1, AlwaysInEffect, PTL

LEMMA EffectApplied ==
    ASSUME LifecycleConstants, "retry" \notin Requests, IInv, InEffect,
           NEW e \in Event, Quiet(e.order), Effect(e)
    PROVE  Applied(e)
<1>1. e.order \in Orders
  BY EventOrder
<1>2. ~Underway(e.order, "collectCash") /\ ~Underway(e.order, "claimRestore")
  BY <1>1, QuietNotUnderway
<1>3. Method[e.order] = "online" /\ e.order \in collected => status[e.order] # "PENDING_PAYMENT"
  BY <1>1 DEF InEffect, Charged, Quiet
<1>4. e.order \in collected => paymentStatus[e.order] \in Settled
  BY <1>1 DEF InEffect, Voided
<1>5. e.about \in {"captured", "failed"} => Method[e.order] = "online"
  BY DEF Event, Scans, SHIPPING_TO_ORDER_STATUS
<1>6. CASE e.about = "captured"
  BY <1>3, <1>4, <1>5, <1>6 DEF Effect, Applied
<1>7. CASE e.about = "failed"
  BY <1>3, <1>5, <1>7 DEF Effect, Applied
<1>8. CASE e.about = "DELIVERED"
  BY <1>2, <1>8 DEF Effect, Applied, CashIn
<1>9. CASE e.about = "RTO_DELIVERED"
  BY <1>2, <1>9 DEF Effect, Applied, UnitBack
<1>10. CASE e.about \notin {"captured", "failed", "DELIVERED", "RTO_DELIVERED"}
  BY <1>10 DEF Effect, Applied
<1> QED
  BY <1>6, <1>7, <1>8, <1>9, <1>10

\* Where no statement fails, the server stays up and no payment is retried, an
\* event marked PROCESSED has had its effect on an order that no handler is
\* working on: the money of a captured payment is on the books and the order
\* out of PENDING_PAYMENT, a failed payment has been decided, a delivery has
\* collected its cash and a return has put the unit back.
THEOREM ProcessedEventsAreApplied ==
    ASSUME MayFail = FALSE, "retry" \notin Requests
    PROVE  Spec => []ProcessedMeansApplied
<1>1. IInv /\ InEffect => ProcessedMeansApplied
  BY EffectApplied, LifecycleConstants DEF ProcessedMeansApplied, InEffect, Worked
<1> QED
  BY <1>1, AlwaysInEffect, PTL
==============================================================================
