---------------------------- MODULE BookingProofs ----------------------------
(***************************************************************************)
(* Theorems about ShipmentBooking for every set of orders and calls, every *)
(* limit of attempts and every death of the process.                       *)
(*                                                                         *)
(* A booking owns its order's row from the lock to the AWB, so the waybill *)
(* it holds is the row's, and the row's waybill never changes once it is   *)
(* there.  Whatever the courier has is filed under that one number.  The   *)
(* recall works without the lock, on a waybill that is there to stay.      *)
(***************************************************************************)
EXTENDS ShipmentBooking, FiniteSetTheorems, TLAPS

Steps == {"idle"} \cup BookSteps \cup PickupSteps \cup RecallSteps
JobType == [order : Orders \cup {None}, waybill : 0 .. Limit, at : Steps]
RowType == [status : {"none", "PENDING", "AWB_ASSIGNED", "IN_TRANSIT", "CANCELLED"},
            waybill : 0 .. Limit, awb : 0 .. Limit, attempts : 0 .. Limit]

\* Steps of a booking that may write its order's row.
Owning == BookSteps \ {"lock"}

\* Whoever is between the lock and the AWB holds the lock.
Owner(w) ==
    /\ job[w].at \in BookSteps \cup RecallSteps => job[w].order \in Orders
    /\ job[w].at \in Owning => locks[job[w].order] = w

\* What a booking holds is what its row says, and a number is drawn per attempt.
Booking(w) ==
    LET o == job[w].order
        n == job[w].waybill
    IN
    /\ job[w].at \in {"lock", "claim"} => n = 0
    /\ job[w].at \in {"count", "check"} => n = shipments[o].waybill
    /\ job[w].at = "count" => shipments[o].attempts < Limit
    /\ job[w].at \in {"check", "draw"} => drawn[o] < shipments[o].attempts
    /\ job[w].at = "draw" => n = 0 /\ shipments[o].waybill = 0
    /\ job[w].at = "keep" => n # 0 /\ shipments[o].waybill = 0
    /\ job[w].at \in {"create", "assign"} => n # 0 /\ n = shipments[o].waybill
    /\ job[w].at = "assign" => parcels[o][n] # "none"
    /\ job[w].at = "note" => shipments[o].awb # 0

\* A recall holds the row's waybill, and CANCELLED is written on the courier's word.
Recalling(w) ==
    LET o == job[w].order
        n == job[w].waybill
    IN
    /\ job[w].at \in {"askCancel", "recalled", "noteRecall"} =>
          n # 0 /\ n = shipments[o].waybill
    /\ job[w].at \in {"recalled", "noteRecall"} => parcels[o][n] = "cancelled"

\* The row of an order against the courier's books.
Filed(o) ==
    /\ drawn[o] <= shipments[o].attempts
    /\ \A n \in Numbers : parcels[o][n] # "none" => n = shipments[o].waybill
    /\ shipments[o].awb # 0 =>
          shipments[o].awb = shipments[o].waybill /\ parcels[o][shipments[o].awb] # "none"
    /\ shipping[o] # "NOT_SHIPPED" =>
          shipments[o].waybill # 0 /\ parcels[o][shipments[o].waybill] # "none"
    /\ shipments[o].status = "CANCELLED" =>
          shipments[o].waybill # 0 /\ parcels[o][shipments[o].waybill] = "cancelled"

IInv ==
    /\ TypeOK
    /\ \A w \in Workers : Owner(w) /\ Booking(w) /\ Recalling(w)
    /\ \A o \in Orders : Filed(o)

\* The day's OPEN row stands for the one call that is asking, or for its van.
OneAsks ==
    /\ vans <= 1 + unheard
    /\ ~openPickup => vans <= unheard
    /\ \A w \in Workers : job[w].at \in {"van", "closePickup"} => openPickup /\ vans <= unheard
    /\ \A v, w \in Workers :
          job[v].at \in {"van", "closePickup"} /\ job[w].at \in {"van", "closePickup"} => v = w

-----------------------------------------------------------------------------
LEMMA InitEstablishes == Init => IInv
  <1> SUFFICES ASSUME Init PROVE IInv
    OBVIOUS
  <1> USE BookingConstants DEF Init, NoShipment, NoJob
  <1>1. TypeOK
    <2>1. shipments \in [Orders ->
            RowType]
      BY DEF RowType
    <2>2. parcels \in [Orders -> [Numbers -> {"none", "manifested", "moving", "cancelled"}]]
      OBVIOUS
    <2>3. job \in [Workers -> JobType]
      BY DEF JobType, Steps
    <2>4. /\ drawn \in [Orders -> 0 .. Limit] /\ vans \in 0 .. MaxVans /\ unheard \in 0 .. vans
          /\ shipping \in [Orders -> {"NOT_SHIPPED", "AWB_ASSIGNED", "IN_TRANSIT", "CANCELLED"}]
          /\ locks \in [Orders -> Workers \cup {None}]
      OBVIOUS
    <2> QED
      BY <2>1, <2>2, <2>3, <2>4 DEF TypeOK, RowType, JobType, Steps
  <1>2. \A w \in Workers : Owner(w) /\ Booking(w) /\ Recalling(w)
    BY DEF Owner, Booking, Recalling, Owning, BookSteps, RecallSteps
  <1>3. \A o \in Orders : Filed(o)
    BY DEF Filed
  <1> QED
    BY <1>1, <1>2, <1>3 DEF IInv

\* A step of one call, or of the courier, on the row and the parcels of one order:
\* a call that does not own the row leaves alone what its owner relies on, and
\* nobody takes back a waybill, a parcel or a cancellation.
LEMMA RowStep ==
    ASSUME IInv, TypeOK', NEW w, NEW o \in Orders,
           \A v \in Workers \ {w} : job'[v] = job[v],
           \A v \in Workers \ {w}, p \in Orders : locks[p] = v => locks'[p] = v,
           \A p \in Orders \ {o} : /\ shipments'[p] = shipments[p] /\ parcels'[p] = parcels[p]
                                   /\ drawn'[p] = drawn[p] /\ shipping'[p] = shipping[p],
           shipments[o].waybill # 0 => shipments'[o].waybill = shipments[o].waybill,
           \A n \in Numbers : /\ parcels[o][n] = "cancelled" => parcels'[o][n] = "cancelled"
                              /\ parcels[o][n] # "none" => parcels'[o][n] # "none",
           \/ locks[o] = w
           \/ /\ shipments'[o].waybill = shipments[o].waybill
              /\ shipments'[o].attempts = shipments[o].attempts
              /\ shipments[o].awb # 0 => shipments'[o].awb # 0
              /\ drawn'[o] = drawn[o],
           w \in Workers => (Owner(w) /\ Booking(w) /\ Recalling(w))',
           Filed(o)'
    PROVE  IInv'
  <1>1. ASSUME NEW v \in Workers \ {w} PROVE (Owner(v) /\ Booking(v) /\ Recalling(v))'
    <2>1. Owner(v) /\ Booking(v) /\ Recalling(v) /\ job'[v] = job[v]
      BY DEF IInv
    <2>2. Owner(v)'
      BY <2>1 DEF Owner, Owning, BookSteps, RecallSteps
    <2>3. Booking(v)'
      <3>1. CASE job[v].at \in Owning /\ job[v].order = o
        <4>1. /\ shipments'[o].waybill = shipments[o].waybill
              /\ shipments'[o].attempts = shipments[o].attempts
              /\ shipments[o].awb # 0 => shipments'[o].awb # 0
              /\ drawn'[o] = drawn[o]
          BY <2>1, <3>1 DEF Owner
        <4>2. job[v].at = "assign" => job[v].waybill \in Numbers
          BY <2>1 DEF Booking, IInv, TypeOK, Numbers
        <4> QED
          BY <2>1, <3>1, <4>1, <4>2 DEF Booking
      <3>2. CASE job[v].at \in Owning /\ job[v].order # o
        BY <2>1, <3>2 DEF Owner, Booking, Owning
      <3>3. CASE job[v].at \notin Owning
        BY <2>1, <3>3 DEF Booking, Owning, BookSteps
      <3> QED
        BY <3>1, <3>2, <3>3
    <2>4. Recalling(v)'
      <3>1. CASE job[v].at \in RecallSteps /\ job[v].order = o
        <4>1. job[v].at \in RecallSteps \ {"recall"} => job[v].waybill \in Numbers
          BY <2>1 DEF Recalling, RecallSteps, IInv, TypeOK, Numbers
        <4> QED
          BY <2>1, <3>1, <4>1 DEF Recalling, RecallSteps
      <3>2. CASE job[v].at \in RecallSteps /\ job[v].order # o
        BY <2>1, <3>2 DEF Owner, Recalling
      <3>3. CASE job[v].at \notin RecallSteps
        BY <2>1, <3>3 DEF Recalling, RecallSteps
      <3> QED
        BY <3>1, <3>2, <3>3
    <2> QED
      BY <2>2, <2>3, <2>4
  <1>2. ASSUME NEW p \in Orders \ {o} PROVE Filed(p)'
    BY DEF IInv, Filed
  <1> QED
    BY <1>1, <1>2 DEF IInv

\* A step of a call that writes no row.
LEMMA QuietStep ==
    ASSUME IInv, TypeOK', NEW w \in Workers,
           \A v \in Workers \ {w} : job'[v] = job[v],
           \A v \in Workers \ {w}, p \in Orders : locks[p] = v => locks'[p] = v,
           UNCHANGED << shipments, shipping, drawn, parcels >>,
           (Owner(w) /\ Booking(w) /\ Recalling(w))'
    PROVE  IInv'
  <1>1. ASSUME NEW v \in Workers \ {w} PROVE (Owner(v) /\ Booking(v) /\ Recalling(v))'
    <2>1. Owner(v) /\ Booking(v) /\ Recalling(v) /\ job'[v] = job[v]
      BY DEF IInv
    <2>2. Owner(v)'
      BY <2>1 DEF Owner, Owning, BookSteps
    <2> QED
      BY <2>1, <2>2 DEF Booking, Recalling
  <1>2. \A o \in Orders : Filed(o)'
    BY DEF IInv, Filed
  <1> QED
    BY <1>1, <1>2 DEF IInv

LEMMA JobShape == TypeOK => job \in [Workers -> JobType]
  BY DEF TypeOK, JobType, Steps

Resume(w, at, n) == job' = [job EXCEPT ![w].at = at, ![w].waybill = n]

LEMMA ResumeMoves ==
    ASSUME TypeOK, NEW w \in Workers, NEW at \in Steps, NEW n \in 0 .. Limit, Resume(w, at, n)
    PROVE  /\ job'[w].at = at /\ job'[w].order = job[w].order /\ job'[w].waybill = n
           /\ \A v \in Workers \ {w} : job'[v] = job[v]
           /\ job' \in [Workers -> JobType]
  <1>1. job \in [Workers -> JobType]
    BY JobShape
  <1> QED
    BY <1>1 DEF JobType, Resume

LEMMA RowTo ==
    ASSUME TypeOK, NEW o \in Orders, NEW r \in RowType, shipments' = [shipments EXCEPT ![o] = r]
    PROVE  /\ shipments'[o] = r
           /\ \A p \in Orders \ {o} : shipments'[p] = shipments[p]
           /\ shipments' \in [Orders -> RowType]
  <1>1. shipments \in [Orders -> RowType]
    BY DEF TypeOK, RowType
  <1> QED
    BY <1>1

LEMMA GoMoves ==
    ASSUME TypeOK, NEW w \in Workers, NEW at \in Steps, Go(w, at)
    PROVE  /\ job'[w].at = at /\ job'[w].order = job[w].order
           /\ job'[w].waybill = job[w].waybill
           /\ \A v \in Workers \ {w} : job'[v] = job[v]
           /\ job' \in [Workers -> JobType]
  <1>1. job \in [Workers -> JobType]
    BY DEF TypeOK, JobType, Steps
  <1> QED
    BY <1>1 DEF JobType, Go

LEMMA LeaveReleases ==
    ASSUME TypeOK, NEW w \in Workers, Leave(w)
    PROVE  /\ job'[w].at = "idle"
           /\ \A v \in Workers \ {w} : job'[v] = job[v]
           /\ \A v \in Workers \ {w}, p \in Orders : locks[p] = v => locks'[p] = v
           /\ job' \in [Workers -> JobType]
           /\ locks' \in [Orders -> Workers \cup {None}]
           /\ (Owner(w) /\ Booking(w) /\ Recalling(w))'
  <1>1. /\ job'[w].at = "idle"
        /\ \A v \in Workers \ {w} : job'[v] = job[v]
        /\ job' \in [Workers -> JobType]
    BY JobShape, BookingConstants DEF JobType, Steps, Leave, NoJob
  <1>2. locks' \in [Orders -> Workers \cup {None}]
    BY DEF TypeOK, Leave
  <1>3. (Owner(w) /\ Booking(w) /\ Recalling(w))'
    BY <1>1 DEF Owner, Booking, Recalling, Owning, BookSteps, RecallSteps
  <1>4. \A v \in Workers \ {w}, p \in Orders : locks[p] = v => locks'[p] = v
    BY DEF Leave
  <1> QED
    BY <1>1, <1>2, <1>3, <1>4

LEMMA LeaveStep ==
    ASSUME IInv, NEW w \in Workers, Leave(w), TypeOK',
           UNCHANGED << shipments, shipping, drawn, parcels >>
    PROVE  IInv'
  BY LeaveReleases, QuietStep DEF IInv

-----------------------------------------------------------------------------
(* A call starts.                                                          *)

LEMMA StartStep ==
    ASSUME IInv, NEW w \in Workers, NEW o \in Orders \cup {None},
           NEW at \in {"lock", "pickup", "recall"}, Start(w, o, at),
           at # "pickup" => o \in Orders,
           live' \subseteq Orders, UNCHANGED << shipments, shipping, openPickup, locks, courier >>
    PROVE  IInv'
  <1>1. /\ job'[w].at = at /\ job'[w].order = o /\ job'[w].waybill = 0
        /\ \A v \in Workers \ {w} : job'[v] = job[v]
    BY DEF IInv, TypeOK, Start, NoJob
  <1>2. job' \in [Workers -> JobType]
    BY JobShape, BookingConstants
    DEF IInv, JobType, Steps, Start, NoJob, BookSteps, PickupSteps, RecallSteps
  <1>3. TypeOK'
    BY <1>2 DEF IInv, TypeOK, JobType, Steps, courier
  <1>4. (Owner(w) /\ Booking(w) /\ Recalling(w))'
    BY <1>1 DEF Owner, Booking, Recalling, Owning, BookSteps, RecallSteps
  <1> QED
    BY <1>1, <1>3, <1>4, QuietStep DEF courier

-----------------------------------------------------------------------------
(* The steps of a booking.                                                 *)

LEMMA TakeLockStep == ASSUME IInv, NEW w \in Workers, TakeLock(w) PROVE IInv'
  <1> DEFINE o == job[w].order
  <1>1. UNCHANGED << live, shipments, shipping, openPickup, drawn, parcels, vans, unheard >>
    BY DEF TakeLock, rows, courier
  <1>2. CASE Leave(w)
    <2>1. TypeOK'
      BY <1>1, <1>2, LeaveReleases DEF IInv, TypeOK, JobType, Steps
    <2> QED
      BY <1>1, <1>2, <2>1, LeaveStep
  <1>3. CASE ~Leave(w)
    <2>1. /\ locks[o] = None /\ locks' = [locks EXCEPT ![o] = w] /\ Go(w, "claim")
          /\ o \in Orders /\ job[w].waybill = 0
      BY <1>3 DEF TakeLock, IInv, Owner, Booking, BookSteps
    <2>2. /\ job'[w].at = "claim" /\ job'[w].order = o /\ job'[w].waybill = 0
          /\ \A v \in Workers \ {w} : job'[v] = job[v]
      BY <2>1, GoMoves DEF IInv, Steps, BookSteps
    <2>3. TypeOK'
      BY <1>1, <2>1, <2>2, GoMoves DEF IInv, TypeOK, JobType, Steps, BookSteps
    <2>4. /\ locks'[o] = w
          /\ \A v \in Workers \ {w}, p \in Orders : locks[p] = v => locks'[p] = v
      BY <2>1, BookingConstants DEF IInv, TypeOK
    <2>5. (Owner(w) /\ Booking(w) /\ Recalling(w))'
      BY <2>1, <2>2, <2>4 DEF Owner, Booking, Recalling, Owning, BookSteps, RecallSteps
    <2> QED
      BY <1>1, <2>2, <2>3, <2>4, <2>5, QuietStep
  <1> QED
    BY <1>2, <1>3

\* What holds of a call that owns its order's row.
LEMMA OwnerHolds ==
    ASSUME IInv, NEW w \in Workers, job[w].at \in Owning
    PROVE  /\ job[w].order \in Orders
           /\ locks[job[w].order] = w
           /\ Booking(w) /\ Filed(job[w].order)
           /\ job[w].waybill \in 0 .. Limit
  BY DEF IInv, Owner, Owning, TypeOK

\* A booking that goes on after a change of its row or of the courier's books.
LEMMA GoStep ==
    ASSUME IInv, TypeOK', NEW w \in Workers, job[w].at \in Owning,
           NEW o \in Orders, o = job[w].order,
           job'[w].order = o, job'[w].at \in BookSteps \cup PickupSteps,
           \A v \in Workers \ {w} : job'[v] = job[v],
           UNCHANGED locks,
           \A p \in Orders \ {o} :
              /\ shipments'[p] = shipments[p] /\ parcels'[p] = parcels[p]
              /\ drawn'[p] = drawn[p] /\ shipping'[p] = shipping[p],
           shipments[o].waybill # 0 => shipments'[o].waybill = shipments[o].waybill,
           \A n \in Numbers : /\ parcels[o][n] = "cancelled" => parcels'[o][n] = "cancelled"
                              /\ parcels[o][n] # "none" => parcels'[o][n] # "none",
           Booking(w)', Filed(o)'
    PROVE  IInv'
  <1>1. locks[o] = w
    BY OwnerHolds
  <1>2. Owner(w)' /\ Recalling(w)'
    BY <1>1 DEF Owner, Recalling, BookSteps, PickupSteps, RecallSteps
  <1>3. \A v \in Workers \ {w}, p \in Orders : locks[p] = v => locks'[p] = v
    OBVIOUS
  <1> QED
    BY <1>1, <1>2, <1>3, RowStep

\* A booking that fails, whatever the courier did before it failed.
LEMMA FailStep ==
    ASSUME IInv, NEW w \in Workers, job[w].at \in Owning, FailBooking(w),
           NEW o \in Orders, o = job[w].order,
           UNCHANGED << live, shipping, openPickup, vans, unheard >>,
           drawn' \in [Orders -> 0 .. Limit],
           parcels' \in [Orders -> [Numbers -> {"none", "manifested", "moving", "cancelled"}]],
           \A p \in Orders \ {o} : parcels'[p] = parcels[p] /\ drawn'[p] = drawn[p],
           drawn'[o] <= shipments[o].attempts,
           \A n \in Numbers :
              /\ parcels[o][n] = "cancelled" => parcels'[o][n] = "cancelled"
              /\ parcels[o][n] # "none" => parcels'[o][n] # "none"
              /\ parcels'[o][n] # "none" => n = shipments[o].waybill
    PROVE  IInv'
  <1>1. Leave(w) /\ locks[o] = w /\ Filed(o) /\ shipments[o] \in RowType
    BY OwnerHolds DEF FailBooking, IInv, TypeOK, RowType
  <1>2. PICK r \in RowType : /\ r = [shipments[o] EXCEPT !.status = "PENDING"]
                             /\ shipments' = [shipments EXCEPT ![o] = r]
    BY <1>1 DEF FailBooking, RowType
  <1>3. /\ shipments'[o] = r /\ shipments' \in [Orders -> RowType]
        /\ \A p \in Orders \ {o} : shipments'[p] = shipments[p]
    BY ZenonT(30), <1>2, RowTo DEF IInv
  <1>4. /\ r.status = "PENDING" /\ r.waybill = shipments[o].waybill
        /\ r.awb = shipments[o].awb /\ r.attempts = shipments[o].attempts
    BY <1>1, <1>2 DEF RowType
  <1>5. TypeOK'
    BY <1>1, <1>3, LeaveReleases DEF IInv, TypeOK, RowType, JobType, Steps
  <1>6. Filed(o)'
    <2>1. shipments[o].awb # 0 => shipments[o].awb \in Numbers
      BY <1>1 DEF Numbers, RowType
    <2>2. shipments[o].waybill # 0 => shipments[o].waybill \in Numbers
      BY <1>1 DEF Numbers, RowType
    <2>3. r.status # "CANCELLED"
      BY <1>4
    <2>4. /\ drawn'[o] <= r.attempts
          /\ \A n \in Numbers : parcels'[o][n] # "none" => n = r.waybill
          /\ r.awb # 0 => r.awb = r.waybill /\ parcels'[o][r.awb] # "none"
          /\ shipping'[o] # "NOT_SHIPPED" => r.waybill # 0 /\ parcels'[o][r.waybill] # "none"
      <3>1. drawn'[o] <= r.attempts /\ \A n \in Numbers : parcels'[o][n] # "none" => n = r.waybill
        BY <1>4
      <3>2. r.awb # 0 => r.awb = r.waybill /\ parcels'[o][r.awb] # "none"
        <4>1. r.awb # 0 => /\ r.awb \in Numbers /\ r.awb = r.waybill
                           /\ parcels[o][r.awb] # "none"
          BY <1>1, <1>4, <2>1 DEF Filed
        <4> QED
          BY <4>1
      <3>3. shipping'[o] # "NOT_SHIPPED" => r.waybill # 0 /\ parcels'[o][r.waybill] # "none"
        <4>1. shipping[o] # "NOT_SHIPPED" => /\ r.waybill \in Numbers /\ r.waybill # 0
                                             /\ parcels[o][r.waybill] # "none"
          BY <1>1, <1>4, <2>2 DEF Filed
        <4> QED
          BY <4>1
      <3> QED
        BY <3>1, <3>2, <3>3
    <2> QED
      BY <1>3, <2>3, <2>4 DEF Filed
  <1>7. /\ \A v \in Workers \ {w} : job'[v] = job[v]
        /\ \A v \in Workers \ {w}, p \in Orders : locks[p] = v => locks'[p] = v
        /\ (Owner(w) /\ Booking(w) /\ Recalling(w))'
    BY <1>1, LeaveReleases DEF IInv
  <1> QED
    BY <1>1, <1>3, <1>4, <1>5, <1>6, <1>7, RowStep

LEMMA ClaimStep == ASSUME IInv, NEW w \in Workers, Claim(w) PROVE IInv'
  <1>1. PICK o \in Orders : o = job[w].order
    BY OwnerHolds DEF Claim, Owning, BookSteps
  <1>2. /\ job[w].at = "claim" /\ job[w].at \in Owning /\ job[w].waybill = 0
        /\ Filed(o) /\ locks[o] = w /\ shipments[o] \in RowType
        /\ UNCHANGED << live, shipping, openPickup, drawn, parcels, vans, unheard >>
    BY <1>1, OwnerHolds DEF Claim, Owning, BookSteps, courier, Booking, IInv, TypeOK, RowType
  <1>3. CASE shipments[o] = NoShipment
    <2>1. PICK r \in RowType : /\ r = [NoShipment EXCEPT !.status = "PENDING"]
                               /\ shipments' = [shipments EXCEPT ![o] = r]
      BY <1>1, <1>2, <1>3, BookingConstants DEF Claim, RowType, NoShipment
    <2>2. r.status = "PENDING" /\ r.waybill = 0 /\ r.awb = 0 /\ r.attempts = 0
      BY <2>1 DEF NoShipment
    <2>3. /\ shipments'[o] = r /\ shipments' \in [Orders -> RowType]
          /\ \A p \in Orders \ {o} : shipments'[p] = shipments[p]
      BY <2>1, RowTo DEF IInv
    <2>4. Go(w, "count") /\ UNCHANGED locks
      BY <1>1, <1>3 DEF Claim
    <2>5. /\ job'[w].at = "count" /\ job'[w].order = o /\ job'[w].waybill = 0
          /\ \A v \in Workers \ {w} : job'[v] = job[v]
          /\ job' \in [Workers -> JobType]
      BY <1>1, <1>2, <2>4, GoMoves DEF IInv, Steps, BookSteps
    <2>6. TypeOK'
      BY <1>2, <2>3, <2>4, <2>5 DEF IInv, TypeOK, RowType, JobType, Steps
    <2>7. Filed(o)' /\ Booking(w)'
      BY <1>2, <1>3, <2>2, <2>3, <2>5, BookingConstants DEF Filed, Booking, NoShipment
    <2> QED
      BY <1>1, <1>2, <1>3, <2>3, <2>4, <2>5, <2>6, <2>7, GoStep DEF BookSteps, NoShipment
  <1>4. CASE shipments[o] # NoShipment /\ GivenUp(o)
    <2>1. Leave(w) /\ UNCHANGED shipments
      BY <1>1, <1>4 DEF Claim
    <2>2. TypeOK'
      BY <1>2, <2>1, LeaveReleases DEF IInv, TypeOK, JobType, Steps
    <2> QED
      BY <1>2, <2>1, <2>2, LeaveStep
  <1>5. CASE shipments[o] # NoShipment /\ ~GivenUp(o)
    <2>1. /\ job' = [job EXCEPT ![w].at = "count", ![w].waybill = shipments[o].waybill]
          /\ UNCHANGED << shipments, locks >>
          /\ shipments[o].attempts < Limit
      BY <1>1, <1>2, <1>5, BookingConstants DEF Claim, StoredWaybill, GivenUp, RowType
    <2>2. /\ job'[w].at = "count" /\ job'[w].order = o /\ job'[w].waybill = shipments[o].waybill
          /\ \A v \in Workers \ {w} : job'[v] = job[v]
          /\ job' \in [Workers -> JobType]
      <3>1. Resume(w, "count", shipments[o].waybill)
        BY <1>1, <1>2, <2>1 DEF Resume
      <3>2. "count" \in Steps /\ shipments[o].waybill \in 0 .. Limit
        BY <1>1, <1>2, <2>1 DEF Steps, BookSteps, RowType
      <3> QED
        BY <1>1, <3>1, <3>2, ResumeMoves DEF IInv
    <2>3. Booking(w)' /\ Filed(o)'
      BY <1>2, <2>1, <2>2 DEF Booking, Filed
    <2>4. TypeOK'
      BY <1>2, <2>1, <2>2 DEF IInv, TypeOK, JobType, Steps
    <2> QED
      BY <1>1, <1>2, <2>1, <2>2, <2>3, <2>4, GoStep DEF BookSteps
  <1> QED
    BY <1>3, <1>4, <1>5

LEMMA CountStep == ASSUME IInv, NEW w \in Workers, CountAttempt(w) PROVE IInv'
  <1>1. PICK o \in Orders : o = job[w].order
    BY OwnerHolds DEF CountAttempt, Owning, BookSteps
  <1>2. /\ job[w].at = "count" /\ job[w].at \in Owning
        /\ job[w].waybill = shipments[o].waybill /\ shipments[o].attempts < Limit
        /\ Filed(o) /\ shipments[o] \in RowType /\ drawn[o] \in 0 .. Limit
        /\ UNCHANGED << live, shipping, openPickup, locks, drawn, parcels, vans, unheard >>
    BY <1>1, OwnerHolds
    DEF CountAttempt, Owning, BookSteps, courier, Booking, IInv, TypeOK, RowType
  <1>3. PICK r \in RowType : /\ r = [shipments[o] EXCEPT !.attempts = @ + 1]
                             /\ shipments' = [shipments EXCEPT ![o] = r]
    <2>1. shipments[o].attempts + 1 \in 0 .. Limit
      BY <1>2, BookingConstants DEF RowType
    <2> QED
      BY <1>1, <1>2, <2>1 DEF CountAttempt, RowType
  <1>4. /\ r.status = shipments[o].status /\ r.waybill = shipments[o].waybill
        /\ r.awb = shipments[o].awb /\ r.attempts = shipments[o].attempts + 1
    BY <1>2, <1>3 DEF RowType
  <1>5. /\ shipments'[o] = r /\ shipments' \in [Orders -> RowType]
        /\ \A p \in Orders \ {o} : shipments'[p] = shipments[p]
    BY <1>3, RowTo DEF IInv
  <1>6. /\ job'[w].at = "check" /\ job'[w].order = o /\ job'[w].waybill = job[w].waybill
        /\ \A v \in Workers \ {w} : job'[v] = job[v]
        /\ job' \in [Workers -> JobType]
    BY <1>1, GoMoves DEF CountAttempt, IInv, Steps, BookSteps
  <1>7. drawn[o] < r.attempts /\ drawn[o] <= r.attempts
    BY <1>2, <1>4, BookingConstants DEF Filed, RowType
  <1>8. Booking(w)' /\ Filed(o)'
    BY <1>2, <1>4, <1>5, <1>6, <1>7 DEF Booking, Filed
  <1>9. TypeOK'
    BY <1>2, <1>5, <1>6 DEF IInv, TypeOK, RowType, JobType, Steps
  <1> QED
    BY <1>1, <1>2, <1>4, <1>5, <1>6, <1>8, <1>9, GoStep DEF BookSteps

LEMMA CheckStep == ASSUME IInv, NEW w \in Workers, Check(w) PROVE IInv'
  <1>1. PICK o \in Orders : o = job[w].order
    BY OwnerHolds DEF Check, Owning, BookSteps
  <1>2. /\ job[w].at = "check" /\ job[w].at \in Owning
        /\ job[w].waybill = shipments[o].waybill /\ drawn[o] < shipments[o].attempts
        /\ Filed(o)
        /\ UNCHANGED << live, shipping, openPickup, drawn, parcels, vans, unheard >>
    BY <1>1, OwnerHolds DEF Check, Owning, BookSteps, courier, Booking
  <1>3. CASE FailBooking(w)
    <2>1. /\ drawn' \in [Orders -> 0 .. Limit] /\ drawn'[o] <= shipments[o].attempts
          /\ parcels' \in [Orders -> [Numbers -> {"none", "manifested", "moving", "cancelled"}]]
      BY <1>2 DEF IInv, TypeOK, Filed
    <2>2. \A n \in Numbers : parcels'[o][n] # "none" => n = shipments[o].waybill
      BY <1>2 DEF Filed
    <2> QED
      BY <1>1, <1>2, <1>3, <2>1, <2>2, FailStep
  <1>4. CASE ~FailBooking(w)
    <2>1. PICK at \in {"draw", "create"} :
             /\ at = (IF job[w].waybill = 0 THEN "draw" ELSE "create")
             /\ Go(w, at) /\ UNCHANGED << shipments, locks >>
      BY <1>4 DEF Check
    <2>2. /\ job'[w].at = at /\ job'[w].order = o /\ job'[w].waybill = job[w].waybill
          /\ \A v \in Workers \ {w} : job'[v] = job[v]
          /\ job' \in [Workers -> JobType]
      BY <1>1, <2>1, GoMoves DEF IInv, Steps, BookSteps
    <2>3. Booking(w)' /\ Filed(o)'
      BY <1>2, <2>1, <2>2 DEF Booking, Filed
    <2>4. TypeOK'
      BY <1>2, <2>1, <2>2 DEF IInv, TypeOK, JobType, Steps
    <2> QED
      BY <1>1, <1>2, <2>1, <2>2, <2>3, <2>4, GoStep DEF BookSteps
  <1> QED
    BY <1>3, <1>4

LEMMA DrawStep == ASSUME IInv, NEW w \in Workers, Draw(w) PROVE IInv'
  <1>1. PICK o \in Orders : o = job[w].order
    BY OwnerHolds DEF Draw, Owning, BookSteps
  <1>2. /\ job[w].at = "draw" /\ job[w].at \in Owning
        /\ job[w].waybill = 0 /\ shipments[o].waybill = 0 /\ drawn[o] < shipments[o].attempts
        /\ Filed(o)
        /\ UNCHANGED << live, shipping, openPickup, parcels, vans, unheard >>
        /\ drawn \in [Orders -> 0 .. Limit] /\ shipments[o].attempts \in 0 .. Limit
    BY <1>1, OwnerHolds DEF Draw, Owning, BookSteps, Booking, IInv, TypeOK
  <1>3. ASSUME NEW numbers \in 0 .. 1, drawn' = [drawn EXCEPT ![o] = @ + numbers]
        PROVE  /\ drawn'[o] = drawn[o] + numbers /\ drawn'[o] \in 0 .. Limit
               /\ drawn'[o] <= shipments[o].attempts
               /\ \A p \in Orders \ {o} : drawn'[p] = drawn[p]
               /\ drawn' \in [Orders -> 0 .. Limit]
    BY <1>2, <1>3, BookingConstants
  <1>4. CASE FailBooking(w) /\ \E lostNumbers \in 0 .. 1 : drawn' = [drawn EXCEPT ![o] = @ + lostNumbers]
    <2>1. /\ drawn' \in [Orders -> 0 .. Limit] /\ drawn'[o] <= shipments[o].attempts
          /\ \A p \in Orders \ {o} : drawn'[p] = drawn[p]
      BY <1>3, <1>4
    <2>2. /\ parcels' \in [Orders -> [Numbers -> {"none", "manifested", "moving", "cancelled"}]]
          /\ \A p \in Orders \ {o} : parcels'[p] = parcels[p] /\ drawn'[p] = drawn[p]
          /\ \A n \in Numbers :
                /\ parcels[o][n] = "cancelled" => parcels'[o][n] = "cancelled"
                /\ parcels[o][n] # "none" => parcels'[o][n] # "none"
                /\ parcels'[o][n] # "none" => n = shipments[o].waybill
      BY <1>2, <2>1 DEF IInv, TypeOK, Filed
    <2>3. FailBooking(w) /\ UNCHANGED << live, shipping, openPickup, vans, unheard >>
          /\ job[w].at \in Owning /\ o = job[w].order
      BY <1>1, <1>2, <1>4
    <2> QED
      BY <2>1, <2>2, <2>3, FailStep
  <1>5. CASE /\ drawn' = [drawn EXCEPT ![o] = @ + 1]
             /\ job' = [job EXCEPT ![w].at = "keep", ![w].waybill = drawn'[o]]
             /\ UNCHANGED << shipments, locks >>
    <2>1. /\ drawn'[o] = drawn[o] + 1 /\ drawn'[o] \in 0 .. Limit
          /\ drawn'[o] <= shipments[o].attempts
          /\ \A p \in Orders \ {o} : drawn'[p] = drawn[p]
          /\ drawn' \in [Orders -> 0 .. Limit]
      BY <1>3, <1>5
    <2>2. drawn'[o] # 0
      BY <1>2, <2>1
    <2>3. /\ job'[w].at = "keep" /\ job'[w].order = o /\ job'[w].waybill = drawn'[o]
          /\ \A v \in Workers \ {w} : job'[v] = job[v]
          /\ job' \in [Workers -> JobType]
      <3>1. Resume(w, "keep", drawn'[o])
        BY <1>1, <1>5, <2>1 DEF Resume
      <3>2. "keep" \in Steps /\ drawn'[o] \in 0 .. Limit
        BY <1>1, <1>5, <2>1 DEF Steps, BookSteps
      <3> QED
        BY <1>1, <3>1, <3>2, ResumeMoves DEF IInv
    <2>4. Booking(w)' /\ Filed(o)'
      BY <1>2, <1>5, <2>1, <2>2, <2>3 DEF Booking, Filed
    <2>5. TypeOK'
      BY <1>2, <1>5, <2>1, <2>3 DEF IInv, TypeOK, JobType, Steps
    <2> QED
      BY <1>1, <1>2, <1>5, <2>1, <2>3, <2>4, <2>5, GoStep DEF BookSteps
  <1> QED
    BY <1>1, <1>4, <1>5 DEF Draw

LEMMA KeepStep == ASSUME IInv, NEW w \in Workers, KeepWaybill(w) PROVE IInv'
  <1>1. PICK o \in Orders : o = job[w].order
    BY OwnerHolds DEF KeepWaybill, Owning, BookSteps
  <1>2. /\ job[w].at = "keep" /\ job[w].at \in Owning
        /\ job[w].waybill # 0 /\ job[w].waybill \in 0 .. Limit /\ shipments[o].waybill = 0
        /\ Filed(o) /\ shipments[o] \in RowType
        /\ UNCHANGED << live, shipping, openPickup, locks, drawn, parcels, vans, unheard >>
    BY <1>1, OwnerHolds
    DEF KeepWaybill, Owning, BookSteps, courier, Booking, IInv, TypeOK, RowType
  <1>3. PICK r \in RowType : /\ r = [shipments[o] EXCEPT !.waybill = job[w].waybill]
                             /\ shipments' = [shipments EXCEPT ![o] = r]
    BY <1>1, <1>2 DEF KeepWaybill, RowType
  <1>4. /\ r.status = shipments[o].status /\ r.waybill = job[w].waybill
        /\ r.awb = shipments[o].awb /\ r.attempts = shipments[o].attempts
    BY <1>2, <1>3 DEF RowType
  <1>5. /\ shipments'[o] = r /\ shipments' \in [Orders -> RowType]
        /\ \A p \in Orders \ {o} : shipments'[p] = shipments[p]
    BY <1>3, RowTo DEF IInv
  <1>6. /\ job'[w].at = "create" /\ job'[w].order = o /\ job'[w].waybill = job[w].waybill
        /\ \A v \in Workers \ {w} : job'[v] = job[v]
        /\ job' \in [Workers -> JobType]
    BY <1>1, GoMoves DEF KeepWaybill, IInv, Steps, BookSteps
  <1>7. \A n \in Numbers : parcels[o][n] = "none"
    BY <1>2 DEF Filed, Numbers
  <1>8. Booking(w)' /\ Filed(o)'
    BY <1>2, <1>4, <1>5, <1>6, <1>7 DEF Booking, Filed, RowType
  <1>9. TypeOK'
    BY <1>2, <1>5, <1>6 DEF IInv, TypeOK, RowType, JobType, Steps
  <1> QED
    BY <1>1, <1>2, <1>4, <1>5, <1>6, <1>8, <1>9, GoStep DEF BookSteps

LEMMA CreateStep == ASSUME IInv, NEW w \in Workers, Create(w) PROVE IInv'
  <1>1. PICK o \in Orders : o = job[w].order
    BY OwnerHolds DEF Create, Owning, BookSteps
  <1>2. PICK n \in Numbers : n = job[w].waybill
    BY OwnerHolds DEF Create, Owning, BookSteps, Booking, Numbers
  <1>3. /\ job[w].at = "create" /\ job[w].at \in Owning
        /\ n # 0 /\ n = shipments[o].waybill /\ Filed(o)
        /\ UNCHANGED << live, shipping, openPickup, drawn, vans, unheard >>
        /\ drawn \in [Orders -> 0 .. Limit]
        /\ parcels \in [Orders -> [Numbers -> {"none", "manifested", "moving", "cancelled"}]]
    BY <1>1, <1>2, OwnerHolds DEF Create, Owning, BookSteps, Booking, IInv, TypeOK
  <1>4. ASSUME \/ UNCHANGED parcels
               \/ parcels[o][n] = "none" /\ parcels' = [parcels EXCEPT ![o][n] = "manifested"]
        PROVE  /\ parcels' \in [Orders -> [Numbers -> {"none", "manifested", "moving", "cancelled"}]]
               /\ \A p \in Orders \ {o} : parcels'[p] = parcels[p]
               /\ \A m \in Numbers :
                     /\ parcels[o][m] = "cancelled" => parcels'[o][m] = "cancelled"
                     /\ parcels[o][m] # "none" => parcels'[o][m] # "none"
                     /\ parcels'[o][m] # "none" => m = shipments[o].waybill
    BY <1>3, <1>4 DEF Filed
  <1>5. CASE FailBooking(w)
    <2>1. \/ UNCHANGED parcels
          \/ parcels[o][n] = "none" /\ parcels' = [parcels EXCEPT ![o][n] = "manifested"]
      BY <1>1, <1>2 DEF Create
    <2>2. drawn' \in [Orders -> 0 .. Limit] /\ drawn'[o] <= shipments[o].attempts
      BY <1>3 DEF Filed
    <2>3. /\ UNCHANGED << live, shipping, openPickup, vans, unheard >> /\ job[w].at \in Owning
          /\ \A p \in Orders \ {o} : parcels'[p] = parcels[p] /\ drawn'[p] = drawn[p]
      BY <1>3, <1>4, <2>1
    <2>4. /\ parcels' \in [Orders -> [Numbers -> {"none", "manifested", "moving", "cancelled"}]]
          /\ \A m \in Numbers :
                /\ parcels[o][m] = "cancelled" => parcels'[o][m] = "cancelled"
                /\ parcels[o][m] # "none" => parcels'[o][m] # "none"
                /\ parcels'[o][m] # "none" => m = shipments[o].waybill
      BY <1>4, <2>1
    <2> QED
      BY <1>1, <1>5, <2>2, <2>3, <2>4, FailStep
  <1>6. CASE ~FailBooking(w)
    <2>1. /\ parcels[o][n] = "none" /\ parcels' = [parcels EXCEPT ![o][n] = "manifested"]
          /\ Go(w, "assign") /\ UNCHANGED << shipments, locks >>
      BY <1>1, <1>2, <1>6 DEF Create
    <2>2. /\ job'[w].at = "assign" /\ job'[w].order = o /\ job'[w].waybill = n
          /\ \A v \in Workers \ {w} : job'[v] = job[v]
          /\ job' \in [Workers -> JobType]
      BY <1>1, <1>2, <2>1, GoMoves DEF IInv, Steps, BookSteps
    <2>3. parcels'[o][n] = "manifested"
      BY <1>3, <2>1
    <2>4. Booking(w)'
      BY <1>3, <2>1, <2>2, <2>3 DEF Booking
    <2>5. Filed(o)'
      <3>1. shipments[o].awb # 0 => FALSE
        BY <1>3, <2>1 DEF Filed
      <3> QED
        BY <1>3, <1>4, <2>1, <2>3, <3>1 DEF Filed
    <2>6. TypeOK'
      BY <1>3, <1>4, <2>1, <2>2 DEF IInv, TypeOK, JobType, Steps
    <2> QED
      BY <1>1, <1>3, <1>4, <2>1, <2>2, <2>4, <2>5, <2>6, GoStep DEF BookSteps
  <1> QED
    BY <1>5, <1>6

LEMMA AssignStep == ASSUME IInv, NEW w \in Workers, AssignAwb(w) PROVE IInv'
  <1>1. PICK o \in Orders : o = job[w].order
    BY OwnerHolds DEF AssignAwb, Owning, BookSteps
  <1>2. PICK n \in Numbers : n = job[w].waybill
    BY OwnerHolds DEF AssignAwb, Owning, BookSteps, Booking, Numbers
  <1>3. /\ job[w].at = "assign" /\ job[w].at \in Owning
        /\ n # 0 /\ n = shipments[o].waybill /\ parcels[o][n] # "none"
        /\ Filed(o) /\ shipments[o] \in RowType
        /\ UNCHANGED << live, shipping, openPickup, locks, drawn, parcels, vans, unheard >>
    BY <1>1, <1>2, OwnerHolds
    DEF AssignAwb, Owning, BookSteps, courier, Booking, IInv, TypeOK, RowType
  <1>4. PICK r \in RowType :
           /\ r = [shipments[o] EXCEPT !.awb = n, !.waybill = n, !.status = "AWB_ASSIGNED"]
           /\ shipments' = [shipments EXCEPT ![o] = r]
    BY <1>1, <1>2, <1>3 DEF AssignAwb, RowType, Numbers
  <1>5. /\ r.status = "AWB_ASSIGNED" /\ r.waybill = n
        /\ r.awb = n /\ r.attempts = shipments[o].attempts
    BY <1>3, <1>4 DEF RowType
  <1>6. /\ shipments'[o] = r /\ shipments' \in [Orders -> RowType]
        /\ \A p \in Orders \ {o} : shipments'[p] = shipments[p]
    BY <1>4, RowTo DEF IInv
  <1>7. /\ job'[w].at = "note" /\ job'[w].order = o
        /\ \A v \in Workers \ {w} : job'[v] = job[v]
        /\ job' \in [Workers -> JobType]
    BY <1>1, GoMoves DEF AssignAwb, IInv, Steps, BookSteps
  <1>8. Booking(w)' /\ Filed(o)'
    BY <1>3, <1>5, <1>6, <1>7 DEF Booking, Filed
  <1>9. TypeOK'
    BY <1>3, <1>6, <1>7 DEF IInv, TypeOK, RowType, JobType, Steps
  <1> QED
    BY <1>1, <1>3, <1>5, <1>6, <1>7, <1>8, <1>9, GoStep DEF BookSteps

LEMMA NoteStep == ASSUME IInv, NEW w \in Workers, NoteAwb(w) PROVE IInv'
  <1>1. PICK o \in Orders : o = job[w].order
    BY OwnerHolds DEF NoteAwb, Owning, BookSteps
  <1>2. /\ job[w].at = "note" /\ job[w].at \in Owning
        /\ shipments[o].awb # 0 /\ Filed(o)
        /\ UNCHANGED << live, shipments, openPickup, locks, drawn, parcels, vans, unheard >>
    BY <1>1, OwnerHolds DEF NoteAwb, Owning, BookSteps, courier, Booking
  <1>3. /\ shipping' \in [Orders -> {"NOT_SHIPPED", "AWB_ASSIGNED", "IN_TRANSIT", "CANCELLED"}]
        /\ \A p \in Orders \ {o} : shipping'[p] = shipping[p]
    BY <1>1 DEF NoteAwb, IInv, TypeOK
  <1>4. /\ job'[w].at = "pickup" /\ job'[w].order = o
        /\ \A v \in Workers \ {w} : job'[v] = job[v]
        /\ job' \in [Workers -> JobType]
    BY <1>1, GoMoves DEF NoteAwb, IInv, Steps, PickupSteps
  <1>5. Booking(w)' /\ Filed(o)'
    BY <1>2, <1>4 DEF Booking, Filed
  <1>6. TypeOK'
    BY <1>2, <1>3, <1>4 DEF IInv, TypeOK, JobType, Steps
  <1> QED
    BY <1>1, <1>2, <1>3, <1>4, <1>5, <1>6, GoStep DEF PickupSteps

-----------------------------------------------------------------------------
(* The van.                                                                *)

LEMMA PickupStep ==
    ASSUME IInv, NEW w \in Workers, ClaimPickup(w) \/ AskVan(w) \/ ClosePickup(w)
    PROVE  IInv'
  <1>1. /\ UNCHANGED << live, shipments, shipping, drawn, parcels >>
        /\ openPickup' \in BOOLEAN /\ vans' \in 0 .. MaxVans /\ unheard' \in 0 .. vans'
    <2>1. vans \in 0 .. MaxVans /\ unheard \in 0 .. vans /\ openPickup \in BOOLEAN
      BY DEF IInv, TypeOK
    <2>2. CASE ClaimPickup(w) \/ ClosePickup(w)
      BY <2>1, <2>2 DEF ClaimPickup, ClosePickup, courier
    <2>3. CASE AskVan(w)
      <3>1. /\ vans < MaxVans
            /\ \/ vans' = vans /\ unheard' = unheard
               \/ vans' = vans + 1 /\ unheard' \in {unheard, unheard + 1}
        BY <2>3 DEF AskVan
      <3>2. vans' \in 0 .. MaxVans /\ unheard' \in 0 .. vans'
        BY <2>1, <3>1, BookingConstants
      <3> QED
        BY <2>1, <2>3, <3>2 DEF AskVan, rows
    <2> QED
      BY <2>2, <2>3
  <1>2. CASE Leave(w)
    <2>1. TypeOK'
      BY <1>1, <1>2, LeaveReleases DEF IInv, TypeOK, JobType, Steps
    <2> QED
      BY <1>1, <1>2, <2>1, LeaveStep
  <1>3. CASE ~Leave(w)
    <2>1. PICK at \in PickupSteps : Go(w, at) /\ UNCHANGED locks
      BY <1>3 DEF ClaimPickup, AskVan, ClosePickup, PickupSteps
    <2>2. /\ job'[w].at = at
          /\ \A v \in Workers \ {w} : job'[v] = job[v]
          /\ job' \in [Workers -> JobType]
      BY <2>1, GoMoves DEF IInv, Steps
    <2>3. TypeOK'
      BY <1>1, <2>1, <2>2 DEF IInv, TypeOK, JobType, Steps
    <2>4. (Owner(w) /\ Booking(w) /\ Recalling(w))'
      BY <2>2 DEF Owner, Booking, Recalling, Owning, BookSteps, PickupSteps, RecallSteps
    <2> QED
      BY <1>1, <2>1, <2>2, <2>3, <2>4, QuietStep
  <1> QED
    BY <1>2, <1>3

-----------------------------------------------------------------------------
(* The recall.                                                             *)

LEMMA ReadStep == ASSUME IInv, NEW w \in Workers, ReadShipment(w) PROVE IInv'
  <1>1. PICK o \in Orders : o = job[w].order
    BY DEF ReadShipment, IInv, Owner, RecallSteps
  <1>2. /\ UNCHANGED << live, shipments, shipping, openPickup, drawn, parcels, vans, unheard >>
        /\ Filed(o) /\ shipments[o].waybill \in 0 .. Limit
    BY <1>1 DEF ReadShipment, rows, courier, IInv, TypeOK
  <1>3. CASE Leave(w)
    <2>1. TypeOK'
      BY <1>2, <1>3, LeaveReleases DEF IInv, TypeOK, JobType, Steps
    <2> QED
      BY <1>2, <1>3, <2>1, LeaveStep
  <1>4. CASE ~Leave(w)
    <2>1. /\ Resume(w, "askCancel", shipments[o].waybill)
          /\ shipments[o].awb # 0 /\ UNCHANGED locks
      BY <1>1, <1>4 DEF ReadShipment, Resume
    <2>2. /\ job'[w].at = "askCancel" /\ job'[w].order = o
          /\ job'[w].waybill = shipments[o].waybill
          /\ \A v \in Workers \ {w} : job'[v] = job[v]
          /\ job' \in [Workers -> JobType]
      BY <1>1, <1>2, <2>1, ResumeMoves DEF IInv, Steps, RecallSteps
    <2>3. TypeOK'
      BY <1>2, <2>1, <2>2 DEF IInv, TypeOK, JobType, Steps
    <2>4. (Owner(w) /\ Booking(w) /\ Recalling(w))'
      BY <1>2, <2>1, <2>2 DEF Owner, Booking, Recalling, Owning, BookSteps, Filed
    <2> QED
      BY <1>2, <2>1, <2>2, <2>3, <2>4, QuietStep
  <1> QED
    BY <1>3, <1>4

LEMMA AskCancelStep == ASSUME IInv, NEW w \in Workers, AskCancel(w) PROVE IInv'
  <1>1. PICK o \in Orders : o = job[w].order
    BY DEF AskCancel, IInv, Owner, RecallSteps
  <1>2. PICK n \in Numbers : n = job[w].waybill
    BY DEF AskCancel, IInv, Recalling, TypeOK, Numbers
  <1>3. /\ n # 0 /\ n = shipments[o].waybill /\ Filed(o)
        /\ UNCHANGED << live, shipments, shipping, openPickup, drawn, vans, unheard >>
        /\ parcels \in [Orders -> [Numbers -> {"none", "manifested", "moving", "cancelled"}]]
    BY <1>1, <1>2 DEF AskCancel, rows, IInv, Recalling, TypeOK
  <1>4. CASE Leave(w) /\ UNCHANGED parcels
    <2>1. TypeOK'
      BY <1>3, <1>4, LeaveReleases DEF IInv, TypeOK, JobType, Steps
    <2> QED
      BY <1>3, <1>4, <2>1, LeaveStep
  <1>5. CASE /\ parcels[o][n] \in {"manifested", "cancelled"}
             /\ parcels' = [parcels EXCEPT ![o][n] = "cancelled"]
             /\ (Go(w, "recalled") /\ UNCHANGED locks) \/ Leave(w)
    <2>1. /\ parcels' \in [Orders -> [Numbers -> {"none", "manifested", "moving", "cancelled"}]]
          /\ \A p \in Orders \ {o} : parcels'[p] = parcels[p]
          /\ parcels'[o][n] = "cancelled"
          /\ \A m \in Numbers \ {n} : parcels'[o][m] = parcels[o][m]
      BY <1>3, <1>5
    <2>2. Filed(o)'
      <3>1. shipments[o].awb # 0 => shipments[o].awb = n
        BY <1>3 DEF Filed
      <3> QED
        BY <1>3, <2>1, <3>1 DEF Filed
    <2>3. /\ \A v \in Workers \ {w} : job'[v] = job[v]
          /\ \A v \in Workers \ {w}, p \in Orders : locks[p] = v => locks'[p] = v
          /\ job' \in [Workers -> JobType] /\ locks' \in [Orders -> Workers \cup {None}]
          /\ (Owner(w) /\ Booking(w) /\ Recalling(w))'
      <3>1. CASE Leave(w)
        BY <3>1, LeaveReleases DEF IInv
      <3>2. CASE Go(w, "recalled") /\ UNCHANGED locks
        <4>1. /\ job'[w].at = "recalled" /\ job'[w].order = o /\ job'[w].waybill = n
              /\ \A v \in Workers \ {w} : job'[v] = job[v]
              /\ job' \in [Workers -> JobType]
          BY <1>1, <1>2, <3>2, GoMoves DEF IInv, Steps, RecallSteps
        <4>2. (Owner(w) /\ Booking(w) /\ Recalling(w))'
          BY <1>3, <2>1, <4>1 DEF Owner, Booking, Recalling, Owning, BookSteps
        <4>3. locks' \in [Orders -> Workers \cup {None}]
          BY <3>2 DEF IInv, TypeOK
        <4>4. \A v \in Workers \ {w}, p \in Orders : locks[p] = v => locks'[p] = v
          BY <3>2
        <4> QED
          BY <4>1, <4>2, <4>3, <4>4
      <3> QED
        BY <1>5, <3>1, <3>2
    <2>4. TypeOK'
      BY <1>3, <2>1, <2>3 DEF IInv, TypeOK, JobType, Steps
    <2>5. \A m \in Numbers : /\ parcels[o][m] = "cancelled" => parcels'[o][m] = "cancelled"
                             /\ parcels[o][m] # "none" => parcels'[o][m] # "none"
      BY <2>1
    <2> QED
      BY <1>3, <2>1, <2>2, <2>3, <2>4, <2>5, RowStep
  <1> QED
    BY <1>1, <1>2, <1>4, <1>5 DEF AskCancel

LEMMA RecalledStep == ASSUME IInv, NEW w \in Workers, Recalled(w) PROVE IInv'
  <1>1. PICK o \in Orders : o = job[w].order
    BY DEF Recalled, IInv, Owner, RecallSteps
  <1>2. PICK n \in Numbers : n = job[w].waybill
    BY DEF Recalled, IInv, Recalling, TypeOK, Numbers
  <1>3. /\ n # 0 /\ n = shipments[o].waybill /\ Filed(o) /\ shipments[o] \in RowType
        /\ parcels[o][n] = "cancelled"
        /\ UNCHANGED << live, shipping, openPickup, locks, drawn, parcels, vans, unheard >>
    BY <1>1, <1>2 DEF Recalled, courier, IInv, Recalling, TypeOK, RowType
  <1>4. PICK r \in RowType : /\ r = [shipments[o] EXCEPT !.status = "CANCELLED"]
                             /\ shipments' = [shipments EXCEPT ![o] = r]
    BY <1>1, <1>3 DEF Recalled, RowType
  <1>5. /\ r.status = "CANCELLED" /\ r.waybill = n
        /\ r.awb = shipments[o].awb /\ r.attempts = shipments[o].attempts
    BY <1>3, <1>4 DEF RowType
  <1>6. /\ shipments'[o] = r /\ shipments' \in [Orders -> RowType]
        /\ \A p \in Orders \ {o} : shipments'[p] = shipments[p]
    BY <1>4, RowTo DEF IInv
  <1>7. /\ job'[w].at = "noteRecall" /\ job'[w].order = o /\ job'[w].waybill = n
        /\ \A v \in Workers \ {w} : job'[v] = job[v]
        /\ job' \in [Workers -> JobType]
    BY <1>1, <1>2, GoMoves DEF Recalled, IInv, Steps, RecallSteps
  <1>8. Filed(o)'
    BY <1>3, <1>5, <1>6 DEF Filed
  <1>9. (Owner(w) /\ Booking(w) /\ Recalling(w))'
    BY <1>3, <1>5, <1>6, <1>7 DEF Owner, Booking, Recalling, Owning, BookSteps
  <1>10. TypeOK'
    BY <1>3, <1>6, <1>7 DEF IInv, TypeOK, RowType, JobType, Steps
  <1> QED
    BY <1>3, <1>5, <1>6, <1>7, <1>8, <1>9, <1>10, RowStep

LEMMA NoteRecallStep == ASSUME IInv, NEW w \in Workers, NoteRecall(w) PROVE IInv'
  <1>1. PICK o \in Orders : o = job[w].order
    BY DEF NoteRecall, IInv, Owner, RecallSteps
  <1>2. PICK n \in Numbers : n = job[w].waybill
    BY DEF NoteRecall, IInv, Recalling, TypeOK, Numbers
  <1>3. /\ n # 0 /\ n = shipments[o].waybill /\ Filed(o)
        /\ parcels[o][n] = "cancelled" /\ Leave(w)
        /\ UNCHANGED << live, shipments, openPickup, drawn, parcels, vans, unheard >>
    BY <1>1, <1>2 DEF NoteRecall, courier, IInv, Recalling
  <1>4. /\ shipping' \in [Orders -> {"NOT_SHIPPED", "AWB_ASSIGNED", "IN_TRANSIT", "CANCELLED"}]
        /\ \A p \in Orders \ {o} : shipping'[p] = shipping[p]
    BY <1>1 DEF NoteRecall, IInv, TypeOK
  <1>5. Filed(o)'
    BY <1>3 DEF Filed
  <1>6. TypeOK'
    BY <1>3, <1>4, LeaveReleases DEF IInv, TypeOK, JobType, Steps
  <1>7. /\ \A v \in Workers \ {w} : job'[v] = job[v]
        /\ \A v \in Workers \ {w}, p \in Orders : locks[p] = v => locks'[p] = v
        /\ (Owner(w) /\ Booking(w) /\ Recalling(w))'
    BY <1>3, LeaveReleases DEF IInv
  <1> QED
    BY <1>3, <1>4, <1>5, <1>6, <1>7, RowStep

-----------------------------------------------------------------------------
(* The courier, the death of the process, and the whole.                   *)

LEMMA CollectStep == ASSUME IInv, NEW o \in Orders, Collect(o) PROVE IInv'
  <1>1. PICK n \in Numbers : /\ parcels[o][n] = "manifested"
                             /\ parcels' = [parcels EXCEPT ![o][n] = "moving"]
    BY DEF Collect
  <1>2. UNCHANGED << live, shipments, shipping, openPickup, locks, job, drawn, vans, unheard >> /\ Filed(o)
    BY DEF Collect, rows, IInv
  <1>3. /\ parcels' \in [Orders -> [Numbers -> {"none", "manifested", "moving", "cancelled"}]]
        /\ \A p \in Orders \ {o} : parcels'[p] = parcels[p]
        /\ \A m \in Numbers : /\ parcels[o][m] = "cancelled" => parcels'[o][m] = "cancelled"
                              /\ parcels[o][m] # "none" <=> parcels'[o][m] # "none"
    BY <1>1 DEF IInv, TypeOK
  <1>4. TypeOK'
    BY <1>2, <1>3 DEF IInv, TypeOK
  <1>5. Filed(o)'
    <2>1. /\ shipments[o].awb # 0 => shipments[o].awb \in Numbers
          /\ shipments[o].waybill # 0 => shipments[o].waybill \in Numbers
      BY DEF IInv, TypeOK, Numbers
    <2> QED
      BY <1>2, <1>3, <2>1 DEF Filed
  <1>6. None \notin Workers
    BY BookingConstants
  <1> QED
    BY <1>2, <1>3, <1>4, <1>5, <1>6, RowStep

LEMMA ScanStep == ASSUME IInv, NEW o \in Orders, Scanned(o) PROVE IInv'
  <1>1. PICK s \in RowType : s = shipments[o]
    BY DEF IInv, TypeOK, RowType
  <1>2. PICK status \in Reports(parcels[o][s.waybill]), awb \in {s.awb, s.waybill} :
          /\ shipments' = IF s.status = status THEN shipments
                          ELSE [shipments EXCEPT ![o] = [s EXCEPT !.status = status, !.awb = awb]]
          /\ shipping' = [shipping EXCEPT ![o] = status]
    BY <1>1 DEF Scanned
  <1>3. /\ s.waybill # 0 /\ s.waybill \in Numbers
        /\ UNCHANGED << live, openPickup, locks, job, drawn, parcels, vans, unheard >>
        /\ Filed(o)
    BY <1>1 DEF Scanned, courier, IInv, TypeOK, RowType, Numbers
  <1>4. /\ status \in {"AWB_ASSIGNED", "IN_TRANSIT", "CANCELLED"}
        /\ parcels[o][s.waybill] # "none"
        /\ status = "CANCELLED" => parcels[o][s.waybill] = "cancelled"
    BY <1>2 DEF Reports
  <1>5. PICK r \in RowType :
           /\ r.waybill = s.waybill /\ r.attempts = s.attempts
           /\ r.awb \in {s.awb, s.waybill} /\ r.status \in {s.status, status}
           /\ shipments' = [shipments EXCEPT ![o] = r]
    <2>1. CASE s.status = status
      <3>1. shipments' = [shipments EXCEPT ![o] = s]
        BY <1>1, <1>2, <2>1 DEF IInv, TypeOK
      <3> QED
        BY <3>1
    <2>2. CASE s.status # status
      <3>1. [s EXCEPT !.status = status, !.awb = awb] \in RowType
        BY <1>2, <1>3, <1>4 DEF RowType, Numbers
      <3>2. shipments' = [shipments EXCEPT ![o] = [s EXCEPT !.status = status, !.awb = awb]]
        BY <1>2, <2>2
      <3> QED
        BY <1>2, <3>1, <3>2 DEF RowType
    <2> QED
      BY <2>1, <2>2
  <1>6. /\ shipments'[o] = r /\ shipments' \in [Orders -> RowType]
        /\ \A p \in Orders \ {o} : shipments'[p] = shipments[p]
    BY <1>5, RowTo DEF IInv
  <1>7. /\ shipping' \in [Orders -> {"NOT_SHIPPED", "AWB_ASSIGNED", "IN_TRANSIT", "CANCELLED"}]
        /\ \A p \in Orders \ {o} : shipping'[p] = shipping[p]
    BY <1>2, <1>4 DEF IInv, TypeOK
  <1>8. Filed(o)'
    <2>1. parcels' = parcels /\ drawn' = drawn
      BY <1>3
    <2>2. r.awb # 0 => r.awb = r.waybill /\ parcels[o][r.awb] # "none"
      BY <1>1, <1>3, <1>4, <1>5 DEF Filed
    <2>3. r.status = "CANCELLED" => r.waybill # 0 /\ parcels[o][r.waybill] = "cancelled"
      BY <1>1, <1>3, <1>4, <1>5 DEF Filed
    <2> QED
      BY <1>1, <1>3, <1>4, <1>5, <1>6, <2>1, <2>2, <2>3 DEF Filed
  <1>9. TypeOK'
    BY <1>3, <1>6, <1>7 DEF IInv, TypeOK, RowType
  <1>10. None \notin Workers
    BY BookingConstants
  <1>11. shipments[o].awb # 0 => shipments'[o].awb # 0
    BY <1>1, <1>3, <1>5, <1>6
  <1> QED
    BY <1>1, <1>3, <1>5, <1>6, <1>7, <1>8, <1>9, <1>10, <1>11, RowStep

LEMMA CrashStep == ASSUME IInv, Crash PROVE IInv'
  <1> USE DEF Crash, rows, courier, NoJob
  <1>1. TypeOK'
    BY BookingConstants DEF IInv, TypeOK
  <1>2. \A w \in Workers : (Owner(w) /\ Booking(w) /\ Recalling(w))'
    BY DEF Owner, Booking, Recalling, Owning, BookSteps, RecallSteps
  <1>3. \A o \in Orders : Filed(o)'
    BY DEF IInv, Filed
  <1> QED
    BY <1>1, <1>2, <1>3 DEF IInv

LEMMA NextPreserves == IInv /\ [Next]_vars => IInv'
  <1> SUFFICES ASSUME IInv, [Next]_vars PROVE IInv'
    OBVIOUS
  <1>1. ASSUME NEW w \in Workers, NEW o \in Orders, Book(w, o) \/ CancelOrder(w, o) \/ Unbook(w, o)
        PROVE  IInv'
    <2>1. live' \subseteq Orders /\ UNCHANGED << shipments, shipping, openPickup, locks, courier >>
      BY <1>1 DEF Book, CancelOrder, Unbook, rows, IInv, TypeOK
    <2>2. CASE Book(w, o)
      BY <2>1, <2>2, StartStep DEF Book
    <2>3. CASE CancelOrder(w, o) \/ Unbook(w, o)
      BY <2>1, <2>3, StartStep DEF CancelOrder, Unbook
    <2> QED
      BY <1>1, <2>2, <2>3
  <1>2. ASSUME NEW w \in Workers, RequestPickup(w) PROVE IInv'
    BY <1>2, StartStep DEF RequestPickup, rows, IInv, TypeOK
  <1>3. ASSUME NEW w \in Workers,
               \/ TakeLock(w) \/ Claim(w) \/ CountAttempt(w) \/ Check(w) \/ Draw(w)
               \/ KeepWaybill(w) \/ Create(w) \/ AssignAwb(w) \/ NoteAwb(w)
        PROVE  IInv'
    BY <1>3, TakeLockStep, ClaimStep, CountStep, CheckStep, DrawStep, KeepStep, CreateStep,
       AssignStep, NoteStep
  <1>4. ASSUME NEW w \in Workers,
               \/ ClaimPickup(w) \/ AskVan(w) \/ ClosePickup(w)
               \/ ReadShipment(w) \/ AskCancel(w) \/ Recalled(w) \/ NoteRecall(w)
        PROVE  IInv'
    BY <1>4, PickupStep, ReadStep, AskCancelStep, RecalledStep, NoteRecallStep
  <1>5. ASSUME NEW o \in Orders, Collect(o) \/ Scanned(o) PROVE IInv'
    BY <1>5, CollectStep, ScanStep
  <1>6. CASE Crash
    BY <1>6, CrashStep
  <1>7. CASE UNCHANGED vars
    <2>1. TypeOK'
      BY <1>7 DEF vars, IInv, TypeOK
    <2> QED
      BY <1>7, <2>1 DEF vars, IInv, Owner, Booking, Recalling, Filed
  <1> QED
    BY <1>1, <1>2, <1>3, <1>4, <1>5, <1>6, <1>7 DEF Next

THEOREM Invariance == Spec => []IInv
  <1> QED
    BY InitEstablishes, NextPreserves, PTL DEF Spec

-----------------------------------------------------------------------------
\* The rows, the locks, the calls and the courier's books stay within their
\* bounds: no attempt is counted and no waybill drawn past the limit.
THEOREM TypeCorrect == Spec => []TypeOK
  <1>1. IInv => TypeOK
    BY DEF IInv
  <1> QED
    BY Invariance, <1>1, PTL

\* Whatever parcel the courier has of an order, its number is in the order's row.
THEOREM OnRecord == Spec => []ParcelIsOnRecord
  <1>1. IInv => ParcelIsOnRecord
    BY DEF IInv, Filed, ParcelIsOnRecord, AtCourier
  <1> QED
    BY Invariance, <1>1, PTL

\* The courier never has two parcels of one order, however often and by whomever
\* it is booked, and whichever answers are lost.
THEOREM OneParcel == Spec => []OneParcelPerOrder
  <1>1. ParcelIsOnRecord => OneParcelPerOrder
    <2>1. ASSUME ParcelIsOnRecord, NEW o \in Orders PROVE Cardinality(AtCourier(o)) <= 1
      <3>1. AtCourier(o) \subseteq {shipments[o].waybill}
        BY <2>1 DEF ParcelIsOnRecord
      <3>2. IsFiniteSet({shipments[o].waybill}) /\ Cardinality({shipments[o].waybill}) = 1
        BY FS_Singleton
      <3> QED
        BY <3>1, <3>2, FS_Subset
    <2> QED
      BY <2>1 DEF OneParcelPerOrder
  <1> QED
    BY OnRecord, <1>1, PTL

\* An AWB in the row, and a shipping status on the customer's screen, stand for a
\* parcel the courier has.
THEOREM AwbTrue == Spec => []AwbMeansParcel
  <1>1. IInv => AwbMeansParcel
    BY DEF IInv, TypeOK, Filed, AwbMeansParcel, AtCourier, Numbers
  <1> QED
    BY Invariance, <1>1, PTL

\* A row says CANCELLED only of a parcel the courier has cancelled.
THEOREM CancelledTrue == Spec => []CancelledIsCancelled
  <1>1. IInv => CancelledIsCancelled
    BY DEF IInv, Filed, CancelledIsCancelled
  <1> QED
    BY Invariance, <1>1, PTL

-----------------------------------------------------------------------------
(* The van of the day.                                                     *)

Asks(w) == job[w].at \in {"van", "closePickup"}

\* A call that goes where it asks for no van, while the day stays as it is.
LEMMA NobodyAsks ==
    ASSUME OneAsks, NEW w \in Workers, UNCHANGED << openPickup, vans, unheard >>,
           \A v \in Workers \ {w} : job'[v].at = job[v].at, ~Asks(w)'
    PROVE  OneAsks'
  BY DEF OneAsks, Asks

LEMMA OneAsksStep ==
    ASSUME TypeOK, OneAsks, [Next]_vars
    PROVE  OneAsks'
  <1>1. ASSUME NEW w \in Workers, NEW o \in Orders \cup {None}, NEW at \in {"lock", "pickup", "recall"},
               Start(w, o, at), UNCHANGED << openPickup, vans, unheard >>
        PROVE  OneAsks'
    <2>1. ~Asks(w)' /\ \A v \in Workers \ {w} : job'[v].at = job[v].at
      BY <1>1 DEF Start, NoJob, Asks, TypeOK
    <2> QED
      BY <1>1, <2>1, NobodyAsks
  <1>2. ASSUME NEW w \in Workers, Leave(w), UNCHANGED << openPickup, vans, unheard >> PROVE OneAsks'
    <2>1. ~Asks(w)' /\ \A v \in Workers \ {w} : job'[v].at = job[v].at
      BY <1>2, LeaveReleases DEF Asks
    <2> QED
      BY <1>2, <2>1, NobodyAsks
  <1>3. ASSUME NEW w \in Workers, NEW at \in BookSteps \cup RecallSteps \cup {"pickup"}, Go(w, at),
               UNCHANGED << openPickup, vans, unheard >>
        PROVE  OneAsks'
    <2>1. ~Asks(w)' /\ \A v \in Workers \ {w} : job'[v].at = job[v].at
      BY <1>3, GoMoves DEF Asks, Steps, BookSteps, RecallSteps, PickupSteps
    <2> QED
      BY <1>3, <2>1, NobodyAsks
  <1>4. ASSUME NEW w \in Workers, NEW at \in {"count", "keep", "askCancel"}, NEW n, Resume(w, at, n),
               UNCHANGED << openPickup, vans, unheard >>
        PROVE  OneAsks'
    <2>1. ~Asks(w)' /\ \A v \in Workers \ {w} : job'[v].at = job[v].at
      BY <1>4, JobShape DEF Asks, Resume, JobType
    <2> QED
      BY <1>4, <2>1, NobodyAsks
  <1>5. ASSUME NEW w \in Workers, NEW o \in Orders, Book(w, o) \/ CancelOrder(w, o) \/ Unbook(w, o)
        PROVE  OneAsks'
    BY <1>1, <1>5 DEF Book, CancelOrder, Unbook, rows, courier
  <1>6. ASSUME NEW w \in Workers, RequestPickup(w) PROVE OneAsks'
    BY <1>1, <1>6 DEF RequestPickup, rows, courier
  <1>7. ASSUME NEW w \in Workers, TakeLock(w) \/ Claim(w) PROVE OneAsks'
    BY <1>2, <1>3, <1>4, <1>7 DEF TakeLock, Claim, Resume, rows, courier, BookSteps
  <1>8. ASSUME NEW w \in Workers, CountAttempt(w) \/ KeepWaybill(w) \/ AssignAwb(w) \/ NoteAwb(w)
        PROVE  OneAsks'
    BY <1>3, <1>8 DEF CountAttempt, KeepWaybill, AssignAwb, NoteAwb, courier, BookSteps
  <1>9. ASSUME NEW w \in Workers, Check(w) \/ Draw(w) \/ Create(w) PROVE OneAsks'
    BY <1>2, <1>3, <1>4, <1>9 DEF Check, Draw, Create, FailBooking, Resume, courier, BookSteps
  <1>10. ASSUME NEW w \in Workers, ReadShipment(w) \/ AskCancel(w) PROVE OneAsks'
    BY <1>2, <1>3, <1>4, <1>10 DEF ReadShipment, AskCancel, Resume, rows, courier, RecallSteps
  <1>11. ASSUME NEW w \in Workers, Recalled(w) \/ NoteRecall(w) PROVE OneAsks'
    BY <1>2, <1>3, <1>11 DEF Recalled, NoteRecall, courier, RecallSteps
  <1>12. ASSUME NEW w \in Workers, ClaimPickup(w) PROVE OneAsks'
    <2>1. CASE openPickup
      BY <1>2, <1>12, <2>1 DEF ClaimPickup, courier
    <2>2. CASE ~openPickup
      <3>1. /\ vans <= unheard /\ UNCHANGED << vans, unheard >> /\ openPickup'
            /\ \A v \in Workers : ~Asks(v)
            /\ \A v \in Workers \ {w} : job'[v] = job[v]
        BY <1>12, <2>2, GoMoves DEF ClaimPickup, courier, OneAsks, Asks, Steps, PickupSteps
      <3> QED
        BY <3>1 DEF OneAsks, Asks, TypeOK
    <2> QED
      BY <2>1, <2>2
  <1>13. ASSUME NEW w \in Workers, AskVan(w) PROVE OneAsks'
    <2>1. /\ openPickup /\ openPickup' /\ vans <= unheard /\ vans \in Nat /\ unheard \in Nat
          /\ \A v \in Workers \ {w} : ~Asks(v)
      BY <1>13 DEF AskVan, rows, OneAsks, Asks, TypeOK
    <2>2. CASE vans' = vans + 1 /\ unheard' = unheard /\ Leave(w)
      BY <2>1, <2>2, LeaveReleases DEF OneAsks, Asks
    <2>3. CASE /\ \/ vans' = vans /\ unheard' = unheard
                  \/ vans' = vans + 1 /\ unheard' = unheard + 1
               /\ Go(w, "closePickup")
      BY <2>1, <2>3, GoMoves DEF OneAsks, Asks, Steps, PickupSteps
    <2>4. PICK booked \in BOOLEAN, told \in BOOLEAN :
            /\ told => booked
            /\ vans' = IF booked THEN vans + 1 ELSE vans
            /\ unheard' = IF booked /\ ~told THEN unheard + 1 ELSE unheard
            /\ IF told THEN Leave(w) ELSE Go(w, "closePickup") /\ UNCHANGED locks
      BY <1>13 DEF AskVan
    <2> QED
      BY <2>2, <2>3, <2>4
  <1>14. ASSUME NEW w \in Workers, ClosePickup(w) PROVE OneAsks'
    <2>1. /\ vans <= unheard /\ UNCHANGED << vans, unheard >>
          /\ vans \in Nat /\ unheard \in Nat
          /\ \A v \in Workers \ {w} : ~Asks(v)
      BY <1>14 DEF ClosePickup, courier, OneAsks, Asks, TypeOK
    <2> QED
      BY <1>14, <2>1, LeaveReleases DEF ClosePickup, OneAsks, Asks
  <1>15. CASE \E o \in Orders : Collect(o) \/ Scanned(o)
    <2>1. UNCHANGED << openPickup, job, vans, unheard >>
      BY <1>15 DEF Collect, Scanned, rows, courier
    <2> QED
      BY <2>1 DEF OneAsks
  <1>16. CASE Crash
    BY <1>16 DEF Crash, rows, courier, NoJob, OneAsks
  <1>17. CASE UNCHANGED vars
    BY <1>17 DEF vars, OneAsks
  <1> QED
    BY <1>5, <1>6, <1>7, <1>8, <1>9, <1>10, <1>11, <1>12, <1>13, <1>14, <1>15, <1>16, <1>17
    DEF Next

\* The vans of a day are one and those whose request timed out, however many
\* bookings and operators ask for one and wherever the process dies.
THEOREM OneVan == Spec => []OneVanPerDay
  <1>1. Init => OneAsks
    BY DEF Init, NoJob, OneAsks
  <1>2. TypeOK /\ OneAsks /\ [Next]_vars => OneAsks'
    BY OneAsksStep
  <1>3. OneAsks => OneVanPerDay
    BY DEF OneAsks, OneVanPerDay
  <1> QED
    BY <1>1, <1>2, <1>3, TypeCorrect, PTL DEF Spec
==============================================================================
