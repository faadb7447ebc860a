---------------------------- MODULE CatalogueProofs ----------------------------
(***************************************************************************)
(* Theorems about Catalogue for every first document, every set of         *)
(* products, types, orders and handlers, any number of edits, failures     *)
(* and restarts, any order in which the saves are executed and any         *)
(* stock a form may have been opened with, as long as the load at          *)
(* boot does not fail.                                                     *)
(*                                                                         *)
(* A handler is a list of steps still to be taken.  ControlInv says what   *)
(* such a list may hold and what its handler knows: it works on the shared *)
(* document, whatever it writes there it saves next, stock is moved under  *)
(* the lock, and a save under way has its handler waiting for it.  It is   *)
(* inductive by itself.  On it rest ShownInv, until a save is executed     *)
(* after a newer one: the last save under way, or else the row, is the     *)
(* shared document, unless a handler is about to save it; and StockInv,    *)
(* until a restart reads a row that such a save has left: every version    *)
(* of the document that may still be read leaves room, beside what the     *)
(* edits have granted, for the orders that stand.                          *)
(*                                                                         *)
(* The order of the file: sequences and the lists of the handlers, the     *)
(* invariant, one lemma for each step and request, the document and its    *)
(* saves, the two theorems that follow, and the stock.                     *)
(***************************************************************************)
EXTENDS Catalogue, SumProofs, FiniteSetTheorems, TLAPS

-----------------------------------------------------------------------------
(* Sequences, and the two indexes the handlers compute.                     *)

\* The least index is one of them.
LEMMA MinIsLeast ==
    ASSUME NEW B \in SUBSET Nat, B # {}
    PROVE  Min(B) \in B /\ \A n \in B : Min(B) <= n
  BY LeastNumber DEF Min

LEMMA MaxOfTwo ==
    ASSUME NEW i \in Nat, NEW n \in Nat, i <= n
    PROVE  Max({i, n}) = n
  BY DEF Max

\* findIndex: zero, or the place of an entry with the id.
LEMMA IndexFinds ==
    ASSUME NEW list \in Seq(Entries), NEW p
    PROVE  /\ Index(list, p) = 0 => \A i \in DOMAIN list : list[i].id # p
           /\ Index(list, p) # 0 => /\ Index(list, p) \in DOMAIN list
                                    /\ list[Index(list, p)].id = p
  <1> DEFINE at == {i \in DOMAIN list : list[i].id = p}
  <1>1. at \in SUBSET Nat /\ 0 \notin at
    OBVIOUS
  <1>2. at # {} => Min(at) \in at
    BY <1>1, MinIsLeast
  <1>3. Index(list, p) = IF at = {} THEN 0 ELSE Min(at)
    BY DEF Index
  <1> QED
    BY <1>1, <1>2, <1>3

\* What is left of a list after its first step, and with a step before it.
LEMMA TailOf ==
    ASSUME NEW S, NEW t \in Seq(S), t # <<>>
    PROVE  /\ Tail(t) \in Seq(S) /\ Head(t) = t[1] /\ Head(t) \in S
           /\ Len(t) \in Nat \ {0} /\ DOMAIN t = 1 .. Len(t)
           /\ DOMAIN Tail(t) = 1 .. Len(t) - 1
           /\ \A i \in 1 .. Len(t) - 1 : Tail(t)[i] = t[i + 1]
  OBVIOUS

LEMMA ConsOf ==
    ASSUME NEW S, NEW t \in Seq(S), NEW c \in S
    PROVE  /\ << c >> \o t \in Seq(S) /\ Len(t) \in Nat
           /\ DOMAIN t = 1 .. Len(t) /\ DOMAIN (<< c >> \o t) = 1 .. Len(t) + 1
           /\ (<< c >> \o t)[1] = c /\ Head(<< c >> \o t) = c /\ << c >> \o t # <<>>
           /\ Tail(<< c >> \o t) = t
           /\ \A i \in 1 .. Len(t) : (<< c >> \o t)[i + 1] = t[i]
  <1>1. << c >> \o t \in Seq(S) /\ Len(t) \in Nat /\ Len(<< c >> \o t) = Len(t) + 1
    OBVIOUS
  <1>2. (<< c >> \o t)[1] = c /\ \A i \in 1 .. Len(t) : (<< c >> \o t)[i + 1] = t[i]
    OBVIOUS
  <1>3. Tail(<< c >> \o t) \in Seq(S) /\ Len(Tail(<< c >> \o t)) = Len(t)
    BY <1>1
  <1>4. \A i \in 1 .. Len(t) : Tail(<< c >> \o t)[i] = t[i]
    BY <1>1, <1>2
  <1>5. Tail(<< c >> \o t) = t
    BY <1>3, <1>4
  <1> QED
    BY <1>1, <1>2, <1>5

LEMMA ConcatOf ==
    ASSUME NEW S, NEW a \in Seq(S), NEW b \in Seq(S)
    PROVE  /\ a \o b \in Seq(S) /\ Len(a) \in Nat /\ Len(b) \in Nat
           /\ DOMAIN a = 1 .. Len(a) /\ DOMAIN b = 1 .. Len(b)
           /\ Len(a \o b) = Len(a) + Len(b) /\ DOMAIN (a \o b) = 1 .. Len(a) + Len(b)
           /\ \A k \in 1 .. Len(a) + Len(b) :
                 (a \o b)[k] = IF k <= Len(a) THEN a[k] ELSE b[k - Len(a)]
  OBVIOUS

LEMMA RemoveAtOf ==
    ASSUME NEW S, NEW s \in Seq(S), NEW i \in DOMAIN s
    PROVE  /\ RemoveAt(s, i) \in Seq(S) /\ Len(s) \in Nat \ {0}
           /\ DOMAIN s = 1 .. Len(s)
           /\ Len(RemoveAt(s, i)) = Len(s) - 1
           /\ DOMAIN RemoveAt(s, i) = 1 .. Len(s) - 1
           /\ \A k \in 1 .. Len(s) - 1 :
                 RemoveAt(s, i)[k] = IF k < i THEN s[k] ELSE s[k + 1]
  <1> DEFINE a == SubSeq(s, 1, i - 1)
             b == SubSeq(s, i + 1, Len(s))
  <1>1. i \in 1 .. Len(s) /\ Len(s) \in Nat /\ DOMAIN s = 1 .. Len(s)
    OBVIOUS
  <1>2. a \in Seq(S) /\ Len(a) = i - 1 /\ \A k \in 1 .. i - 1 : a[k] = s[k]
    BY <1>1
  <1>3. b \in Seq(S) /\ Len(b) = Len(s) - i /\ \A k \in 1 .. Len(s) - i : b[k] = s[k + i]
    BY <1>1
  <1>4. RemoveAt(s, i) = a \o b
    BY DEF RemoveAt
  <1> HIDE DEF a, b
  <1>5. /\ a \o b \in Seq(S) /\ Len(a \o b) = Len(s) - 1
        /\ \A k \in 1 .. Len(s) - 1 :
              (a \o b)[k] = IF k <= Len(a) THEN a[k] ELSE b[k - Len(a)]
    <2>1. Len(a) + Len(b) = Len(s) - 1
      BY <1>1, <1>2, <1>3
    <2>2. /\ a \o b \in Seq(S) /\ Len(a \o b) = Len(a) + Len(b)
          /\ \A k \in 1 .. Len(a) + Len(b) :
                (a \o b)[k] = IF k <= Len(a) THEN a[k] ELSE b[k - Len(a)]
      BY <1>2, <1>3, ConcatOf
    <2> QED
      BY <2>1, <2>2, Zenon
  <1>6. ASSUME NEW k \in 1 .. Len(s) - 1
        PROVE  (a \o b)[k] = IF k < i THEN s[k] ELSE s[k + 1]
    <2>0. (a \o b)[k] = IF k <= Len(a) THEN a[k] ELSE b[k - Len(a)]
      BY <1>5
    <2>1. CASE k < i
      <3>1. k <= Len(a) /\ k \in 1 .. i - 1
        BY <2>1, <1>1, <1>2
      <3> QED
        BY <2>0, <2>1, <3>1, <1>2
    <2>2. CASE ~(k < i)
      <3>1. /\ k - (i - 1) \in 1 .. Len(s) - i /\ k - (i - 1) + i = k + 1
            /\ ~(k <= Len(a)) /\ k - Len(a) = k - (i - 1)
        BY <2>2, <1>1, <1>2
      <3>2. b[k - (i - 1)] = s[k + 1]
        BY <3>1, <1>3
      <3> QED
        BY <2>0, <2>2, <3>1, <3>2
    <2> QED
      BY <2>1, <2>2
  <1>7. Len(s) \in Nat \ {0} /\ DOMAIN (a \o b) = 1 .. Len(s) - 1
    <2>1. Len(s) \in Nat \ {0}
      BY <1>1
    <2>2. DOMAIN (a \o b) = 1 .. Len(a) + Len(b)
      BY <1>2, <1>3, ConcatOf
    <2>3. Len(a) + Len(b) = Len(s) - 1
      BY <1>1, <1>2, <1>3
    <2> QED
      BY <2>1, <2>2, <2>3
  <1>8. \A k \in 1 .. Len(s) - 1 : RemoveAt(s, i)[k] = IF k < i THEN s[k] ELSE s[k + 1]
    BY <1>4, <1>6, Zenon
  <1>9. RemoveAt(s, i) \in Seq(S) /\ Len(RemoveAt(s, i)) = Len(s) - 1
    BY <1>4, <1>5, Zenon
  <1>10. DOMAIN RemoveAt(s, i) = 1 .. Len(s) - 1
    BY <1>4, <1>7, Zenon
  <1> QED
    BY <1>1, <1>7, <1>8, <1>9, <1>10, Zenon

-----------------------------------------------------------------------------
(* The list of what a handler still has to do.                              *)

Ops == {"none", "boot", "checkout", "cancel", "content", "update", "create", "duplicate",
        "remove", "page", "addType", "rename", "removeType", "reassign"}
Steps == Waits \cup {"load", "save", "types", "name", "unused", "move", "find", "resolve",
                     "put", "push", "copy", "drop", "page", "take", "restock"}

\* The steps that write the document, those that need it loaded, those that need the
\* stock lock, and those that need the list of types.
Edits == {"put", "push", "drop", "page", "take", "restock"}
Uses == Edits \cup {"save", "count", "find", "copy", "unused", "pin", "move"}
Sale == {"take", "place", "claim", "restock"}
Reads == {"told", "name", "unused", "move", "resolve", "pin"}

\* The requests a step is part of.
Of(s) ==
    CASE s \in {"select", "loaded", "seed"} -> {"boot"}
      [] s \in {"take", "place"} -> {"checkout"}
      [] s \in {"claim", "restock"} -> {"cancel"}
      [] s \in {"find", "put"} -> {"update"}
      [] s = "resolve" -> {"update", "create"}
      [] s = "push" -> {"create", "duplicate"}
      [] s = "copy" -> {"duplicate"}
      [] s \in {"update", "pin"} -> {"rename"}
      [] s = "insert" -> {"addType"}
      [] s = "move" -> {"reassign"}
      [] s = "drop" -> {"remove"}
      [] OTHER -> Ops

\* Whatever is in B has something of A before it.
Before(t, A, B) ==
    \A i \in DOMAIN t : t[i] \in B => \E j \in 1 .. i - 1 : t[j] \in A
\* Whatever writes the document is followed by a save.
SavesEdits(t) ==
    \A i \in DOMAIN t : t[i] \in Edits => i + 1 \in DOMAIN t /\ t[i + 1] = "save"
Has(t, s) == \E i \in DOMAIN t : t[i] = s
Once(t, s) == \A i, k \in DOMAIN t : t[i] = s /\ t[k] = s => i = k

LEMMA BeforeHead ==
    ASSUME NEW t \in Seq(Steps), t # <<>>, NEW A, NEW B, Before(t, A, B)
    PROVE  Head(t) \notin B
  <1>1. 1 \in DOMAIN t /\ Head(t) = t[1] /\ 1 .. 1 - 1 = {}
    BY TailOf
  <1> QED
    BY <1>1 DEF Before

LEMMA BeforeTail ==
    ASSUME NEW t \in Seq(Steps), t # <<>>, NEW A, NEW B, Before(t, A, B), Head(t) \notin A
    PROVE  Before(Tail(t), A, B)
  <1> SUFFICES ASSUME NEW i \in DOMAIN Tail(t), Tail(t)[i] \in B
               PROVE  \E j \in 1 .. i - 1 : Tail(t)[j] \in A
    BY DEF Before
  <1>1. i \in 1 .. Len(t) - 1 /\ i + 1 \in DOMAIN t /\ t[i + 1] \in B /\ i \in Nat
    BY TailOf
  <1>2. PICK j \in 1 .. i : t[j] \in A
    BY <1>1 DEF Before
  <1>3. j # 1
    BY <1>2, TailOf
  <1>4. j - 1 \in 1 .. i - 1 /\ Tail(t)[j - 1] = t[j]
    BY <1>1, <1>3, TailOf
  <1> QED
    BY <1>2, <1>4

LEMMA BeforeCons ==
    ASSUME NEW t \in Seq(Steps), NEW c \in Steps, NEW A, NEW B, c \notin B,
           Before(t, A, B) \/ c \in A
    PROVE  Before(<< c >> \o t, A, B)
  <1> DEFINE u == << c >> \o t
  <1> SUFFICES ASSUME NEW i \in DOMAIN u, u[i] \in B
               PROVE  \E j \in 1 .. i - 1 : u[j] \in A
    BY DEF Before
  <1>0. /\ DOMAIN u = 1 .. Len(t) + 1 /\ Len(t) \in Nat /\ DOMAIN t = 1 .. Len(t)
        /\ u[1] = c /\ \A k \in 1 .. Len(t) : u[k + 1] = t[k]
    BY ConsOf
  <1> HIDE DEF u
  <1>1. i # 1 /\ i - 1 \in DOMAIN t /\ u[i] = t[i - 1] /\ i \in Nat
    BY <1>0
  <1>2. CASE c \in A
    <2>1. 1 \in 1 .. i - 1
      BY <1>0, <1>1
    <2> QED
      BY <2>1, <1>2, <1>0
  <1>3. CASE Before(t, A, B)
    <2>1. PICK j \in 1 .. (i - 1) - 1 : t[j] \in A
      BY <1>1, <1>3 DEF Before
    <2>2. j + 1 \in 1 .. i - 1 /\ u[j + 1] = t[j]
      BY <1>0, <1>1
    <2> QED
      BY <2>1, <2>2
  <1> QED
    BY <1>2, <1>3

LEMMA HasTail ==
    ASSUME NEW t \in Seq(Steps), t # <<>>
    PROVE  /\ \A s : Has(t, s) <=> Head(t) = s \/ Has(Tail(t), s)
           /\ SavesEdits(t) => SavesEdits(Tail(t))
           /\ SavesEdits(t) /\ Head(t) \in Edits => Tail(t) # <<>> /\ Head(Tail(t)) = "save"
  <1>0. /\ Tail(t) \in Seq(Steps) /\ Len(t) \in Nat \ {0} /\ DOMAIN t = 1 .. Len(t)
        /\ DOMAIN Tail(t) = 1 .. Len(t) - 1 /\ Head(t) = t[1]
        /\ \A i \in 1 .. Len(t) - 1 : Tail(t)[i] = t[i + 1]
    BY TailOf
  <1>1. ASSUME NEW s, Has(t, s) PROVE Head(t) = s \/ Has(Tail(t), s)
    <2>1. PICK i \in 1 .. Len(t) : t[i] = s
      BY <1>0, <1>1 DEF Has
    <2>2. CASE i # 1
      <3>1. i - 1 \in DOMAIN Tail(t) /\ Tail(t)[i - 1] = s
        BY <1>0, <2>1, <2>2
      <3> QED
        BY <3>1 DEF Has
    <2> QED
      BY <1>0, <2>1, <2>2
  <1>2. ASSUME NEW s, Head(t) = s \/ Has(Tail(t), s) PROVE Has(t, s)
    BY <1>0, <1>2 DEF Has
  <1>3. ASSUME SavesEdits(t), NEW i \in DOMAIN Tail(t), Tail(t)[i] \in Edits
        PROVE  i + 1 \in DOMAIN Tail(t) /\ Tail(t)[i + 1] = "save"
    <2>1. i + 1 \in DOMAIN t /\ t[i + 1] \in Edits
      BY <1>0, <1>3
    <2>2. i + 2 \in DOMAIN t /\ t[i + 2] = "save"
      BY <1>3, <2>1 DEF SavesEdits
    <2> QED
      BY <1>0, <2>2
  <1>4. ASSUME SavesEdits(t), Head(t) \in Edits
        PROVE  Tail(t) # <<>> /\ Head(Tail(t)) = "save"
    <2>1. 2 \in DOMAIN t /\ t[2] = "save"
      BY <1>0, <1>4 DEF SavesEdits
    <2>2. 1 \in DOMAIN Tail(t) /\ Tail(t)[1] = "save"
      BY <1>0, <2>1
    <2> QED
      BY <1>0, <2>2, TailOf
  <1> QED
    BY <1>1, <1>2, <1>3, <1>4 DEF SavesEdits

LEMMA HasCons ==
    ASSUME NEW t \in Seq(Steps), NEW c \in Steps
    PROVE  /\ \A s : Has(<< c >> \o t, s) <=> c = s \/ Has(t, s)
           /\ c \notin Edits /\ SavesEdits(t) => SavesEdits(<< c >> \o t)
  <1> DEFINE u == << c >> \o t
  <1>0. /\ u \in Seq(Steps) /\ u # <<>> /\ Head(u) = c /\ Tail(u) = t
        /\ DOMAIN u = 1 .. Len(t) + 1 /\ Len(t) \in Nat /\ DOMAIN t = 1 .. Len(t)
        /\ u[1] = c /\ \A k \in 1 .. Len(t) : u[k + 1] = t[k]
    BY ConsOf
  <1> HIDE DEF u
  <1>1. \A s : Has(u, s) <=> c = s \/ Has(t, s)
    BY <1>0, HasTail
  <1>2. ASSUME c \notin Edits, SavesEdits(t), NEW i \in DOMAIN u, u[i] \in Edits
        PROVE  i + 1 \in DOMAIN u /\ u[i + 1] = "save"
    <2>1. i # 1 /\ i - 1 \in DOMAIN t /\ u[i] = t[i - 1]
      BY <1>0, <1>2
    <2>2. i \in DOMAIN t /\ t[i] = "save"
      BY <1>0, <1>2, <2>1 DEF SavesEdits
    <2> QED
      BY <1>0, <2>2
  <1> QED
    BY <1>1, <1>2 DEF SavesEdits, u

\* A step that is taken once does not come again.
LEMMA OnceTail ==
    ASSUME NEW t \in Seq(Steps), t # <<>>, NEW s, Once(t, s)
    PROVE  Once(Tail(t), s) /\ (Head(t) = s => ~Has(Tail(t), s))
  <1>0. /\ Len(t) \in Nat \ {0} /\ DOMAIN t = 1 .. Len(t)
        /\ DOMAIN Tail(t) = 1 .. Len(t) - 1 /\ Head(t) = t[1]
        /\ \A i \in 1 .. Len(t) - 1 : Tail(t)[i] = t[i + 1]
    BY TailOf
  <1>1. ASSUME NEW i \in DOMAIN Tail(t), NEW k \in DOMAIN Tail(t), Tail(t)[i] = s, Tail(t)[k] = s
        PROVE  i = k
    <2>1. i + 1 \in DOMAIN t /\ k + 1 \in DOMAIN t /\ t[i + 1] = s /\ t[k + 1] = s
      BY <1>0, <1>1
    <2>2. i + 1 = k + 1
      BY <2>1 DEF Once
    <2> QED
      BY <1>0, <2>2
  <1>2. ASSUME Head(t) = s, NEW i \in DOMAIN Tail(t), Tail(t)[i] = s
        PROVE  FALSE
    <2>1. i + 1 \in DOMAIN t /\ t[i + 1] = s /\ 1 \in DOMAIN t /\ t[1] = s /\ i + 1 # 1
      BY <1>0, <1>2
    <2> QED
      BY <2>1 DEF Once
  <1> QED
    BY <1>1, <1>2 DEF Once, Has

LEMMA OnceCons ==
    ASSUME NEW t \in Seq(Steps), NEW c \in Steps, NEW s, c # s, Once(t, s)
    PROVE  Once(<< c >> \o t, s)
  <1> DEFINE u == << c >> \o t
  <1>0. /\ DOMAIN u = 1 .. Len(t) + 1 /\ Len(t) \in Nat /\ DOMAIN t = 1 .. Len(t)
        /\ u[1] = c /\ \A k \in 1 .. Len(t) : u[k + 1] = t[k]
    BY ConsOf
  <1> HIDE DEF u
  <1>1. ASSUME NEW i \in DOMAIN u, NEW k \in DOMAIN u, u[i] = s, u[k] = s
        PROVE  i = k
    <2>1. i # 1 /\ k # 1
      BY <1>0, <1>1
    <2>2. /\ i - 1 \in DOMAIN t /\ t[i - 1] = s /\ k - 1 \in DOMAIN t /\ t[k - 1] = s
          /\ i \in Nat /\ k \in Nat
      BY <1>0, <1>1, <2>1
    <2>3. i - 1 = k - 1
      BY <2>2 DEF Once
    <2> QED
      BY <2>2, <2>3
  <1> QED
    BY <1>1 DEF Once, u

-----------------------------------------------------------------------------
(* What every handler's list and fields satisfy.                            *)

Jobs == [op : Ops, todo : Seq(Steps), on : Workers \cup {None}, product : Products \cup {None},
         idx : Nat, entry : Entries \cup {None}, type : Types \cup {None},
         to : Products \cup Types \cup Names \cup {None}, order : Orders \cup {None},
         list : Table \cup {None}, read : Documents \cup {None}]

\* What a request is asked for.
Asked(j) ==
    /\ j.op \in {"checkout", "cancel"} => j.order \in Orders
    /\ j.op = "duplicate" => j.to \in Fresh
    /\ j.op \in {"rename", "addType"} => j.type \in Types /\ j.to \in Names
    /\ j.op = "reassign" => j.type \in Types /\ j.to \in Types
    /\ j.op = "removeType" => j.type \in Types

\* The order of the steps of j, when c is the worker whose document is the shared one,
\* and its handler holds the stock lock or not.
Shape(j) ==
    /\ SavesEdits(j.todo)
    /\ \A s \in Steps : Has(j.todo, s) => j.op \in Of(s)
    /\ Once(j.todo, "find") /\ (Has(j.todo, "find") => ~Has(j.todo, "resolve"))
Serves(j, c) ==
    /\ j.on \in {None, c}
    /\ j.on = None => Before(j.todo, {"load"}, Uses)
Locks(j, held) ==
    held \/ /\ Before(j.todo, {"lock"}, Sale)
            /\ Before(j.todo, {"take"}, {"place"})
            /\ Before(j.todo, {"claim"}, {"restock"})
Knows(j) ==
    /\ j.list \in Table \/ Before(j.todo, {"types", "ask"}, Reads)
    /\ Has(j.todo, "resolve") => j.entry \in Entries /\ j.entry.type \in Types
    /\ j.entry \in Entries \/ Before(j.todo, {"find"}, {"put"})
    /\ (j.entry \in Entries /\ j.entry.id \in Fresh) \/ Before(j.todo, {"copy"}, {"push"})
Ctl(j, c, held) == Asked(j) /\ Shape(j) /\ Serves(j, c) /\ Locks(j, held) /\ Knows(j)

\* What a handler keeps from one step to the next.
SameRequest(j, k) ==
    /\ k.op = j.op /\ k.product = j.product /\ k.type = j.type /\ k.to = j.to
    /\ k.order = j.order

\* The product it works on: the copy may have got the name of its type.
SameProduct(j, k) ==
    k.entry = j.entry \/ /\ j.entry \in Entries /\ k.entry \in Entries
                         /\ k.entry.id = j.entry.id /\ k.entry.stock = j.entry.stock
                         /\ k.entry.type = j.entry.type

LEMMA IdleJob ==
    /\ Idle \in Jobs /\ Idle.op = "none" /\ Idle.todo = <<>> /\ Idle.on = None
    /\ Idle.order = None /\ Idle.entry = None /\ Idle.list = None /\ Idle.idx = 0
    /\ Idle.product = None /\ Idle.type = None /\ Idle.to = None /\ Idle.read = None
  BY DEF Idle, Jobs, Ops

LEMMA NoSteps ==
    /\ SavesEdits(<<>>) /\ \A s : ~Has(<<>>, s) /\ Once(<<>>, s)
    /\ \A A, B : Before(<<>>, A, B)
  BY DEF SavesEdits, Has, Once, Before

LEMMA IdleCtl == ASSUME NEW c, NEW held PROVE Ctl(Idle, c, held)
  BY IdleJob, NoSteps DEF Ctl, Asked, Shape, Serves, Locks, Knows

\* Whatever comes first has its request, its document, the lock and the types it needs.
LEMMA HeadOf ==
    ASSUME NEW j \in Jobs, NEW c, NEW held, Ctl(j, c, held), j.todo # <<>>
    PROVE  /\ Head(j.todo) \in Steps /\ j.op \in Of(Head(j.todo))
           /\ Head(j.todo) \in Uses => j.on = c /\ c # None
           /\ Head(j.todo) \in Sale => held
           /\ Head(j.todo) \in Reads => j.list \in Table
           /\ Head(j.todo) = "resolve" => j.entry \in Entries /\ j.entry.type \in Types
           /\ Head(j.todo) = "put" => j.entry \in Entries
           /\ Head(j.todo) = "push" => j.entry \in Entries /\ j.entry.id \in Fresh
           /\ Head(j.todo) \in Edits => Tail(j.todo) # <<>> /\ Head(Tail(j.todo)) = "save"
           /\ Head(j.todo) = "find" => ~Has(j.todo, "resolve") /\ ~Has(Tail(j.todo), "find")
  <1>1. j.todo \in Seq(Steps)
    BY DEF Jobs
  <1>2. Head(j.todo) \in Steps /\ \A s : Head(j.todo) = s => Has(j.todo, s)
    BY <1>1, TailOf, HasTail
  <1>3. j.op \in Of(Head(j.todo))
    BY <1>2 DEF Ctl, Shape
  <1>4. \A A, B : Before(j.todo, A, B) => Head(j.todo) \notin B
    BY <1>1, BeforeHead
  <1>5. Head(j.todo) \in Edits => Tail(j.todo) # <<>> /\ Head(Tail(j.todo)) = "save"
    BY <1>1, HasTail DEF Ctl, Shape
  <1>6. Head(j.todo) = "find" => ~Has(j.todo, "resolve") /\ ~Has(Tail(j.todo), "find")
    BY <1>1, <1>2, OnceTail DEF Ctl, Shape
  <1>7. Head(j.todo) \in Uses => j.on = c /\ c # None
    BY <1>4 DEF Ctl, Serves
  <1>8. Head(j.todo) \in Sale => held
    BY <1>4 DEF Ctl, Locks
  <1> QED
    BY <1>2, <1>3, <1>4, <1>5, <1>6, <1>7, <1>8 DEF Ctl, Knows

\* The handler goes on with the rest of its list.
LEMMA RestShape ==
    ASSUME NEW j \in Jobs, NEW k \in Jobs, Shape(j), j.todo # <<>>,
           k.todo = Tail(j.todo), k.op = j.op
    PROVE  Shape(k)
  <1>1. j.todo \in Seq(Steps)
    BY DEF Jobs
  <1> QED
    BY <1>1, HasTail, OnceTail DEF Shape

LEMMA RestServes ==
    ASSUME NEW j \in Jobs, NEW k \in Jobs, NEW c, Serves(j, c), j.todo # <<>>,
           k.todo = Tail(j.todo),
           (k.on = j.on /\ Head(j.todo) # "load") \/ (k.on = c /\ c # None)
    PROVE  Serves(k, c)
  <1>1. j.todo \in Seq(Steps)
    BY DEF Jobs
  <1> QED
    BY <1>1, BeforeTail DEF Serves

LEMMA RestLocks ==
    ASSUME NEW j \in Jobs, NEW k \in Jobs, NEW held, NEW holds, Locks(j, held), j.todo # <<>>,
           k.todo = Tail(j.todo), held => holds,
           Head(j.todo) \in Sale => held, Head(j.todo) = "lock" => holds
    PROVE  Locks(k, holds)
  <1>1. j.todo \in Seq(Steps)
    BY DEF Jobs
  <1>2. CASE holds
    BY <1>2 DEF Locks
  <1>3. CASE ~holds
    <2>1. Head(j.todo) \notin {"lock"} /\ Head(j.todo) \notin {"take"} /\ Head(j.todo) \notin {"claim"}
      BY <1>3 DEF Sale
    <2>2. /\ Before(j.todo, {"lock"}, Sale) /\ Before(j.todo, {"take"}, {"place"})
          /\ Before(j.todo, {"claim"}, {"restock"})
      BY <1>3 DEF Locks
    <2>3. Before(Tail(j.todo), {"lock"}, Sale)
      BY <1>1, <2>1, <2>2, BeforeTail
    <2>4. Before(Tail(j.todo), {"take"}, {"place"})
      BY <1>1, <2>1, <2>2, BeforeTail
    <2>5. Before(Tail(j.todo), {"claim"}, {"restock"})
      BY <1>1, <2>1, <2>2, BeforeTail
    <2> QED
      BY <2>3, <2>4, <2>5 DEF Locks
  <1> QED
    BY <1>2, <1>3

LEMMA RestKnows ==
    ASSUME NEW j \in Jobs, NEW k \in Jobs, Knows(j), j.todo # <<>>, k.todo = Tail(j.todo),
           (k.list = j.list /\ Head(j.todo) \notin {"types", "ask"}) \/ k.list \in Table,
           Head(j.todo) \notin {"copy", "find"}, SameProduct(j, k)
    PROVE  Knows(k)
  <1>1. j.todo \in Seq(Steps)
    BY DEF Jobs
  <1>2. k.list \in Table \/ Before(k.todo, {"types", "ask"}, Reads)
    BY <1>1, BeforeTail DEF Knows
  <1>3. Has(k.todo, "resolve") => k.entry \in Entries /\ k.entry.type \in Types
    BY <1>1, HasTail DEF Knows, SameProduct
  <1>4. k.entry \in Entries \/ Before(k.todo, {"find"}, {"put"})
    <2>1. Head(j.todo) \notin {"find"}
      OBVIOUS
    <2> QED
      BY <1>1, <2>1, BeforeTail DEF Knows, SameProduct
  <1>5. (k.entry \in Entries /\ k.entry.id \in Fresh) \/ Before(k.todo, {"copy"}, {"push"})
    <2>1. Head(j.todo) \notin {"copy"}
      OBVIOUS
    <2> QED
      BY <1>1, <2>1, BeforeTail DEF Knows, SameProduct
  <1> QED
    BY <1>2, <1>3, <1>4, <1>5 DEF Knows

LEMMA RestCtl ==
    ASSUME NEW j \in Jobs, NEW k \in Jobs, NEW c, NEW held, NEW holds, Ctl(j, c, held),
           j.todo # <<>>, k.todo = Tail(j.todo), SameRequest(j, k),
           (k.on = j.on /\ Head(j.todo) # "load") \/ (k.on = c /\ c # None),
           held => holds, Head(j.todo) = "lock" => holds,
           (k.list = j.list /\ Head(j.todo) \notin {"types", "ask"}) \/ k.list \in Table,
           Head(j.todo) \notin {"copy", "find"}, SameProduct(j, k)
    PROVE  Ctl(k, c, holds)
  <1>1. Asked(k)
    BY DEF Ctl, Asked, SameRequest
  <1>2. Shape(k)
    BY RestShape DEF Ctl, SameRequest
  <1>3. Serves(k, c)
    BY RestServes DEF Ctl
  <1>4. Head(j.todo) \in Sale => held
    BY HeadOf
  <1>5. Locks(k, holds)
    BY <1>4, RestLocks DEF Ctl
  <1>6. Knows(k)
    BY RestKnows DEF Ctl
  <1> QED
    BY <1>1, <1>2, <1>3, <1>5, <1>6 DEF Ctl

\* A step that is put before the rest: it needs nothing, or the document it has.
Plain == {"saved", "count", "save", "told", "ask", "types", "forget", "load"}

LEMMA MoreCtl ==
    ASSUME NEW j \in Jobs, NEW k \in Jobs, NEW c, NEW held, Ctl(j, c, held),
           NEW s \in Plain, k.todo = << s >> \o j.todo, SameRequest(j, k),
           k.on = j.on, k.entry = j.entry, k.list = j.list \/ s \in {"types", "ask"},
           s \in Uses => j.on # None, s = "told" => j.list \in Table
    PROVE  Ctl(k, c, held)
  <1>0. j.todo \in Seq(Steps) /\ s \in Steps
    BY DEF Jobs, Plain, Steps, Waits
  <1>1. Asked(k)
    BY DEF Ctl, Asked, SameRequest
  <1>2. Shape(k)
    <2>1. s \notin Edits /\ s # "find" /\ s # "resolve" /\ Of(s) = Ops
      BY DEF Plain, Edits, Of
    <2>2. SavesEdits(k.todo) /\ \A r : Has(k.todo, r) <=> s = r \/ Has(j.todo, r)
      BY <1>0, <2>1, HasCons DEF Ctl, Shape
    <2>3. Once(k.todo, "find")
      BY <1>0, <2>1, OnceCons DEF Ctl, Shape
    <2>4. k.op \in Ops /\ k.op = j.op
      BY DEF Jobs, SameRequest
    <2>5. \A r \in Steps : Has(k.todo, r) => k.op \in Of(r)
      BY <2>1, <2>2, <2>4 DEF Ctl, Shape
    <2> QED
      BY <2>1, <2>2, <2>3, <2>5 DEF Ctl, Shape
  <1>3. Serves(k, c)
    BY <1>0, BeforeCons DEF Ctl, Serves
  <1>4. Locks(k, held)
    <2>1. s \notin Sale /\ s \notin {"place"} /\ s \notin {"restock"}
      BY DEF Plain, Sale
    <2>2. Before(j.todo, {"lock"}, Sale) => Before(k.todo, {"lock"}, Sale)
      BY <1>0, <2>1, BeforeCons
    <2>3. Before(j.todo, {"take"}, {"place"}) => Before(k.todo, {"take"}, {"place"})
      BY <1>0, <2>1, BeforeCons
    <2>4. Before(j.todo, {"claim"}, {"restock"}) => Before(k.todo, {"claim"}, {"restock"})
      BY <1>0, <2>1, BeforeCons
    <2> QED
      BY <2>2, <2>3, <2>4 DEF Ctl, Locks
  <1>5. Knows(k)
    <2>1. s \notin {"put"} /\ s \notin {"push"} /\ s # "resolve"
      BY DEF Plain
    <2>2. k.list \in Table \/ Before(k.todo, {"types", "ask"}, Reads)
      <3>1. CASE s = "told"
        BY <3>1
      <3>3. CASE s \in {"types", "ask"}
        <4>1. s \notin Reads
          BY <3>3 DEF Reads
        <4> QED
          BY <1>0, <3>3, <4>1, BeforeCons
      <3>2. CASE s \notin {"told", "types", "ask"}
        <4>1. s \notin Reads
          BY <3>2 DEF Plain, Reads
        <4> QED
          BY <1>0, <4>1, BeforeCons DEF Ctl, Knows
      <3> QED
        BY <3>1, <3>2, <3>3
    <2>3. Has(k.todo, "resolve") => Has(j.todo, "resolve")
      BY <1>0, <2>1, HasCons
    <2>4. Before(j.todo, {"find"}, {"put"}) => Before(k.todo, {"find"}, {"put"})
      BY <1>0, <2>1, BeforeCons
    <2>5. Before(j.todo, {"copy"}, {"push"}) => Before(k.todo, {"copy"}, {"push"})
      BY <1>0, <2>1, BeforeCons
    <2> QED
      BY <2>2, <2>3, <2>4, <2>5 DEF Ctl, Knows
  <1> QED
    BY <1>1, <1>2, <1>3, <1>4, <1>5 DEF Ctl

LEMMA NoneBefore ==
    ASSUME NEW t, NEW A, NEW B, \A s \in B : ~Has(t, s)
    PROVE  Before(t, A, B)
  BY DEF Before, Has

LEMMA AskCtl ==
    ASSUME NEW j \in Jobs, NEW k \in Jobs, NEW c, NEW held, Ctl(j, c, held), j.todo # <<>>,
           Head(j.todo) = "types", SameRequest(j, k), k.on = j.on, k.entry = j.entry,
           k.todo = << "ask" >> \o (<< "told" >> \o Tail(j.todo))
    PROVE  Ctl(k, c, held)
  <1> DEFINE a == [j EXCEPT !.todo = Tail(j.todo), !.list = FirstTypes]
             b == [j EXCEPT !.todo = << "told" >> \o Tail(j.todo), !.list = FirstTypes]
  <1>0. /\ Tail(j.todo) \in Seq(Steps) /\ << "told" >> \o Tail(j.todo) \in Seq(Steps)
        /\ FirstTypes \in Table
    <2>1. j.todo \in Seq(Steps) /\ "told" \in Steps
      BY DEF Jobs, Steps, Waits
    <2>2. Tail(j.todo) \in Seq(Steps)
      BY <2>1, TailOf
    <2> QED
      BY <2>1, <2>2, ConsOf, CatalogueConstants
  <1>1. /\ a \in Jobs /\ a.todo = Tail(j.todo) /\ a.list \in Table /\ a.entry = j.entry
        /\ a.on = j.on /\ SameRequest(j, a)
    <2>1. a \in Jobs
      BY <1>0 DEF Jobs
    <2> QED
      BY <1>0, <2>1 DEF Jobs, SameRequest
  <1>2. /\ b \in Jobs /\ b.todo = << "told" >> \o a.todo /\ b.list = a.list
        /\ b.entry = a.entry /\ b.on = a.on /\ SameRequest(a, b)
    <2>1. b \in Jobs
      BY <1>0 DEF Jobs
    <2>2. /\ b.todo = << "told" >> \o Tail(j.todo) /\ b.list = FirstTypes /\ a.list = FirstTypes
          /\ b.entry = j.entry /\ b.on = j.on /\ SameRequest(j, b)
      BY DEF Jobs, SameRequest
    <2> HIDE DEF a, b
    <2> QED
      BY <1>1, <2>1, <2>2 DEF SameRequest
  <1> HIDE DEF a, b
  <1>3. Ctl(a, c, held)
    BY <1>1, RestCtl DEF SameProduct
  <1>4. Ctl(b, c, held)
    <2>1. "told" \in Plain /\ "told" \notin Uses
      BY DEF Plain, Uses, Edits
    <2> QED
      BY <1>1, <1>2, <1>3, <2>1, MoreCtl
  <1>5. "ask" \in Plain /\ "ask" \notin Uses
    BY DEF Plain, Uses, Edits
  <1>6. k.todo = << "ask" >> \o b.todo /\ SameRequest(b, k) /\ k.on = b.on /\ k.entry = b.entry
    BY <1>1, <1>2 DEF SameRequest
  <1> QED
    BY <1>2, <1>4, <1>5, <1>6, MoreCtl

\* The copy of a product is taken: its type is looked up next, if it has one.
LEMMA FindCtl ==
    ASSUME NEW j \in Jobs, NEW k \in Jobs, NEW c, NEW held, Ctl(j, c, held), j.todo # <<>>,
           Head(j.todo) = "find", SameRequest(j, k), k.on = j.on, k.list = j.list,
           k.entry \in Entries,
           \/ k.todo = Tail(j.todo)
           \/ k.entry.type # None /\ k.todo = << "types" >> \o (<< "resolve" >> \o Tail(j.todo))
    PROVE  Ctl(k, c, held)
  <1> DEFINE t == Tail(j.todo)
             u == << "resolve" >> \o t
             v == << "types" >> \o u
  <1>0. /\ t \in Seq(Steps) /\ "resolve" \in Steps /\ "types" \in Steps
        /\ \A s : Has(t, s) => Has(j.todo, s)
        /\ j.todo \in Seq(Steps) /\ u \in Seq(Steps) /\ v \in Seq(Steps)
    <2>1. j.todo \in Seq(Steps) /\ "resolve" \in Steps /\ "types" \in Steps
      BY DEF Jobs, Steps
    <2>2. t \in Seq(Steps) /\ \A s : Has(t, s) => Has(j.todo, s)
      BY <2>1, TailOf, HasTail
    <2>3. u \in Seq(Steps)
      BY <2>1, <2>2, ConsOf
    <2> QED
      BY <2>1, <2>2, <2>3, ConsOf
  <1>1. j.op = "update" /\ ~Has(t, "find") /\ ~Has(t, "resolve") /\ Of("find") = {"update"}
    BY <1>0, HeadOf DEF Of
  <1>2. ~Has(t, "push")
    <2>1. Of("push") = {"create", "duplicate"} /\ "push" \in Steps
      BY DEF Of, Steps
    <2> QED
      BY <1>0, <1>1, <2>1 DEF Ctl, Shape
  <1>3. /\ SavesEdits(t) /\ Once(t, "find") /\ \A s \in Steps : Has(t, s) => j.op \in Of(s)
    BY <1>0, HasTail, OnceTail DEF Ctl, Shape
  <1>4. j.on # None
    BY HeadOf DEF Uses
  <1>5. held \/ /\ Before(t, {"lock"}, Sale) /\ Before(t, {"take"}, {"place"})
                /\ Before(t, {"claim"}, {"restock"})
    <2>1. Head(j.todo) \notin {"lock"} /\ Head(j.todo) \notin {"take"} /\ Head(j.todo) \notin {"claim"}
      OBVIOUS
    <2> QED
      BY <1>0, <2>1, BeforeTail DEF Ctl, Locks
  <1>6. j.list \in Table \/ Before(t, {"types", "ask"}, Reads)
    <2>1. Head(j.todo) \notin {"types", "ask"}
      OBVIOUS
    <2> QED
      BY <1>0, <2>1, BeforeTail DEF Ctl, Knows
  <1>7. Asked(k) /\ k.on = j.on /\ Serves(k, c)
    BY <1>4 DEF Ctl, Asked, SameRequest, Serves
  <1> HIDE DEF t, u, v
  <1>8. CASE k.todo = t
    <2>1. Before(t, {"copy"}, {"push"})
      BY <1>2, NoneBefore
    <2> QED
      BY <1>1, <1>3, <1>5, <1>6, <1>7, <1>8, <2>1
         DEF Ctl, Shape, Locks, Knows, SameRequest
  <1>9. CASE k.entry.type # None /\ k.todo = v
    <2>1. /\ \A s : Has(u, s) <=> s = "resolve" \/ Has(t, s)
          /\ \A s : Has(v, s) <=> s = "types" \/ Has(u, s)
      BY <1>0, HasCons DEF u, v
    <2>2. SavesEdits(v)
      <3>1. SavesEdits(u)
        BY <1>0, <1>3, HasCons DEF u, Edits
      <3> QED
        BY <1>0, <3>1, HasCons DEF v, Edits
    <2>3. \A s \in Steps : Has(v, s) => j.op \in Of(s)
      <3>1. "update" \in Of("resolve") /\ "update" \in Of("types")
        BY DEF Of, Ops
      <3> QED
        BY <1>1, <1>3, <2>1, <3>1
    <2>4. Once(v, "find") /\ ~Has(v, "find") /\ ~Has(v, "push")
      BY <1>1, <1>2, <2>1 DEF Once, Has
    <2>5. \A A, B : Before(t, A, B) /\ "resolve" \notin B /\ "types" \notin B => Before(v, A, B)
      <3>1. \A A, B : Before(t, A, B) /\ "resolve" \notin B => Before(u, A, B)
        BY <1>0, BeforeCons DEF u
      <3> QED
        BY <1>0, <3>1, BeforeCons DEF v
    <2>6. Locks(k, held)
      BY <1>5, <1>9, <2>5 DEF Locks, Sale
    <2>7. Before(v, {"types", "ask"}, Reads)
      BY <1>0, BeforeCons DEF v, Reads
    <2>8. k.entry.type \in Types
      BY <1>9 DEF Entries
    <2>9. Before(v, {"copy"}, {"push"})
      BY <2>4, NoneBefore
    <2> QED
      BY <1>7, <1>9, <2>2, <2>3, <2>4, <2>6, <2>7, <2>8, <2>9
         DEF Ctl, Shape, Knows, SameRequest
  <1> QED
    BY <1>8, <1>9 DEF t, u, v

LEMMA CopyCtl ==
    ASSUME NEW j \in Jobs, NEW k \in Jobs, NEW c, NEW held, Ctl(j, c, held), j.todo # <<>>,
           Head(j.todo) = "copy", SameRequest(j, k), k.on = j.on, k.list = j.list,
           k.todo = Tail(j.todo), k.entry \in Entries, k.entry.id = j.to
    PROVE  Ctl(k, c, held)
  <1>1. j.op = "duplicate" /\ j.on = c /\ c # None
    BY HeadOf DEF Of, Uses
  <1>2. Asked(k) /\ k.entry.id \in Fresh
    BY <1>1 DEF Ctl, Asked, SameRequest
  <1>3. Shape(k)
    BY RestShape DEF Ctl, SameRequest
  <1>4. Serves(k, c)
    BY <1>1 DEF Serves
  <1>5. Locks(k, held)
    <2>1. "copy" \notin Sale
      BY DEF Sale
    <2> QED
      BY <2>1, RestLocks DEF Ctl
  <1>6. Knows(k)
    <2>1. ~Has(k.todo, "resolve")
      BY <1>1, <1>3 DEF Shape, SameRequest, Of, Steps
    <2>2. k.list \in Table \/ Before(k.todo, {"types", "ask"}, Reads)
      <3>1. Head(j.todo) \notin {"types", "ask"} /\ j.todo \in Seq(Steps)
        BY DEF Jobs
      <3> QED
        BY <3>1, BeforeTail DEF Ctl, Knows
    <2> QED
      BY <1>2, <2>1, <2>2 DEF Knows
  <1> QED
    BY <1>2, <1>3, <1>4, <1>5, <1>6 DEF Ctl

\* A handler that has nothing left but one or two plain steps.
LEMMA LastCtl ==
    ASSUME NEW j \in Jobs, NEW k \in Jobs, NEW c, NEW held, Asked(j), SameRequest(j, k),
           k.on \in {None, c},
           k.todo = << "forget" >> \/ (k.on # None /\ k.todo = << "load", "save" >>)
    PROVE  Ctl(k, c, held)
  <1>1. Asked(k)
    BY DEF Asked, SameRequest
  <1>2. SavesEdits(k.todo) /\ Once(k.todo, "find")
    BY SMTT(30) DEF SavesEdits, Once, Edits
  <1>3. \A s : Has(k.todo, s) => s \in {"forget", "load", "save"}
    BY SMTT(30) DEF Has
  <1>4. k.op \in Ops /\ Of("forget") = Ops /\ Of("load") = Ops /\ Of("save") = Ops
    BY DEF Jobs, Of
  <1>5. Shape(k)
    BY <1>2, <1>3, <1>4 DEF Shape
  <1>6. /\ Before(k.todo, {"lock"}, Sale) /\ Before(k.todo, {"take"}, {"place"})
        /\ Before(k.todo, {"claim"}, {"restock"}) /\ Before(k.todo, {"types", "ask"}, Reads)
        /\ Before(k.todo, {"find"}, {"put"}) /\ Before(k.todo, {"copy"}, {"push"})
    BY <1>3, NoneBefore DEF Sale, Reads
  <1>7. k.on = None => Before(k.todo, {"load"}, Uses)
    <2>1. "forget" \notin Uses /\ (k.on = None => \A s : Has(k.todo, s) => s = "forget")
      BY SMTT(30) DEF Has, Uses, Edits
    <2> QED
      BY <2>1, NoneBefore
  <1> QED
    BY <1>1, <1>3, <1>5, <1>6, <1>7 DEF Ctl, Serves, Locks, Knows

-----------------------------------------------------------------------------
(* The lists the requests begin with.                                       *)

\* A list in which everything has what it needs before it.
Plan(op, t) ==
    /\ t \in Seq(Steps) /\ op \in Ops
    /\ SavesEdits(t) /\ \A s \in Steps : Has(t, s) => op \in Of(s)
    /\ Once(t, "find") /\ ~(Has(t, "find") /\ Has(t, "resolve"))
    /\ Before(t, {"load"}, Uses) /\ Before(t, {"lock"}, Sale)
    /\ Before(t, {"take"}, {"place"}) /\ Before(t, {"claim"}, {"restock"})
    /\ Before(t, {"types", "ask"}, Reads) /\ Before(t, {"find"}, {"put"})
    /\ op = "create" \/ (~Has(t, "resolve") /\ Before(t, {"copy"}, {"push"}))

LEMMA BeforeConcat ==
    ASSUME NEW t \in Seq(Steps), NEW a \in Seq(Steps), NEW A, NEW B,
           Before(t, A, B), Before(a, A, B) \/ \E i \in DOMAIN t : t[i] \in A
    PROVE  Before(t \o a, A, B)
  <1> DEFINE u == t \o a
  <1>0. /\ DOMAIN u = 1 .. Len(t) + Len(a) /\ Len(t) \in Nat /\ Len(a) \in Nat
        /\ DOMAIN t = 1 .. Len(t) /\ DOMAIN a = 1 .. Len(a)
        /\ \A k \in 1 .. Len(t) + Len(a) : u[k] = IF k <= Len(t) THEN t[k] ELSE a[k - Len(t)]
    BY ConcatOf
  <1> SUFFICES ASSUME NEW i \in DOMAIN u, u[i] \in B
               PROVE  \E j \in 1 .. i - 1 : u[j] \in A
    BY DEF Before
  <1> HIDE DEF u
  <1>1. CASE i <= Len(t)
    <2>1. i \in DOMAIN t /\ t[i] = u[i]
      BY <1>0, <1>1
    <2>2. PICK j \in 1 .. i - 1 : t[j] \in A
      BY <2>1 DEF Before
    <2>3. u[j] = t[j]
      BY <1>0, <2>1
    <2> QED
      BY <2>2, <2>3
  <1>2. CASE i > Len(t) /\ Before(a, A, B)
    <2>1. i - Len(t) \in DOMAIN a /\ a[i - Len(t)] = u[i]
      BY <1>0, <1>2
    <2>2. PICK j \in 1 .. i - Len(t) - 1 : a[j] \in A
      BY <1>2, <2>1 DEF Before
    <2>3. j + Len(t) \in 1 .. i - 1 /\ j + Len(t) \in DOMAIN u /\ j + Len(t) > Len(t)
          /\ j + Len(t) - Len(t) = j
      BY <1>0, <2>1
    <2>4. u[j + Len(t)] = a[j]
      BY <1>0, <2>3
    <2> QED
      BY <2>2, <2>3, <2>4
  <1>3. CASE i > Len(t) /\ \E k \in DOMAIN t : t[k] \in A
    <2>1. PICK k \in DOMAIN t : t[k] \in A
      BY <1>3
    <2>2. k \in 1 .. i - 1 /\ u[k] = t[k]
      BY <1>0, <1>3
    <2> QED
      BY <2>1, <2>2
  <1> QED
    BY <1>0, <1>1, <1>2, <1>3

LEMMA HasConcat ==
    ASSUME NEW t \in Seq(Steps), NEW a \in Seq(Steps)
    PROVE  /\ \A s : Has(t \o a, s) => Has(t, s) \/ Has(a, s)
           /\ \A s : Has(t, s) => Has(t \o a, s)
           /\ SavesEdits(t) /\ SavesEdits(a) => SavesEdits(t \o a)
           /\ \A s : Once(t, s) /\ ~Has(a, s) => Once(t \o a, s)
  <1> DEFINE u == t \o a
  <1>0. /\ DOMAIN u = 1 .. Len(t) + Len(a) /\ Len(t) \in Nat /\ Len(a) \in Nat
        /\ DOMAIN t = 1 .. Len(t) /\ DOMAIN a = 1 .. Len(a)
        /\ \A k \in 1 .. Len(t) + Len(a) : u[k] = IF k <= Len(t) THEN t[k] ELSE a[k - Len(t)]
    BY ConcatOf
  <1> HIDE DEF u
  <1>1. ASSUME NEW i \in DOMAIN u
        PROVE  \/ i \in DOMAIN t /\ u[i] = t[i]
               \/ i - Len(t) \in DOMAIN a /\ u[i] = a[i - Len(t)]
    BY <1>0
  <1>2. ASSUME NEW s, Has(u, s) PROVE Has(t, s) \/ Has(a, s)
    BY <1>1, <1>2 DEF Has
  <1>3. ASSUME NEW s, Has(t, s) PROVE Has(u, s)
    <2>1. PICK i \in DOMAIN t : t[i] = s
      BY <1>3 DEF Has
    <2>2. i \in DOMAIN u /\ u[i] = s
      BY <1>0, <2>1
    <2> QED
      BY <2>2 DEF Has
  <1>4. ASSUME SavesEdits(t), SavesEdits(a), NEW i \in DOMAIN u, u[i] \in Edits
        PROVE  i + 1 \in DOMAIN u /\ u[i + 1] = "save"
    <2>1. CASE i \in DOMAIN t /\ u[i] = t[i]
      <3>1. i + 1 \in DOMAIN t /\ t[i + 1] = "save"
        BY <1>4, <2>1 DEF SavesEdits
      <3> QED
        BY <1>0, <3>1
    <2>2. CASE i - Len(t) \in DOMAIN a /\ u[i] = a[i - Len(t)]
      <3>1. i - Len(t) + 1 \in DOMAIN a /\ a[i - Len(t) + 1] = "save"
        BY <1>4, <2>2 DEF SavesEdits
      <3>2. i + 1 \in DOMAIN u /\ i + 1 > Len(t) /\ i + 1 - Len(t) = i - Len(t) + 1
        BY <1>0, <3>1, <2>2
      <3> QED
        BY <1>0, <3>1, <3>2
    <2> QED
      BY <1>1, <2>1, <2>2
  <1>5. ASSUME NEW s, Once(t, s), ~Has(a, s), NEW i \in DOMAIN u, NEW k \in DOMAIN u,
               u[i] = s, u[k] = s
        PROVE  i = k
    <2>1. i \in DOMAIN t /\ t[i] = s /\ k \in DOMAIN t /\ t[k] = s
      BY <1>1, <1>5 DEF Has
    <2> QED
      BY <1>5, <2>1 DEF Once
  <1> QED
    BY <1>2, <1>3, <1>4, <1>5 DEF SavesEdits, Once, u

\* More may follow that edits nothing, if what it needs has come before.
LEMMA PlanConcat ==
    ASSUME NEW op, NEW t, Plan(op, t), NEW a \in Seq(Steps),
           \A s : Has(a, s) => s \in {"load", "save", "types", "unused", "delete", "forget"},
           Before(a, {"load"}, Uses) \/ Has(t, "load"),
           Before(a, {"types", "ask"}, Reads) \/ Has(t, "types")
    PROVE  Plan(op, t \o a)
  <1>1. t \in Seq(Steps) /\ op \in Ops /\ t \o a \in Seq(Steps)
    BY ConcatOf DEF Plan
  <1>2. SavesEdits(a)
    BY DEF SavesEdits, Has, Edits
  <1>3. \A s \in {"load", "save", "types", "unused", "delete", "forget"} : Of(s) = Ops
    BY DEF Of
  <1>4. /\ SavesEdits(t \o a) /\ Once(t \o a, "find")
        /\ \A s : Has(t \o a, s) => Has(t, s) \/ Has(a, s)
    BY <1>1, <1>2, HasConcat DEF Plan
  <1>5. \A s \in Steps : Has(t \o a, s) => op \in Of(s)
    BY <1>1, <1>3, <1>4 DEF Plan
  <1>6. /\ Before(a, {"lock"}, Sale) /\ Before(a, {"take"}, {"place"})
        /\ Before(a, {"claim"}, {"restock"}) /\ Before(a, {"find"}, {"put"})
        /\ Before(a, {"copy"}, {"push"})
    BY NoneBefore DEF Sale
  <1>7. /\ Before(t \o a, {"lock"}, Sale) /\ Before(t \o a, {"take"}, {"place"})
        /\ Before(t \o a, {"claim"}, {"restock"}) /\ Before(t \o a, {"find"}, {"put"})
        /\ Before(t, {"copy"}, {"push"}) => Before(t \o a, {"copy"}, {"push"})
    BY <1>1, <1>6, BeforeConcat DEF Plan
  <1>8. Before(t \o a, {"load"}, Uses) /\ Before(t \o a, {"types", "ask"}, Reads)
    <2>1. Has(t, "load") => \E i \in DOMAIN t : t[i] \in {"load"}
      BY DEF Has
    <2>2. Has(t, "types") => \E i \in DOMAIN t : t[i] \in {"types", "ask"}
      BY DEF Has
    <2> QED
      BY <1>1, <2>1, <2>2, BeforeConcat DEF Plan
  <1> QED
    BY <1>1, <1>4, <1>5, <1>7, <1>8 DEF Plan

LEMMA AuditPlan ==
    ASSUME NEW op, NEW t, Plan(op, t)
    PROVE  Plan(op, t \o Audit)
  <1>1. Audit \in Seq(Steps) /\ \A s : Has(Audit, s) => s \in {"load", "save"}
    BY SMTT(30) DEF Audit, Steps, Has
  <1>2. Before(Audit, {"load"}, Uses)
    BY SMTT(30) DEF Audit, Before, Uses, Edits
  <1>3. Before(Audit, {"types", "ask"}, Reads)
    BY <1>1, NoneBefore DEF Reads
  <1> QED
    BY <1>1, <1>2, <1>3, PlanConcat

LEMMA CustomerPlans ==
    /\ Plan("checkout", << "lock", "load", "take", "save", "place" >>)
    /\ Plan("cancel", << "lock", "claim", "load", "restock", "save" >>)
    /\ Plan("content", << "load", "types" >>)
    /\ Plan("boot", << "load" >>)
  <1> USE DEF Plan, Ops, Steps, Waits, SavesEdits, Has, Of, Once, Before, Uses, Edits, Sale, Reads
  <1>1. Plan("checkout", << "lock", "load", "take", "save", "place" >>)
    BY SMTT(30)
  <1>2. Plan("cancel", << "lock", "claim", "load", "restock", "save" >>)
    BY SMTT(30)
  <1>3. Plan("content", << "load", "types" >>)
    BY SMTT(30)
  <1>4. Plan("boot", << "load" >>)
    BY SMTT(30)
  <1> QED
    BY <1>1, <1>2, <1>3, <1>4, Zenon

LEMMA ProductPlans ==
    /\ Plan("update", << "load", "find", "put", "save" >>)
    /\ Plan("create", << "types", "resolve", "load", "push", "save" >>)
    /\ Plan("duplicate", << "load", "copy", "push", "save" >>)
    /\ Plan("remove", << "load", "drop", "save" >>)
    /\ Plan("page", << "load", "page", "save" >>)
  <1> USE DEF Plan, Ops, Steps, Waits, SavesEdits, Has, Of, Once, Before, Uses, Edits, Sale, Reads
  <1>1. Plan("update", << "load", "find", "put", "save" >>)
    BY SMTT(30)
  <1>2. Plan("create", << "types", "resolve", "load", "push", "save" >>)
    <2> DEFINE t == << "types", "resolve", "load", "push", "save" >>
    <2>1. t \in Seq(Steps) /\ SavesEdits(t) /\ Once(t, "find")
      BY SMTT(30)
    <2>2. \A s : Has(t, s) => s \in {"types", "resolve", "load", "push", "save"}
      BY SMTT(30)
    <2>3. Before(t, {"load"}, Uses)
      BY SMTT(30)
    <2>4. Before(t, {"types", "ask"}, Reads)
      BY SMTT(30)
    <2>5. \A s \in Steps : Has(t, s) => "create" \in Of(s)
      BY SMTT(30)
    <2>6. /\ Before(t, {"lock"}, Sale) /\ Before(t, {"take"}, {"place"})
          /\ Before(t, {"claim"}, {"restock"}) /\ Before(t, {"find"}, {"put"})
      BY SMTT(30)
    <2>7. ~Has(t, "find") /\ "create" \in Ops
      BY <2>2
    <2> HIDE DEF Ops, Steps, Waits, SavesEdits, Has, Of, Once, Before, Uses, Edits, Sale, Reads
    <2> QED
      BY <2>1, <2>3, <2>4, <2>5, <2>6, <2>7, Zenon DEF Plan
  <1>3. Plan("duplicate", << "load", "copy", "push", "save" >>)
    BY SMTT(30)
  <1>4. Plan("remove", << "load", "drop", "save" >>)
    BY SMTT(30)
  <1>5. Plan("page", << "load", "page", "save" >>)
    BY SMTT(30)
  <1> QED
    BY <1>1, <1>2, <1>3, <1>4, <1>5, Zenon

LEMMA TypePlans ==
    /\ Plan("addType", << "types", "name", "insert", "forget" >>)
    /\ Plan("rename", << "load", "types", "name", "update", "pin" >>)
    /\ Plan("removeType", << "load", "types", "unused", "delete", "forget" >>)
    /\ Plan("reassign", << "types", "load", "move" >>)
    /\ Plan("reassign", << "types", "load", "move" >> \o << "types", "unused", "delete", "forget" >>)
    /\ Plan("reassign", << "types", "load", "move" >> \o <<>>)
  <1> USE DEF Plan, Ops, Steps, Waits, SavesEdits, Has, Of, Once, Before, Uses, Edits, Sale, Reads
  <1>1. Plan("addType", << "types", "name", "insert", "forget" >>)
    BY SMTT(30)
  <1>2. Plan("rename", << "load", "types", "name", "update", "pin" >>)
    BY SMTT(30)
  <1>3. Plan("removeType", << "load", "types", "unused", "delete", "forget" >>)
    BY SMTT(30)
  <1>4. Plan("reassign", << "types", "load", "move" >>)
    BY SMTT(30)
  <1>5. /\ << "types", "unused", "delete", "forget" >> \in Seq(Steps)
        /\ Has(<< "types", "load", "move" >>, "load") /\ Has(<< "types", "load", "move" >>, "types")
        /\ \A s : Has(<< "types", "unused", "delete", "forget" >>, s)
                    => s \in {"load", "save", "types", "unused", "delete", "forget"}
    BY SMTT(30)
  <1> HIDE DEF Plan, Ops, Steps, Waits, SavesEdits, Has, Of, Once, Before, Uses, Edits, Sale, Reads
  <1>6. /\ <<>> \in Seq(Steps) /\ \A s : ~Has(<<>>, s)
        /\ Before(<<>>, {"load"}, Uses) /\ Before(<<>>, {"types", "ask"}, Reads)
    BY NoSteps
  <1>7. Plan("reassign", << "types", "load", "move" >> \o << "types", "unused", "delete", "forget" >>)
    BY <1>4, <1>5, PlanConcat
  <1>8. Plan("reassign", << "types", "load", "move" >> \o <<>>)
    BY <1>4, <1>6, PlanConcat
  <1> QED
    BY <1>1, <1>2, <1>3, <1>4, <1>7, <1>8, Zenon

\* A request that is planned so begins well.
LEMMA PlanCtl ==
    ASSUME NEW j \in Jobs, Plan(j.op, j.todo), Asked(j), j.on = None, NEW c, NEW held,
           j.op = "create" => j.entry \in Entries /\ j.entry.id \in Fresh /\ j.entry.type \in Types
    PROVE  Ctl(j, c, held)
  BY DEF Plan, Ctl, Shape, Serves, Locks, Knows

-----------------------------------------------------------------------------
(* The invariant of the handlers.                                           *)

Messages == [by : Workers \cup {None}, data : Documents, old : BOOLEAN]
TypeInv ==
    /\ row \in Documents \cup {None} /\ doc \in [Workers -> Documents \cup {None}]
    /\ cached \in Workers \cup {None}
    /\ cached # None => doc[cached] \in Documents /\ row \in Documents
    /\ sent \in Seq(Messages)
    /\ types \in Table /\ known \in Table \cup {None}
    /\ lock \in Workers \cup {None}
    /\ orders \in [Orders -> {"none", "live", "returned"}]
    /\ job \in [Workers -> Jobs]
    /\ unsaved \in BOOLEAN /\ late \in BOOLEAN /\ undone \in BOOLEAN
    /\ granted \in [Products -> Nat]

\* The load at boot has the server to itself, and reads the row as it stands.
BootLists == { << "load" >>, << "select", "loaded" >>, << "loaded" >>, << "seed", "loaded" >> }
Doing(j, s) == j.todo # <<>> /\ Head(j.todo) = s
Boots(w) ==
    /\ cached = None /\ \A v \in Workers \ {w} : job[v] = Idle
    /\ job[w].todo \in BootLists
    /\ Doing(job[w], "loaded") \/ Doing(job[w], "seed") => job[w].read = row
    /\ Doing(job[w], "seed") => row = None
BootInv ==
    /\ \A w \in Workers : job[w].op = "boot" => Boots(w)
    /\ cached = None => sent = <<>> /\ \A w \in Workers : job[w] = Idle \/ job[w].op = "boot"

\* A save under way has its handler waiting for it, or was given up.
SentInv ==
    /\ \A i \in DOMAIN sent : sent[i].by \in Workers => Doing(job[sent[i].by], "saved")
    /\ \A i, k \in DOMAIN sent : sent[i].by = sent[k].by /\ sent[i].by \in Workers => i = k

ControlInv ==
    /\ TypeInv /\ BootInv /\ SentInv
    /\ \A w \in Workers : Ctl(job[w], cached, lock = w)

\* What a step of w leaves of the handlers.
Continues(j, k) ==
    /\ SameRequest(j, k)
    /\ Head(j.todo) \notin {"find", "copy"} => k.idx = j.idx /\ SameProduct(j, k)
    /\ \A a, b : /\ b \in {"place", "restock", "put"} /\ a # Head(j.todo)
                 /\ Before(j.todo, {a}, {b})
                 => Before(k.todo, {a}, {b})
Effect(w) ==
    /\ job' \in [Workers -> Jobs] /\ lock' \in Workers \cup {None}
    /\ \A v \in Workers \ {w} : job'[v] = job[v] /\ (lock' = v <=> lock = v)
    /\ Ctl(job'[w], cached', lock' = w)
    /\ job'[w] = Idle \/ Continues(job[w], job'[w])

\* What a handler keeps when only its list changes.
LEMMA TodoField ==
    ASSUME NEW j \in Jobs, NEW t \in Seq(Steps)
    PROVE  LET k == [j EXCEPT !.todo = t]
           IN  /\ k \in Jobs /\ k.todo = t /\ k.on = j.on /\ SameRequest(j, k)
               /\ k.idx = j.idx /\ k.entry = j.entry /\ k.list = j.list /\ k.read = j.read
  BY DEF Jobs, SameRequest

LEMMA TodoGiven ==
    ASSUME job \in [Workers -> Jobs], NEW w \in Workers, NEW t \in Seq(Steps)
    PROVE  LET g == [job EXCEPT ![w].todo = t]
           IN  /\ g \in [Workers -> Jobs] /\ \A v \in Workers \ {w} : g[v] = job[v]
               /\ g[w].todo = t /\ SameRequest(job[w], g[w])
               /\ g[w].on = job[w].on /\ g[w].idx = job[w].idx /\ g[w].entry = job[w].entry
               /\ g[w].list = job[w].list /\ g[w].read = job[w].read
  <1> DEFINE g == [job EXCEPT ![w].todo = t]
             h == [job[w] EXCEPT !.todo = t]
  <1>1. job[w] \in Jobs
    OBVIOUS
  <1>2. /\ h \in Jobs /\ h.todo = t /\ h.on = job[w].on /\ SameRequest(job[w], h)
        /\ h.idx = job[w].idx /\ h.entry = job[w].entry /\ h.list = job[w].list
        /\ h.read = job[w].read
    BY <1>1, TodoField
  <1>3. g = [job EXCEPT ![w] = h]
    OBVIOUS
  <1> HIDE DEF h, g
  <1>4. g \in [Workers -> Jobs] /\ g[w] = h /\ \A v \in Workers \ {w} : g[v] = job[v]
    BY <1>2, <1>3
  <1>5. /\ g[w].todo = t /\ SameRequest(job[w], g[w])
        /\ g[w].on = job[w].on /\ g[w].idx = job[w].idx /\ g[w].entry = job[w].entry
        /\ g[w].list = job[w].list /\ g[w].read = job[w].read
    BY <1>2, <1>4
  <1> QED
    BY <1>4, <1>5 DEF g

LEMMA TodoSet ==
    ASSUME job \in [Workers -> Jobs], NEW w \in Workers, NEW t \in Seq(Steps),
           job' = [job EXCEPT ![w].todo = t]
    PROVE  /\ job' \in [Workers -> Jobs] /\ \A v \in Workers \ {w} : job'[v] = job[v]
           /\ job'[w].todo = t /\ SameRequest(job[w], job'[w]) /\ job'[w].on = job[w].on
           /\ job'[w].idx = job[w].idx /\ job'[w].entry = job[w].entry
           /\ job'[w].list = job[w].list /\ job'[w].read = job[w].read
  BY TodoGiven

\* The same with the document, the answer, the list of types or the product it has got.
SetsOn(w, t, c) == job' = [job EXCEPT ![w].todo = t, ![w].on = c]

LEMMA OnField ==
    ASSUME NEW j \in Jobs, NEW c \in Workers
    PROVE  LET k == [j EXCEPT !.on = c]
           IN  /\ k \in Jobs /\ k.todo = j.todo /\ k.on = c /\ SameRequest(j, k)
               /\ k.idx = j.idx /\ k.entry = j.entry /\ k.list = j.list /\ k.read = j.read
  BY DEF Jobs, SameRequest

LEMMA OnSet ==
    ASSUME job \in [Workers -> Jobs], NEW w \in Workers, NEW t \in Seq(Steps), NEW c \in Workers,
           SetsOn(w, t, c)
    PROVE  /\ job' \in [Workers -> Jobs] /\ \A v \in Workers \ {w} : job'[v] = job[v]
           /\ job'[w].todo = t /\ job'[w].on = c /\ SameRequest(job[w], job'[w])
           /\ job'[w].idx = job[w].idx /\ job'[w].entry = job[w].entry
           /\ job'[w].list = job[w].list /\ job'[w].read = job[w].read
  <1> DEFINE g == [job EXCEPT ![w].todo = t]
             k == [g[w] EXCEPT !.on = c]
  <1>1. /\ g \in [Workers -> Jobs] /\ \A v \in Workers \ {w} : g[v] = job[v]
        /\ g[w].todo = t /\ SameRequest(job[w], g[w])
        /\ g[w].on = job[w].on /\ g[w].idx = job[w].idx /\ g[w].entry = job[w].entry
        /\ g[w].list = job[w].list /\ g[w].read = job[w].read
    BY TodoGiven
  <1>2. job' = [g EXCEPT ![w] = k]
    BY DEF SetsOn
  <1> HIDE DEF g
  <1>3. g[w] \in Jobs
    BY <1>1
  <1>5. /\ k \in Jobs /\ k.todo = g[w].todo /\ k.on = c /\ SameRequest(g[w], k)
        /\ k.idx = g[w].idx /\ k.entry = g[w].entry /\ k.list = g[w].list /\ k.read = g[w].read
    BY <1>3, OnField
  <1> HIDE DEF k
  <1>6. job' \in [Workers -> Jobs] /\ job'[w] = k /\ \A v \in Workers \ {w} : job'[v] = g[v]
    BY <1>1, <1>2, <1>5, SMTT(30)
  <1> QED
    BY <1>1, <1>5, <1>6 DEF SameRequest

SetsRead(w, t, r) == job' = [job EXCEPT ![w].todo = t, ![w].read = r]

LEMMA ReadField ==
    ASSUME NEW j \in Jobs, NEW r \in Documents \cup {None}
    PROVE  LET k == [j EXCEPT !.read = r]
           IN  /\ k \in Jobs /\ k.todo = j.todo /\ k.read = r /\ SameRequest(j, k)
               /\ k.on = j.on /\ k.idx = j.idx /\ k.entry = j.entry /\ k.list = j.list
  BY DEF Jobs, SameRequest

LEMMA ReadSet ==
    ASSUME job \in [Workers -> Jobs], NEW w \in Workers, NEW t \in Seq(Steps), NEW r \in Documents \cup {None},
           SetsRead(w, t, r)
    PROVE  /\ job' \in [Workers -> Jobs] /\ \A v \in Workers \ {w} : job'[v] = job[v]
           /\ job'[w].todo = t /\ job'[w].read = r /\ SameRequest(job[w], job'[w])
           /\ job'[w].on = job[w].on /\ job'[w].idx = job[w].idx
           /\ job'[w].entry = job[w].entry /\ job'[w].list = job[w].list
  <1> DEFINE g == [job EXCEPT ![w].todo = t]
             k == [g[w] EXCEPT !.read = r]
  <1>1. /\ g \in [Workers -> Jobs] /\ \A v \in Workers \ {w} : g[v] = job[v]
        /\ g[w].todo = t /\ SameRequest(job[w], g[w])
        /\ g[w].on = job[w].on /\ g[w].idx = job[w].idx /\ g[w].entry = job[w].entry
        /\ g[w].list = job[w].list /\ g[w].read = job[w].read
    BY TodoGiven
  <1>2. job' = [g EXCEPT ![w] = k]
    BY DEF SetsRead
  <1> HIDE DEF g
  <1>3. g[w] \in Jobs
    BY <1>1
  <1>5. /\ k \in Jobs /\ k.todo = g[w].todo /\ k.read = r /\ SameRequest(g[w], k)
        /\ k.on = g[w].on /\ k.idx = g[w].idx /\ k.entry = g[w].entry /\ k.list = g[w].list
    BY <1>3, ReadField
  <1> HIDE DEF k
  <1>6. job' \in [Workers -> Jobs] /\ job'[w] = k /\ \A v \in Workers \ {w} : job'[v] = g[v]
    BY <1>1, <1>2, <1>5, SMTT(30)
  <1> QED
    BY <1>1, <1>5, <1>6 DEF SameRequest

SetsList(w, t, l) == job' = [job EXCEPT ![w].todo = t, ![w].list = l]

LEMMA ListField ==
    ASSUME NEW j \in Jobs, NEW l \in Table
    PROVE  LET k == [j EXCEPT !.list = l]
           IN  /\ k \in Jobs /\ k.todo = j.todo /\ k.list = l /\ SameRequest(j, k)
               /\ k.on = j.on /\ k.idx = j.idx /\ k.entry = j.entry /\ k.read = j.read
  BY DEF Jobs, SameRequest

LEMMA ListSet ==
    ASSUME job \in [Workers -> Jobs], NEW w \in Workers, NEW t \in Seq(Steps), NEW l \in Table,
           SetsList(w, t, l)
    PROVE  /\ job' \in [Workers -> Jobs] /\ \A v \in Workers \ {w} : job'[v] = job[v]
           /\ job'[w].todo = t /\ job'[w].list = l /\ SameRequest(job[w], job'[w])
           /\ job'[w].on = job[w].on /\ job'[w].idx = job[w].idx
           /\ job'[w].entry = job[w].entry /\ job'[w].read = job[w].read
  <1> DEFINE g == [job EXCEPT ![w].todo = t]
             k == [g[w] EXCEPT !.list = l]
  <1>1. /\ g \in [Workers -> Jobs] /\ \A v \in Workers \ {w} : g[v] = job[v]
        /\ g[w].todo = t /\ SameRequest(job[w], g[w])
        /\ g[w].on = job[w].on /\ g[w].idx = job[w].idx /\ g[w].entry = job[w].entry
        /\ g[w].list = job[w].list /\ g[w].read = job[w].read
    BY TodoGiven
  <1>2. job' = [g EXCEPT ![w] = k]
    BY DEF SetsList
  <1> HIDE DEF g
  <1>3. g[w] \in Jobs
    BY <1>1
  <1>5. /\ k \in Jobs /\ k.todo = g[w].todo /\ k.list = l /\ SameRequest(g[w], k)
        /\ k.on = g[w].on /\ k.idx = g[w].idx /\ k.entry = g[w].entry /\ k.read = g[w].read
    BY <1>3, ListField
  <1> HIDE DEF k
  <1>6. job' \in [Workers -> Jobs] /\ job'[w] = k /\ \A v \in Workers \ {w} : job'[v] = g[v]
    BY <1>1, <1>2, <1>5, SMTT(30)
  <1> QED
    BY <1>1, <1>5, <1>6 DEF SameRequest

SetsEntry(w, t, e) == job' = [job EXCEPT ![w].todo = t, ![w].entry = e]

LEMMA EntryField ==
    ASSUME NEW j \in Jobs, NEW e \in Entries
    PROVE  LET k == [j EXCEPT !.entry = e]
           IN  /\ k \in Jobs /\ k.todo = j.todo /\ k.entry = e /\ SameRequest(j, k)
               /\ k.on = j.on /\ k.idx = j.idx /\ k.list = j.list /\ k.read = j.read
  BY DEF Jobs, SameRequest

LEMMA EntrySet ==
    ASSUME job \in [Workers -> Jobs], NEW w \in Workers, NEW t \in Seq(Steps), NEW e \in Entries,
           SetsEntry(w, t, e)
    PROVE  /\ job' \in [Workers -> Jobs] /\ \A v \in Workers \ {w} : job'[v] = job[v]
           /\ job'[w].todo = t /\ job'[w].entry = e /\ SameRequest(job[w], job'[w])
           /\ job'[w].on = job[w].on /\ job'[w].idx = job[w].idx
           /\ job'[w].list = job[w].list /\ job'[w].read = job[w].read
  <1> DEFINE g == [job EXCEPT ![w].todo = t]
             k == [g[w] EXCEPT !.entry = e]
  <1>1. /\ g \in [Workers -> Jobs] /\ \A v \in Workers \ {w} : g[v] = job[v]
        /\ g[w].todo = t /\ SameRequest(job[w], g[w])
        /\ g[w].on = job[w].on /\ g[w].idx = job[w].idx /\ g[w].entry = job[w].entry
        /\ g[w].list = job[w].list /\ g[w].read = job[w].read
    BY TodoGiven
  <1>2. job' = [g EXCEPT ![w] = k]
    BY DEF SetsEntry
  <1> HIDE DEF g
  <1>3. g[w] \in Jobs
    BY <1>1
  <1>5. /\ k \in Jobs /\ k.todo = g[w].todo /\ k.entry = e /\ SameRequest(g[w], k)
        /\ k.on = g[w].on /\ k.idx = g[w].idx /\ k.list = g[w].list /\ k.read = g[w].read
    BY <1>3, EntryField
  <1> HIDE DEF k
  <1>6. job' \in [Workers -> Jobs] /\ job'[w] = k /\ \A v \in Workers \ {w} : job'[v] = g[v]
    BY <1>1, <1>2, <1>5, SMTT(30)
  <1> QED
    BY <1>1, <1>5, <1>6 DEF SameRequest

LEMMA IdxField ==
    ASSUME NEW j \in Jobs, NEW i \in Nat
    PROVE  LET k == [j EXCEPT !.idx = i]
           IN  /\ k \in Jobs /\ k.todo = j.todo /\ SameRequest(j, k) /\ k.on = j.on /\ k.idx = i
               /\ k.entry = j.entry /\ k.list = j.list /\ k.read = j.read
  BY DEF Jobs, SameRequest

LEMMA SubField ==
    ASSUME NEW e \in Entries, NEW n \in Names
    PROVE  LET d == [e EXCEPT !.sub = n]
           IN  d \in Entries /\ d.id = e.id /\ d.stock = e.stock /\ d.type = e.type
  BY DEF Entries

SetsFound(w, i, e, t) == job' = [job EXCEPT ![w].idx = i, ![w].entry = e, ![w].todo = t]
SetsSub(w, n, t) == job' = [job EXCEPT ![w].entry.sub = n, ![w].todo = t]

LEMMA FoundSet ==
    ASSUME job \in [Workers -> Jobs], NEW w \in Workers, NEW t \in Seq(Steps),
           NEW i \in Nat, NEW e \in Entries, SetsFound(w, i, e, t)
    PROVE  /\ job' \in [Workers -> Jobs] /\ \A v \in Workers \ {w} : job'[v] = job[v]
           /\ job'[w].todo = t /\ job'[w].entry = e /\ job'[w].idx = i
           /\ SameRequest(job[w], job'[w]) /\ job'[w].on = job[w].on
           /\ job'[w].list = job[w].list
  <1> DEFINE a == [job[w] EXCEPT !.idx = i]
             b == [a EXCEPT !.entry = e]
             c == [b EXCEPT !.todo = t]
             f == [job EXCEPT ![w] = a]
             g == [f EXCEPT ![w] = [f[w] EXCEPT !.entry = e]]
  <1>1. a \in Jobs /\ SameRequest(job[w], a) /\ a.on = job[w].on /\ a.list = job[w].list /\ a.idx = i
    BY IdxField
  <1>2. job' = [g EXCEPT ![w] = [g[w] EXCEPT !.todo = t]]
    BY DEF SetsFound
  <1> HIDE DEF a
  <1>3. f \in [Workers -> Jobs] /\ f[w] = a /\ \A v \in Workers \ {w} : f[v] = job[v]
    BY <1>1
  <1> HIDE DEF f
  <1>4. b \in Jobs /\ SameRequest(a, b) /\ b.on = a.on /\ b.list = a.list /\ b.idx = i /\ b.entry = e
    BY <1>1, EntryField
  <1> HIDE DEF b
  <1>5. g \in [Workers -> Jobs] /\ g[w] = b /\ \A v \in Workers \ {w} : g[v] = job[v]
    BY <1>3, <1>4 DEF b
  <1> HIDE DEF g
  <1>6. /\ c \in Jobs /\ SameRequest(b, c) /\ c.on = b.on /\ c.list = b.list /\ c.idx = i
        /\ c.entry = e /\ c.todo = t
    BY <1>4, TodoField
  <1> HIDE DEF c
  <1>7. job' \in [Workers -> Jobs] /\ job'[w] = c /\ \A v \in Workers \ {w} : job'[v] = job[v]
    BY <1>2, <1>5, <1>6 DEF c
  <1> QED
    BY <1>1, <1>4, <1>6, <1>7 DEF SameRequest

LEMMA SubSet ==
    ASSUME job \in [Workers -> Jobs], NEW w \in Workers, NEW t \in Seq(Steps),
           job[w].entry \in Entries, NEW n \in Names, SetsSub(w, n, t)
    PROVE  /\ job' \in [Workers -> Jobs] /\ \A v \in Workers \ {w} : job'[v] = job[v]
           /\ job'[w].todo = t /\ SameProduct(job[w], job'[w]) /\ job'[w].idx = job[w].idx
           /\ SameRequest(job[w], job'[w]) /\ job'[w].on = job[w].on
           /\ job'[w].list = job[w].list
  <1> DEFINE d == [job[w].entry EXCEPT !.sub = n]
             a == [job[w] EXCEPT !.entry = d]
             b == [a EXCEPT !.todo = t]
             f == [job EXCEPT ![w] = a]
  <1>1. d \in Entries /\ d.id = job[w].entry.id /\ d.stock = job[w].entry.stock
        /\ d.type = job[w].entry.type
    BY SubField
  <1>2. job' = [f EXCEPT ![w] = [f[w] EXCEPT !.todo = t]]
    BY DEF SetsSub
  <1> HIDE DEF d
  <1>3. /\ a \in Jobs /\ SameRequest(job[w], a) /\ a.on = job[w].on /\ a.list = job[w].list
        /\ a.idx = job[w].idx /\ a.entry = d
    BY <1>1, EntryField
  <1> HIDE DEF a
  <1>4. f \in [Workers -> Jobs] /\ f[w] = a /\ \A v \in Workers \ {w} : f[v] = job[v]
    BY <1>3
  <1> HIDE DEF f
  <1>5. /\ b \in Jobs /\ SameRequest(a, b) /\ b.on = a.on /\ b.list = a.list /\ b.idx = a.idx
        /\ b.entry = d /\ b.todo = t
    BY <1>3, TodoField
  <1> HIDE DEF b
  <1>6. job' \in [Workers -> Jobs] /\ job'[w] = b /\ \A v \in Workers \ {w} : job'[v] = job[v]
    BY <1>2, <1>4, <1>5 DEF b
  <1> QED
    BY <1>1, <1>3, <1>5, <1>6 DEF SameRequest, SameProduct

LEMMA ContinuesTail ==
    ASSUME NEW j \in Jobs, NEW k \in Jobs, j.todo # <<>>, SameRequest(j, k), k.idx = j.idx,
           SameProduct(j, k), k.todo = Tail(j.todo)
    PROVE  Continues(j, k)
  <1>1. j.todo \in Seq(Steps)
    BY DEF Jobs
  <1>2. ASSUME NEW a, NEW b, a # Head(j.todo), Before(j.todo, {a}, {b})
        PROVE  Before(k.todo, {a}, {b})
    <2>1. Head(j.todo) \notin {a}
      BY <1>2
    <2> QED
      BY <1>1, <1>2, <2>1, BeforeTail
  <1> QED
    BY <1>2 DEF Continues

LEMMA ContinuesMore ==
    ASSUME NEW j \in Jobs, NEW k \in Jobs, NEW t \in Seq(Steps), NEW s \in Steps,
           SameRequest(j, k), k.idx = j.idx, SameProduct(j, k), k.todo = << s >> \o t,
           s \notin {"place", "restock", "put"},
           \A a, b : /\ b \in {"place", "restock", "put"} /\ a # Head(j.todo)
                     /\ Before(j.todo, {a}, {b})
                     => Before(t, {a}, {b})
    PROVE  Continues(j, k)
  <1>1. ASSUME NEW a, NEW b, b \in {"place", "restock", "put"}, Before(t, {a}, {b})
        PROVE  Before(k.todo, {a}, {b})
    <2>1. s \notin {b}
      BY <1>1
    <2> QED
      BY <1>1, <2>1, BeforeCons
  <1> QED
    BY <1>1 DEF Continues

LEMMA ContinuesTwo ==
    ASSUME NEW j \in Jobs, NEW k \in Jobs, j.todo # <<>>, NEW s \in Steps, NEW r \in Steps,
           SameRequest(j, k), Head(j.todo) \notin {"find", "copy"} => k.idx = j.idx /\ SameProduct(j, k),
           k.todo = << s >> \o (<< r >> \o Tail(j.todo)),
           s \notin {"place", "restock", "put"}, r \notin {"place", "restock", "put"}
    PROVE  Continues(j, k)
  <1>1. j.todo \in Seq(Steps) /\ Tail(j.todo) \in Seq(Steps) /\ << r >> \o Tail(j.todo) \in Seq(Steps)
    <2>1. j.todo \in Seq(Steps)
      BY DEF Jobs
    <2>2. Tail(j.todo) \in Seq(Steps)
      BY <2>1, TailOf
    <2> QED
      BY <2>1, <2>2, ConsOf
  <1>2. ASSUME NEW a, NEW b, b \in {"place", "restock", "put"}, a # Head(j.todo),
               Before(j.todo, {a}, {b})
        PROVE  Before(k.todo, {a}, {b})
    <2>1. Head(j.todo) \notin {a} /\ s \notin {b} /\ r \notin {b}
      BY <1>2
    <2>2. Before(Tail(j.todo), {a}, {b})
      BY <1>1, <1>2, <2>1, BeforeTail
    <2>3. Before(<< r >> \o Tail(j.todo), {a}, {b})
      BY <1>1, <2>1, <2>2, BeforeCons
    <2> QED
      BY <1>1, <2>1, <2>3, BeforeCons
  <1> QED
    BY <1>2 DEF Continues

LEMMA RestSteps ==
    ASSUME ControlInv, NEW w \in Workers, job[w].todo # <<>>
    PROVE  /\ job[w] \in Jobs /\ Rest(w) \in Seq(Steps) /\ job[w].todo \in Seq(Steps)
           /\ Rest(w) = Tail(job[w].todo) /\ Ctl(job[w], cached, lock = w)
  BY TailOf DEF ControlInv, TypeInv, Jobs, Rest

LEMMA EndsEffect ==
    ASSUME ControlInv, NEW w \in Workers, Ends(w)
    PROVE  Effect(w) /\ job'[w] = Idle
  <1>1. job' \in [Workers -> Jobs] /\ job'[w] = Idle /\ \A v \in Workers \ {w} : job'[v] = job[v]
    BY IdleJob DEF ControlInv, TypeInv, Ends
  <1>2. Ctl(job'[w], cached', lock' = w)
    BY <1>1, IdleCtl
  <1>3. /\ lock' \in Workers \cup {None}
        /\ \A v \in Workers \ {w} : (lock' = v <=> lock = v)
    BY CatalogueConstants DEF ControlInv, TypeInv, Ends
  <1> QED
    BY <1>1, <1>2, <1>3 DEF Effect

LEMMA RestEffect ==
    ASSUME ControlInv, NEW w \in Workers, job[w].todo # <<>>,
           Head(job[w].todo) \notin {"load", "lock", "types", "ask", "copy", "find"},
           Turns(w, Rest(w)), cached' = cached
    PROVE  Effect(w) /\ job'[w].todo = Rest(w)
  <1>1. /\ job[w] \in Jobs /\ Rest(w) \in Seq(Steps) /\ Rest(w) = Tail(job[w].todo)
        /\ Ctl(job[w], cached, lock = w)
    BY RestSteps
  <1>2. /\ job' \in [Workers -> Jobs] /\ \A v \in Workers \ {w} : job'[v] = job[v]
        /\ job'[w].todo = Rest(w) /\ SameRequest(job[w], job'[w]) /\ job'[w].on = job[w].on
        /\ job'[w].idx = job[w].idx /\ job'[w].entry = job[w].entry
        /\ job'[w].list = job[w].list
    <2>1. job \in [Workers -> Jobs] /\ job' = [job EXCEPT ![w].todo = Rest(w)]
      BY DEF Turns, ControlInv, TypeInv
    <2> QED
      BY <1>1, <2>1, TodoSet
  <1>3. job'[w] \in Jobs /\ SameProduct(job[w], job'[w]) /\ lock' = lock
    BY <1>2 DEF SameProduct, Turns
  <1>4. Ctl(job'[w], cached', lock' = w)
    BY <1>1, <1>2, <1>3, RestCtl
  <1>5. Continues(job[w], job'[w])
    BY <1>1, <1>2, <1>3, ContinuesTail
  <1> QED
    BY <1>2, <1>3, <1>4, <1>5 DEF Effect, ControlInv, TypeInv

\* The handler goes on, or it is done.
LEMMA ProceedsEffect ==
    ASSUME ControlInv, NEW w \in Workers, job[w].todo # <<>>,
           Head(job[w].todo) \notin {"load", "lock", "types", "ask", "copy", "find"},
           Proceeds(w), cached' = cached
    PROVE  Effect(w) /\ (job'[w] = Idle \/ job'[w].todo = Rest(w))
  BY EndsEffect, RestEffect DEF Proceeds

\* The same with one step before the rest, for whoever has the document.
LEMMA MoreEffect ==
    ASSUME ControlInv, NEW w \in Workers, job[w].todo # <<>>,
           Head(job[w].todo) \notin {"load", "lock", "types", "ask", "copy", "find"},
           NEW s \in {"save", "saved", "count"}, job[w].on # None,
           Turns(w, << s >> \o Rest(w)), cached' = cached
    PROVE  Effect(w) /\ job'[w].todo = << s >> \o Rest(w)
  <1>1. /\ job[w] \in Jobs /\ Rest(w) \in Seq(Steps) /\ Rest(w) = Tail(job[w].todo)
        /\ Ctl(job[w], cached, lock = w)
    BY RestSteps
  <1>a. s \in Steps /\ << s >> \o Rest(w) \in Seq(Steps)
    BY <1>1, ConsOf DEF Steps, Waits
  <1>2. /\ job' \in [Workers -> Jobs] /\ \A v \in Workers \ {w} : job'[v] = job[v]
        /\ job'[w].todo = << s >> \o Rest(w) /\ SameRequest(job[w], job'[w])
        /\ job'[w].on = job[w].on /\ job'[w].idx = job[w].idx
        /\ job'[w].entry = job[w].entry /\ job'[w].list = job[w].list
    <2>1. job \in [Workers -> Jobs] /\ job' = [job EXCEPT ![w].todo = << s >> \o Rest(w)]
      BY DEF Turns, ControlInv, TypeInv
    <2> QED
      BY <1>a, <2>1, TodoSet
  <1>3. job'[w] \in Jobs /\ SameProduct(job[w], job'[w]) /\ lock' = lock
    BY <1>2 DEF SameProduct, Turns
  <1> DEFINE m == [job[w] EXCEPT !.todo = Rest(w)]
  <1>4. /\ m \in Jobs /\ m.todo = Rest(w) /\ SameRequest(job[w], m) /\ m.on = job[w].on
        /\ m.idx = job[w].idx /\ m.entry = job[w].entry /\ m.list = job[w].list
        /\ SameProduct(job[w], m) /\ SameRequest(m, job'[w])
    <2>1. m \in Jobs
      BY <1>1 DEF Jobs
    <2>2. /\ m.todo = Rest(w) /\ SameRequest(job[w], m) /\ m.on = job[w].on
          /\ m.idx = job[w].idx /\ m.entry = job[w].entry /\ m.list = job[w].list
      BY <1>1 DEF Jobs, SameRequest
    <2> HIDE DEF m
    <2> QED
      BY <1>2, <2>1, <2>2 DEF SameRequest, SameProduct
  <1> HIDE DEF m
  <1>5. Ctl(m, cached, lock = w)
    BY <1>1, <1>4, RestCtl
  <1>6. Ctl(job'[w], cached', lock' = w)
    <2>1. s \in Plain /\ s # "told"
      BY DEF Plain
    <2> QED
      BY <1>2, <1>3, <1>4, <1>5, <2>1, MoreCtl
  <1>7. Continues(job[w], job'[w])
    <2>1. Continues(job[w], m)
      BY <1>1, <1>4, ContinuesTail
    <2>2. s \notin {"place", "restock", "put"}
      OBVIOUS
    <2>3. \A a, b : /\ b \in {"place", "restock", "put"} /\ a # Head(job[w].todo)
                    /\ Before(job[w].todo, {a}, {b})
                    => Before(Rest(w), {a}, {b})
      BY <2>1, <1>4 DEF Continues
    <2> QED
      BY <1>1, <1>2, <1>3, <1>a, <2>2, <2>3, ContinuesMore
  <1> QED
    BY <1>2, <1>3, <1>6, <1>7 DEF Effect, ControlInv, TypeInv

\* A handler whose list is cut short.
LEMMA LastEffect ==
    ASSUME ControlInv, NEW w \in Workers, job[w].todo # <<>>,
           Head(job[w].todo) \notin {"copy", "find"}, cached' = cached,
           \/ Turns(w, << "forget" >>)
           \/ job[w].on # None /\ Turns(w, << "load", "save" >>)
    PROVE  Effect(w)
  <1>1. job[w] \in Jobs /\ Ctl(job[w], cached, lock = w)
    BY RestSteps
  <1> DEFINE Lists == {<< "forget" >>, << "load", "save" >>}
  <1>2. PICK t \in Lists : /\ Turns(w, t) /\ (t = << "load", "save" >> => job[w].on # None)
    OBVIOUS
  <1>a. t \in Seq(Steps)
    <2>1. "forget" \in Steps /\ "load" \in Steps /\ "save" \in Steps
      BY DEF Steps, Waits
    <2>2. << "forget" >> \in Seq(Steps) /\ << "load", "save" >> \in Seq(Steps)
      BY <2>1
    <2> QED
      BY <2>2
  <1>3. /\ job' \in [Workers -> Jobs] /\ \A v \in Workers \ {w} : job'[v] = job[v]
        /\ job'[w].todo = t /\ SameRequest(job[w], job'[w]) /\ job'[w].on = job[w].on
        /\ job'[w].idx = job[w].idx /\ job'[w].entry = job[w].entry
    <2>1. job \in [Workers -> Jobs] /\ job' = [job EXCEPT ![w].todo = t]
      BY <1>2 DEF Turns, ControlInv, TypeInv
    <2> QED
      BY <1>a, <2>1, TodoSet
  <1>4. job'[w] \in Jobs /\ SameProduct(job[w], job'[w]) /\ lock' = lock
    BY <1>2, <1>3 DEF SameProduct, Turns
  <1>5. Ctl(job'[w], cached', lock' = w)
    <2>1. job'[w].on \in {None, cached}
      BY <1>1, <1>3 DEF Ctl, Serves
    <2>2. Asked(job[w])
      BY <1>1 DEF Ctl
    <2>3. job'[w].todo = << "forget" >> \/ (job'[w].on # None /\ job'[w].todo = << "load", "save" >>)
      BY <1>2, <1>3
    <2> QED
      BY <1>1, <1>3, <1>4, <2>1, <2>2, <2>3, LastCtl
  <1>6. Continues(job[w], job'[w])
    <2>1. \A s \in {"place", "restock", "put"} : ~Has(t, s)
      BY SMTT(30) DEF Has
    <2>2. \A a, b : b \in {"place", "restock", "put"} => Before(t, {a}, {b})
      BY <2>1, NoneBefore
    <2> QED
      BY <1>3, <1>4, <2>2 DEF Continues
  <1> QED
    BY <1>3, <1>4, <1>5, <1>6 DEF Effect, ControlInv, TypeInv

\* What comes first has what it needs (HeadOf), said of the worker.
LEMMA AtHead ==
    ASSUME ControlInv, NEW w \in Workers, NEW s, At(w, s)
    PROVE  /\ job[w] \in Jobs /\ job[w].todo # <<>> /\ Head(job[w].todo) = s /\ s \in Steps
           /\ job[w].op \in Of(s) /\ Asked(job[w])
           /\ s \in Uses => job[w].on = cached /\ cached # None
           /\ s \in Sale => lock = w
           /\ s \in Reads => job[w].list \in Table
           /\ s \in {"resolve", "put", "push"} => job[w].entry \in Entries
           /\ s = "resolve" => job[w].entry.type \in Types
           /\ s = "push" => job[w].entry.id \in Fresh
           /\ s \in Edits => Rest(w) # <<>> /\ Head(Rest(w)) = "save"
  <1>1. job[w].todo # <<>> /\ Head(job[w].todo) = s
    BY DEF At
  <1>2. job[w] \in Jobs /\ Ctl(job[w], cached, lock = w)
    BY <1>1, RestSteps
  <1> QED
    BY <1>1, <1>2, HeadOf DEF Rest, Ctl

\* The steps after which the handler goes on with the rest, or is done.
LEMMA PlainEffect ==
    ASSUME ControlInv, NEW w \in Workers,
           \/ Saved(w) \/ TypesTold(w) \/ CheckName(w) \/ InsertType(w) \/ UpdateType(w)
           \/ CheckUnused(w) \/ DeleteType(w) \/ ForgetTypes(w)
           \/ PutProduct(w) \/ PushProduct(w) \/ DropProduct(w) \/ EditPage(w)
           \/ TakeStock(w) \/ PlaceOrder(w) \/ ClaimRestore(w) \/ RestockItems(w)
    PROVE  Effect(w)
  <1> DEFINE S == {"saved", "told", "name", "insert", "update", "unused", "delete", "forget",
                   "put", "push", "drop", "page", "take", "place", "claim", "restock"}
  <1>1. \/ \E s \in S : At(w, s) /\ (Ends(w) \/ Proceeds(w))
        \/ At(w, "update") /\ Turns(w, << "forget" >>)
        \/ At(w, "unused") /\ Turns(w, << "load", "save" >>)
    <2>1. ASSUME Saved(w) \/ TypesTold(w) \/ CheckName(w) \/ InsertType(w)
                 \/ DeleteType(w) \/ ForgetTypes(w)
          PROVE  \E s \in S : At(w, s) /\ (Ends(w) \/ Proceeds(w))
      BY <2>1, Zenon DEF Saved, TypesTold, CheckName, InsertType, DeleteType, ForgetTypes
    <2>2. ASSUME PutProduct(w) \/ PushProduct(w) \/ EditPage(w)
                 \/ PlaceOrder(w) \/ ClaimRestore(w)
          PROVE  \E s \in S : At(w, s) /\ (Ends(w) \/ Proceeds(w))
      BY <2>2, Zenon DEF PutProduct, PushProduct, EditPage, PlaceOrder, ClaimRestore
    <2>3. ASSUME DropProduct(w)
          PROVE  \E s \in S : At(w, s) /\ (Ends(w) \/ Proceeds(w))
      BY <2>3, Zenon DEF DropProduct
    <2>4. ASSUME TakeStock(w) \/ RestockItems(w)
          PROVE  \E s \in S : At(w, s) /\ (Ends(w) \/ Proceeds(w))
      BY <2>4, Zenon DEF TakeStock, RestockItems
    <2>5. ASSUME UpdateType(w)
          PROVE  \/ \E s \in S : At(w, s) /\ (Ends(w) \/ Proceeds(w))
                 \/ At(w, "update") /\ Turns(w, << "forget" >>)
      BY <2>5, Zenon DEF UpdateType
    <2>6. ASSUME CheckUnused(w)
          PROVE  \/ \E s \in S : At(w, s) /\ (Ends(w) \/ Proceeds(w))
                 \/ At(w, "unused") /\ Turns(w, << "load", "save" >>)
      BY <2>6, Zenon DEF CheckUnused
    <2> QED
      BY <2>1, <2>2, <2>3, <2>4, <2>5, <2>6
  <1>2. cached' = cached
    BY Zenon DEF Saved, TypesTold, CheckName, InsertType, UpdateType, CheckUnused, DeleteType,
         ForgetTypes, PutProduct, PushProduct, DropProduct, EditPage, TakeStock, PlaceOrder,
         ClaimRestore, RestockItems, store
  <1>3. CASE \E s \in S : At(w, s) /\ (Ends(w) \/ Proceeds(w))
    <2>1. /\ job[w].todo # <<>>
          /\ Head(job[w].todo) \notin {"load", "lock", "types", "ask", "copy", "find"}
      BY <1>3 DEF At
    <2> QED
      BY <1>2, <1>3, <2>1, EndsEffect, ProceedsEffect
  <1>4. CASE At(w, "update") /\ Turns(w, << "forget" >>)
    BY <1>2, <1>4, LastEffect DEF At
  <1>5. CASE At(w, "unused") /\ Turns(w, << "load", "save" >>)
    <2>1. job[w].on # None
      BY <1>5, AtHead DEF Uses
    <2> QED
      BY <1>2, <1>5, <2>1, LastEffect DEF At
  <1> QED
    BY <1>1, <1>3, <1>4, <1>5

\* The steps that may put a save, or the wait for its answer, before the rest.
LEMMA SaveEffect ==
    ASSUME ControlInv, NEW w \in Workers,
           Save(w) \/ CountStored(w) \/ PinProducts(w) \/ MoveProducts(w)
    PROVE  Effect(w) /\ cached' = cached
  <1> DEFINE S == {"save", "count", "pin", "move"}
  <1>1. \E s \in S : /\ At(w, s)
                     /\ Ends(w) \/ Proceeds(w)
                        \/ \E r \in {"save", "saved", "count"} : Turns(w, << r >> \o Rest(w))
                     /\ cached' = cached \/ cached' = job[w].on
    <2>1. CASE Save(w)
      BY <2>1, Zenon DEF Save, Send, Turns
    <2>2. CASE CountStored(w)
      BY <2>2, Zenon DEF CountStored, Send, Turns
    <2>3. CASE PinProducts(w)
      BY <2>3, Zenon DEF PinProducts
    <2>4. CASE MoveProducts(w)
      BY <2>4, Zenon DEF MoveProducts
    <2> QED
      BY <2>1, <2>2, <2>3, <2>4
  <1>2. PICK s \in S : At(w, s)
    BY <1>1
  <1>3. job[w].on = cached /\ cached # None
    BY <1>2, AtHead DEF Uses
  <1>4. /\ job[w].todo # <<>>
        /\ Head(job[w].todo) \notin {"load", "lock", "types", "ask", "copy", "find"}
    BY <1>2 DEF At
  <1>5. cached' = cached
    BY <1>1, <1>3
  <1> QED
    BY <1>1, <1>3, <1>4, <1>5, EndsEffect, ProceedsEffect, MoreEffect

LEMMA TwoCons ==
    ASSUME NEW S, NEW t \in Seq(S), NEW a \in S, NEW b \in S
    PROVE  << a, b >> \o t = << a >> \o (<< b >> \o t) /\ <<>> \o t = t
  <1> DEFINE u == << a, b >> \o t
             v == << a >> \o (<< b >> \o t)
  <1>1. << a, b >> \in Seq(S) /\ Len(<< a, b >>) = 2 /\ << a, b >>[1] = a /\ << a, b >>[2] = b
    OBVIOUS
  <1>2. /\ u \in Seq(S) /\ Len(u) = Len(t) + 2 /\ Len(t) \in Nat
        /\ \A k \in 1 .. Len(t) + 2 : u[k] = IF k <= 2 THEN << a, b >>[k] ELSE t[k - 2]
    <2>1. /\ u \in Seq(S) /\ Len(t) \in Nat /\ Len(u) = Len(<< a, b >>) + Len(t)
          /\ \A k \in 1 .. Len(<< a, b >>) + Len(t) :
                u[k] = IF k <= Len(<< a, b >>) THEN << a, b >>[k] ELSE t[k - Len(<< a, b >>)]
      BY <1>1, ConcatOf
    <2> HIDE DEF u
    <2> QED
      BY <1>1, <2>1
  <1>3. /\ << b >> \o t \in Seq(S) /\ Len(<< b >> \o t) = Len(t) + 1 /\ (<< b >> \o t)[1] = b
        /\ \A i \in 1 .. Len(t) : (<< b >> \o t)[i + 1] = t[i]
    BY ConsOf
  <1>4. /\ v \in Seq(S) /\ Len(v) = Len(t) + 2 /\ v[1] = a
        /\ \A i \in 1 .. Len(t) + 1 : v[i + 1] = (<< b >> \o t)[i]
    <2> DEFINE s == << b >> \o t
    <2>1. s \in Seq(S) /\ Len(s) = Len(t) + 1
      BY <1>3
    <2> HIDE DEF s
    <2>2. /\ << a >> \o s \in Seq(S) /\ Len(<< a >> \o s) = Len(s) + 1 /\ (<< a >> \o s)[1] = a
          /\ \A i \in 1 .. Len(s) : (<< a >> \o s)[i + 1] = s[i]
      BY <2>1, ConsOf
    <2> QED
      BY <1>2, <2>1, <2>2 DEF s
  <1> HIDE DEF u, v
  <1>5. ASSUME NEW k \in 1 .. Len(t) + 2 PROVE u[k] = v[k]
    <2>1. CASE k = 1
      BY <2>1, <1>1, <1>2, <1>4
    <2>2. CASE k = 2
      <3>1. 1 \in 1 .. Len(t) + 1 /\ 1 + 1 = 2
        BY <1>2
      <3> QED
        BY <2>2, <3>1, <1>1, <1>2, <1>3, <1>4
    <2>3. CASE k \notin {1, 2}
      <3>1. /\ k - 1 \in 1 .. Len(t) + 1 /\ k - 1 + 1 = k /\ k - 2 \in 1 .. Len(t)
            /\ k - 2 + 1 = k - 1 /\ ~(k <= 2)
        BY <2>3, <1>2
      <3>2. v[k] = (<< b >> \o t)[k - 1] /\ (<< b >> \o t)[k - 1] = t[k - 2]
        BY <3>1, <1>3, <1>4
      <3> QED
        BY <3>1, <3>2, <1>2
    <2> QED
      BY <2>1, <2>2, <2>3
  <1>6. u = v
    BY <1>2, <1>4, <1>5
  <1>7. <<>> \o t = t
    OBVIOUS
  <1> QED
    BY <1>6, <1>7 DEF u, v

\* The list of the load at boot needs nothing.
LEMMA BootCtl ==
    ASSUME NEW j \in Jobs, NEW c, NEW held, j.op = "boot", j.todo \in BootLists, j.on = None
    PROVE  Ctl(j, c, held) /\ \A a, b : b \in {"place", "restock", "put"} => Before(j.todo, {a}, {b})
  <1>1. \A s : Has(j.todo, s) => s \in {"load", "select", "loaded", "seed"}
    BY SMTT(30) DEF BootLists, Has
  <1>2. SavesEdits(j.todo) /\ Once(j.todo, "find")
    BY <1>1 DEF SavesEdits, Once, Has, Edits
  <1>3. /\ Of("load") = Ops /\ Of("select") = {"boot"} /\ Of("loaded") = {"boot"}
        /\ Of("seed") = {"boot"} /\ "boot" \in Ops
    BY DEF Of, Ops
  <1>4. Shape(j)
    BY <1>1, <1>2, <1>3 DEF Shape
  <1>5. /\ Before(j.todo, {"lock"}, Sale) /\ Before(j.todo, {"load"}, Uses)
        /\ Before(j.todo, {"types", "ask"}, Reads) /\ Before(j.todo, {"copy"}, {"push"})
        /\ \A a, b : b \in {"place", "restock", "put"} => Before(j.todo, {a}, {b})
    BY <1>1, NoneBefore DEF Sale, Uses, Edits, Reads
  <1>6. ~Has(j.todo, "resolve")
    BY <1>1
  <1> QED
    BY <1>4, <1>5, <1>6 DEF Ctl, Asked, Serves, Locks, Knows

\* With no document in memory only the load at boot runs.
LEMMA OnlyBoot ==
    ASSUME ControlInv, NEW w \in Workers, job[w] # Idle
    PROVE  /\ cached = None => job[w].op = "boot"
           /\ job[w].op = "boot" => Boots(w) /\ job[w].on = None /\ job[w] \in Jobs
  <1>1. job[w] \in Jobs /\ job[w].on \in {None, cached}
    BY DEF ControlInv, TypeInv, Ctl, Serves
  <1> QED
    BY <1>1 DEF ControlInv, BootInv, Boots

LEMMA BootEffect ==
    ASSUME ControlInv, NEW w \in Workers, job[w] # Idle, job[w].op = "boot",
           job' \in [Workers -> Jobs], \A v \in Workers \ {w} : job'[v] = job[v],
           UNCHANGED lock, job'[w].todo \in BootLists, SameRequest(job[w], job'[w]),
           job'[w].on = None, job'[w].entry = job[w].entry, job'[w].idx = job[w].idx
    PROVE  Effect(w)
  <1>1. job'[w] \in Jobs /\ job'[w].op = "boot" /\ SameProduct(job[w], job'[w])
    BY DEF SameRequest, SameProduct
  <1>2. /\ Ctl(job'[w], cached', lock' = w)
        /\ \A a, b : b \in {"place", "restock", "put"} => Before(job'[w].todo, {a}, {b})
    BY <1>1, BootCtl
  <1>3. Continues(job[w], job'[w])
    BY <1>1, <1>2 DEF Continues
  <1> QED
    BY <1>2, <1>3 DEF Effect, ControlInv, TypeInv

LEMMA LoadEffect ==
    ASSUME ControlInv, NEW w \in Workers, Load(w)
    PROVE  /\ Effect(w) /\ cached' = cached
           /\ cached = None => job'[w].todo = << "select", "loaded" >>
  <1>1. /\ job[w] \in Jobs /\ Rest(w) \in Seq(Steps) /\ Rest(w) = Tail(job[w].todo)
        /\ Ctl(job[w], cached, lock = w) /\ job[w].todo # <<>> /\ Head(job[w].todo) = "load"
    BY RestSteps DEF Load, At
  <1>2. cached' = cached /\ lock' = lock /\ job \in [Workers -> Jobs]
    BY Zenon DEF Load, ControlInv, TypeInv
  <1>3. CASE cached # None
    <2>1. SetsOn(w, Rest(w), cached)
      BY <1>3 DEF Load, SetsOn
    <2>2. cached \in Workers
      BY <1>3 DEF ControlInv, TypeInv
    <2>3. /\ job' \in [Workers -> Jobs] /\ \A v \in Workers \ {w} : job'[v] = job[v]
          /\ job'[w].todo = Rest(w) /\ SameRequest(job[w], job'[w]) /\ job'[w].on = cached
          /\ job'[w].idx = job[w].idx /\ job'[w].entry = job[w].entry
          /\ job'[w].list = job[w].list
      BY <1>1, <1>2, <2>1, <2>2, OnSet
    <2>4. job'[w] \in Jobs /\ SameProduct(job[w], job'[w])
      BY <2>3 DEF SameProduct
    <2>5. Ctl(job'[w], cached', lock' = w)
      BY <1>1, <1>2, <1>3, <2>3, <2>4, RestCtl
    <2>6. Continues(job[w], job'[w])
      BY <1>1, <2>3, <2>4, ContinuesTail
    <2> QED
      BY <1>2, <1>3, <2>3, <2>5, <2>6 DEF Effect, ControlInv, TypeInv
  <1>4. CASE cached = None
    <2>1. job[w] # Idle /\ job[w].op = "boot" /\ job[w].on = None /\ job[w].todo \in BootLists
      BY <1>1, <1>4, OnlyBoot, IdleJob DEF Boots
    <2>2. job[w].todo = << "load" >>
      BY <1>1, <2>1 DEF BootLists
    <2>3. Rest(w) = <<>>
      BY <1>1, <2>2
    <2>4. job' = [job EXCEPT ![w].todo = << "select", "loaded" >> \o Rest(w)]
      BY <1>4 DEF Load
    <2>5. << "select", "loaded" >> \o <<>> = << "select", "loaded" >>
      OBVIOUS
    <2>6. << "select", "loaded" >> \in Seq(Steps)
      <3>1. "select" \in Steps /\ "loaded" \in Steps
        BY DEF Steps, Waits
      <3> QED
        BY <3>1
    <2>7. job' = [job EXCEPT ![w].todo = << "select", "loaded" >>]
      BY <2>3, <2>4, <2>5
    <2>8. /\ job' \in [Workers -> Jobs] /\ \A v \in Workers \ {w} : job'[v] = job[v]
          /\ job'[w].todo = << "select", "loaded" >> /\ SameRequest(job[w], job'[w])
          /\ job'[w].on = job[w].on /\ job'[w].idx = job[w].idx /\ job'[w].entry = job[w].entry
      BY <1>2, <2>6, <2>7, TodoSet
    <2> QED
      BY <1>2, <2>1, <2>8, BootEffect DEF BootLists
  <1> QED
    BY <1>2, <1>3, <1>4

\* The other steps of the load, and of the seed, are taken at boot.
LEMMA SelectEffect ==
    ASSUME ControlInv, NEW w \in Workers, Select(w)
    PROVE  Effect(w) /\ job'[w].todo = << "loaded" >> /\ job'[w].read = row
  <1>1. /\ job[w] \in Jobs /\ Rest(w) = Tail(job[w].todo)
        /\ job[w].todo # <<>> /\ Head(job[w].todo) = "select" /\ job[w].op = "boot"
    BY RestSteps, AtHead DEF Select, At, Of
  <1>2. job[w] # Idle /\ job[w].on = None /\ job[w].todo \in BootLists
    BY <1>1, OnlyBoot, IdleJob DEF Boots
  <1>3. job[w].todo = << "select", "loaded" >>
    BY <1>1, <1>2 DEF BootLists
  <1>4. Rest(w) = << "loaded" >>
    BY <1>1, <1>3
  <1>5. << "loaded" >> \in Seq(Steps)
    BY DEF Steps, Waits
  <1>6. SetsRead(w, << "loaded" >>, row)
    BY <1>4 DEF Select, SetsRead
  <1>7. job \in [Workers -> Jobs] /\ lock' = lock /\ row \in Documents \cup {None}
    BY Zenon DEF Select, ControlInv, TypeInv
  <1>8. /\ job' \in [Workers -> Jobs] /\ \A v \in Workers \ {w} : job'[v] = job[v]
        /\ job'[w].todo = << "loaded" >> /\ job'[w].read = row /\ SameRequest(job[w], job'[w])
        /\ job'[w].on = job[w].on /\ job'[w].idx = job[w].idx /\ job'[w].entry = job[w].entry
    BY <1>5, <1>6, <1>7, ReadSet
  <1> QED
    BY <1>1, <1>2, <1>7, <1>8, BootEffect DEF BootLists

LEMMA LoadedEffect ==
    ASSUME ControlInv, NEW w \in Workers, Loaded(w)
    PROVE  /\ Effect(w) /\ job[w].op = "boot" /\ job[w].read = row /\ cached = None
           /\ \/ /\ row = None /\ job'[w].todo = << "seed", "loaded" >> /\ job'[w].read = None
                 /\ UNCHANGED << doc, cached >>
              \/ /\ row # None /\ doc' = [doc EXCEPT ![w] = row] /\ cached' = w
                 /\ job'[w] = Idle
  <1>1. /\ job[w] \in Jobs /\ Rest(w) = Tail(job[w].todo)
        /\ job[w].todo # <<>> /\ Head(job[w].todo) = "loaded" /\ job[w].op = "boot"
    BY RestSteps, AtHead DEF Loaded, At, Of
  <1>2. /\ job[w] # Idle /\ job[w].on = None /\ job[w].todo \in BootLists /\ cached = None
        /\ job[w].read = row
    BY <1>1, OnlyBoot, IdleJob DEF Boots, Loaded, Doing
  <1>3. job[w].todo = << "loaded" >>
    BY <1>1, <1>2 DEF BootLists
  <1>4. job \in [Workers -> Jobs] /\ lock' = lock
    BY Zenon DEF Loaded, ControlInv, TypeInv
  <1>5. CASE row = None
    <2>1. job' = [job EXCEPT ![w].todo = << "seed" >> \o @] /\ UNCHANGED << doc, cached >>
      BY <1>2, <1>5 DEF Loaded
    <2>2. << "seed" >> \o << "loaded" >> = << "seed", "loaded" >>
      <3>1. "seed" \in Steps /\ "loaded" \in Steps /\ <<>> \in Seq(Steps)
        BY DEF Steps, Waits
      <3>2. << "seed", "loaded" >> \o <<>> = << "seed" >> \o (<< "loaded" >> \o <<>>)
        BY <3>1, TwoCons
      <3>3. << "loaded" >> \o <<>> = << "loaded" >>
        OBVIOUS
      <3>4. << "seed", "loaded" >> \o <<>> = << "seed", "loaded" >>
        OBVIOUS
      <3> QED
        BY <3>2, <3>3, <3>4, Zenon
    <2>3. << "seed", "loaded" >> \in Seq(Steps)
      <3>1. "seed" \in Steps /\ "loaded" \in Steps
        BY DEF Steps, Waits
      <3> QED
        BY <3>1
    <2>4. job' = [job EXCEPT ![w].todo = << "seed", "loaded" >>]
      BY <1>3, <2>1, <2>2
    <2>5. /\ job' \in [Workers -> Jobs] /\ \A v \in Workers \ {w} : job'[v] = job[v]
          /\ job'[w].todo = << "seed", "loaded" >> /\ SameRequest(job[w], job'[w])
          /\ job'[w].on = job[w].on /\ job'[w].idx = job[w].idx
          /\ job'[w].entry = job[w].entry /\ job'[w].read = job[w].read
      BY <1>4, <2>3, <2>4, TodoSet
    <2>6. Effect(w)
      BY <1>1, <1>2, <1>4, <2>5, BootEffect DEF BootLists
    <2> QED
      BY <1>1, <1>2, <1>5, <2>1, <2>5, <2>6
  <1>6. CASE row # None
    <2>1. doc' = [doc EXCEPT ![w] = row] /\ cached' = w
      BY <1>2, <1>6 DEF Loaded
    <2>2. job' = [job EXCEPT ![w] = Idle]
      <3>1. job' = [job EXCEPT ![w] = IF job[w].op = "boot" THEN Idle
                         ELSE [job[w] EXCEPT !.todo = Rest(w), !.on = w, !.read = None]]
        BY <1>2, <1>6 DEF Loaded
      <3> QED
        BY <3>1, <1>1
    <2>3. /\ job' \in [Workers -> Jobs] /\ job'[w] = Idle
          /\ \A v \in Workers \ {w} : job'[v] = job[v]
      BY <1>4, <2>2, IdleJob
    <2>4. Effect(w)
      BY <1>4, <2>3, IdleCtl DEF Effect, ControlInv, TypeInv
    <2> QED
      BY <1>1, <1>2, <1>6, <2>1, <2>3, <2>4
  <1> QED
    BY <1>5, <1>6

LEMMA SeedEffect ==
    ASSUME ControlInv, NEW w \in Workers, SeedInitial(w)
    PROVE  /\ Effect(w) /\ row = None /\ row' = FirstDocument /\ job[w].op = "boot"
           /\ cached = None /\ job'[w].todo = << "loaded" >> /\ job'[w].read = FirstDocument
  <1>1. /\ job[w] \in Jobs /\ Rest(w) = Tail(job[w].todo)
        /\ job[w].todo # <<>> /\ Head(job[w].todo) = "seed" /\ job[w].op = "boot"
    BY RestSteps, AtHead DEF SeedInitial, At, Of
  <1>2. /\ job[w] # Idle /\ job[w].on = None /\ job[w].todo \in BootLists /\ cached = None
        /\ row = None
    BY <1>1, OnlyBoot, IdleJob DEF Boots, SeedInitial, Doing
  <1>3. job[w].todo = << "seed", "loaded" >>
    BY <1>1, <1>2 DEF BootLists
  <1>4. Rest(w) = << "loaded" >>
    BY <1>1, <1>3
  <1>5. << "loaded" >> \in Seq(Steps) /\ FirstDocument \in Documents
    BY CatalogueConstants DEF Steps, Waits, FirstDocument, Documents
  <1>6. /\ SetsRead(w, << "loaded" >>, FirstDocument)
        /\ row' = FirstDocument
    BY <1>2, <1>4 DEF SeedInitial, SetsRead
  <1>7. job \in [Workers -> Jobs] /\ lock' = lock
    BY Zenon DEF SeedInitial, ControlInv, TypeInv
  <1>8. /\ job' \in [Workers -> Jobs] /\ \A v \in Workers \ {w} : job'[v] = job[v]
        /\ job'[w].todo = << "loaded" >> /\ job'[w].read = FirstDocument
        /\ SameRequest(job[w], job'[w])
        /\ job'[w].on = job[w].on /\ job'[w].idx = job[w].idx /\ job'[w].entry = job[w].entry
    <2>1. FirstDocument \in Documents \cup {None}
      BY <1>5
    <2> QED
      BY <1>5, <1>6, <1>7, <2>1, ReadSet, Zenon
  <1> QED
    BY <1>1, <1>2, <1>6, <1>7, <1>8, BootEffect DEF BootLists

\* The steps that ask for the types, and those that take a product.
LEMMA AskEffect ==
    ASSUME ControlInv, NEW w \in Workers, ListTypes(w) \/ AskTypes(w)
    PROVE  Effect(w) /\ cached' = cached
  <1>1. /\ job[w] \in Jobs /\ Rest(w) \in Seq(Steps) /\ Rest(w) = Tail(job[w].todo)
        /\ Ctl(job[w], cached, lock = w) /\ job[w].todo # <<>>
        /\ Head(job[w].todo) \in {"types", "ask"}
    BY RestSteps DEF ListTypes, AskTypes, At
  <1>2. /\ cached' = cached /\ job \in [Workers -> Jobs] /\ types \in Table
        /\ known \in Table \cup {None}
    BY Zenon DEF ListTypes, AskTypes, ControlInv, TypeInv
  <1>3. ASSUME NEW l \in Table, SetsList(w, Rest(w), l), lock' = lock
        PROVE  Effect(w)
    <2>1. /\ job' \in [Workers -> Jobs] /\ \A v \in Workers \ {w} : job'[v] = job[v]
          /\ job'[w].todo = Rest(w) /\ job'[w].list = l /\ SameRequest(job[w], job'[w])
          /\ job'[w].on = job[w].on /\ job'[w].idx = job[w].idx
          /\ job'[w].entry = job[w].entry
      BY <1>1, <1>2, <1>3, ListSet
    <2>2. job'[w] \in Jobs /\ SameProduct(job[w], job'[w])
      BY <2>1 DEF SameProduct
    <2>3. Ctl(job'[w], cached', lock' = w)
      BY <1>1, <1>2, <1>3, <2>1, <2>2, RestCtl
    <2>4. Continues(job[w], job'[w])
      BY <1>1, <2>1, <2>2, ContinuesTail
    <2> QED
      BY <1>3, <2>1, <2>3, <2>4 DEF Effect, ControlInv, TypeInv
  <1>4. CASE AskTypes(w)
    <2>1. SetsList(w, Rest(w), types) /\ lock' = lock
      BY <1>4 DEF AskTypes, SetsList
    <2> QED
      BY <1>2, <1>3, <2>1
  <1>5. CASE ListTypes(w) /\ known # None /\ Rest(w) # <<>>
    <2>1. SetsList(w, Rest(w), known) /\ lock' = lock
      BY <1>5 DEF ListTypes, SetsList
    <2> QED
      BY <1>2, <1>3, <1>5, <2>1
  <1>6. CASE ListTypes(w) /\ known # None /\ Rest(w) = <<>>
    BY <1>2, <1>6, EndsEffect DEF ListTypes
  <1>7. CASE ListTypes(w) /\ known = None
    <2> DEFINE t == << "ask" >> \o (<< "told" >> \o Rest(w))
    <2>1. "ask" \in Steps /\ "told" \in Steps /\ Head(job[w].todo) = "types"
      BY <1>7 DEF Steps, Waits, ListTypes, At
    <2>2. t \in Seq(Steps)
      <3>1. << "told" >> \o Rest(w) \in Seq(Steps)
        BY <1>1, <2>1, ConsOf
      <3> QED
        BY <2>1, <3>1, ConsOf
    <2>3. << "ask", "told" >> \o Rest(w) = t
      BY <1>1, <2>1, TwoCons
    <2>4. job' = [job EXCEPT ![w].todo = t] /\ lock' = lock
      BY <1>7, <2>3 DEF ListTypes, Turns
    <2> HIDE DEF t
    <2>5. /\ job' \in [Workers -> Jobs] /\ \A v \in Workers \ {w} : job'[v] = job[v]
          /\ job'[w].todo = t /\ SameRequest(job[w], job'[w]) /\ job'[w].on = job[w].on
          /\ job'[w].idx = job[w].idx /\ job'[w].entry = job[w].entry
      BY <1>2, <2>2, <2>4, TodoSet
    <2>6. /\ job'[w] \in Jobs /\ SameProduct(job[w], job'[w])
          /\ job'[w].todo = << "ask" >> \o (<< "told" >> \o Tail(job[w].todo))
      BY <1>1, <2>5 DEF SameProduct, t
    <2>7. Ctl(job'[w], cached', lock' = w)
      BY <1>1, <1>2, <2>1, <2>4, <2>5, <2>6, AskCtl
    <2>8. Continues(job[w], job'[w])
      BY <1>1, <2>1, <2>5, <2>6, ContinuesTwo
    <2> QED
      BY <1>2, <2>4, <2>5, <2>7, <2>8 DEF Effect, ControlInv, TypeInv
  <1> QED
    BY <1>2, <1>4, <1>5, <1>6, <1>7

\* The document a handler works on is a document.
LEMMA MineIs ==
    ASSUME ControlInv, NEW w \in Workers, job[w].on = cached, cached # None
    PROVE  /\ Mine(w) = doc[cached] /\ Mine(w) \in Documents
           /\ ProductsOf(w) = doc[cached].products /\ ProductsOf(w) \in Seq(Entries)
           /\ cached \in Workers
  BY DEF ControlInv, TypeInv, Mine, ProductsOf, Documents

\* The copy of a product that an edit starts from.
LEMMA FindEffect ==
    ASSUME ControlInv, NEW w \in Workers, FindProduct(w)
    PROVE  Effect(w) /\ cached' = cached
  <1> DEFINE list == ProductsOf(w)
             i == Index(list, job[w].product)
             T(e) == (IF e.type = None THEN <<>> ELSE << "types", "resolve" >>) \o Rest(w)
  <1>1. /\ job[w] \in Jobs /\ Rest(w) \in Seq(Steps) /\ Rest(w) = Tail(job[w].todo)
        /\ Ctl(job[w], cached, lock = w) /\ job[w].todo # <<>>
        /\ Head(job[w].todo) = "find"
    BY RestSteps DEF FindProduct, At
  <1>2. job[w].on = cached /\ cached # None
    BY AtHead DEF Uses, FindProduct
  <1>3. cached' = cached /\ job \in [Workers -> Jobs]
    BY Zenon DEF FindProduct, ControlInv, TypeInv
  <1>4. list \in Seq(Entries) /\ list = doc[cached].products
    BY <1>2, MineIs
  <1>5. CASE i = 0
    <2>1. Ends(w)
      BY <1>5 DEF FindProduct
    <2> QED
      BY <1>3, <2>1, EndsEffect
  <1>6. CASE i # 0
    <2>1. i \in DOMAIN list
      BY <1>4, <1>6, IndexFinds
    <2>2. PICK n \in Entered \cup {list[i].stock} :
              SetsFound(w, i, Merged(list[i], job[w], n), T(Merged(list[i], job[w], n)))
              /\ lock' = lock
      BY <1>6 DEF FindProduct, SetsFound
    <2>3. list[i] \in Entries /\ i \in Nat
      BY <1>4, <2>1
    <2> DEFINE e == Merged(list[i], job[w], n)
               t == T(e)
    <2> HIDE DEF i, list
    <2>4. e \in Entries
      <3>1. job[w].type \in Types \cup {None} /\ list[i].type \in Types \cup {None}
            /\ list[i].stock \in Nat
        BY <1>1, <2>3 DEF Jobs, Entries
      <3>2. (IF job[w].type = None THEN list[i].type ELSE job[w].type) \in Types \cup {None}
        BY <3>1
      <3>3. n \in Nat
        BY <2>2, <3>1, CatalogueConstants
      <3> QED
        BY <2>3, <3>2, <3>3 DEF Entries, Merged
    <2>a. SetsFound(w, i, e, t) /\ lock' = lock
      BY <2>2, Zenon
    <2> HIDE DEF e
    <2>5. "types" \in Steps /\ "resolve" \in Steps
      BY DEF Steps
    <2>6. t = IF e.type = None THEN Rest(w) ELSE << "types" >> \o (<< "resolve" >> \o Rest(w))
      BY <1>1, <2>5, TwoCons
    <2>7. t \in Seq(Steps)
      <3>1. << "resolve" >> \o Rest(w) \in Seq(Steps)
        BY <1>1, <2>5, ConsOf
      <3>2. << "types" >> \o (<< "resolve" >> \o Rest(w)) \in Seq(Steps)
        BY <2>5, <3>1, ConsOf
      <3> QED
        BY <1>1, <2>6, <3>2
    <2> HIDE DEF t
    <2>8. /\ job' \in [Workers -> Jobs] /\ \A v \in Workers \ {w} : job'[v] = job[v]
          /\ job'[w].todo = t /\ job'[w].entry = e /\ job'[w].idx = i
          /\ SameRequest(job[w], job'[w]) /\ job'[w].on = job[w].on
          /\ job'[w].list = job[w].list /\ job'[w] \in Jobs
      BY <1>3, <2>a, <2>3, <2>4, <2>7, FoundSet
    <2>9. Ctl(job'[w], cached', lock' = w)
      <3>1. \/ job'[w].todo = Tail(job[w].todo)
            \/ /\ job'[w].entry.type # None
               /\ job'[w].todo = << "types" >> \o (<< "resolve" >> \o Tail(job[w].todo))
        BY <1>1, <2>6, <2>8
      <3> QED
        BY <1>1, <1>3, <2>a, <2>4, <2>8, <3>1, FindCtl
    <2>10. Continues(job[w], job'[w])
      <3>1. CASE e.type = None
        <4>1. job'[w].todo = Tail(job[w].todo) /\ job[w].todo \in Seq(Steps)
          BY <1>1, <2>6, <2>8, <3>1 DEF Jobs
        <4>2. ASSUME NEW a, NEW b, a # Head(job[w].todo), Before(job[w].todo, {a}, {b})
              PROVE  Before(job'[w].todo, {a}, {b})
          <5>1. Head(job[w].todo) \notin {a}
            BY <4>2
          <5> QED
            BY <1>1, <4>1, <4>2, <5>1, BeforeTail
        <4> QED
          BY <1>1, <2>8, <4>2 DEF Continues
      <3>2. CASE e.type # None
        <4>1. job'[w].todo = << "types" >> \o (<< "resolve" >> \o Tail(job[w].todo))
          BY <1>1, <2>6, <2>8, <3>2
        <4> QED
          BY <1>1, <2>5, <2>8, <4>1, ContinuesTwo
      <3> QED
        BY <3>1, <3>2
    <2>11. Effect(w)
      BY <1>3, <2>a, <2>8, <2>9, <2>10 DEF Effect, ControlInv, TypeInv
    <2> QED
      BY <1>3, <2>11
  <1> QED
    BY <1>5, <1>6

LEMMA ApplyEffect ==
    ASSUME ControlInv, NEW w \in Workers, ApplyType(w)
    PROVE  Effect(w) /\ cached' = cached
  <1> DEFINE name == job[w].list[job[w].entry.type]
  <1>1. /\ job[w] \in Jobs /\ Rest(w) \in Seq(Steps) /\ Rest(w) = Tail(job[w].todo)
        /\ Ctl(job[w], cached, lock = w) /\ job[w].todo # <<>>
        /\ Head(job[w].todo) = "resolve"
    BY RestSteps DEF ApplyType, At
  <1>2. job[w].list \in Table /\ job[w].entry \in Entries /\ job[w].entry.type \in Types
    BY AtHead DEF Reads, ApplyType
  <1>3. cached' = cached /\ job \in [Workers -> Jobs]
    BY Zenon DEF ApplyType, ControlInv, TypeInv
  <1>4. CASE name = None
    <2>1. Ends(w)
      BY <1>4 DEF ApplyType
    <2> QED
      BY <1>3, <2>1, EndsEffect
  <1>5. CASE name # None
    <2>1. name \in Names
      BY <1>2, <1>5 DEF Table
    <2>2. SetsSub(w, name, Rest(w)) /\ lock' = lock
      BY <1>5 DEF ApplyType, SetsSub
    <2> HIDE DEF name
    <2>3. /\ job' \in [Workers -> Jobs] /\ \A v \in Workers \ {w} : job'[v] = job[v]
          /\ job'[w].todo = Rest(w) /\ SameProduct(job[w], job'[w]) /\ job'[w].idx = job[w].idx
          /\ SameRequest(job[w], job'[w]) /\ job'[w].on = job[w].on
          /\ job'[w].list = job[w].list /\ job'[w] \in Jobs
      BY <1>1, <1>2, <1>3, <2>1, <2>2, SubSet
    <2>4. Ctl(job'[w], cached', lock' = w)
      BY <1>1, <1>3, <2>2, <2>3, RestCtl
    <2>5. Continues(job[w], job'[w])
      BY <1>1, <2>3, ContinuesTail
    <2> QED
      BY <1>3, <2>2, <2>3, <2>4, <2>5 DEF Effect, ControlInv, TypeInv
  <1> QED
    BY <1>4, <1>5

LEMMA CopyEffect ==
    ASSUME ControlInv, NEW w \in Workers, CopyProduct(w)
    PROVE  Effect(w) /\ cached' = cached
  <1> DEFINE list == ProductsOf(w)
             i == Index(list, job[w].product)
             e == [list[i] EXCEPT !.id = job[w].to]
  <1>1. /\ job[w] \in Jobs /\ Rest(w) \in Seq(Steps) /\ Rest(w) = Tail(job[w].todo)
        /\ Ctl(job[w], cached, lock = w) /\ job[w].todo # <<>>
        /\ Head(job[w].todo) = "copy"
    BY RestSteps DEF CopyProduct, At
  <1>2. job[w].on = cached /\ cached # None /\ job[w].to \in Products
    <2>1. job[w].op = "duplicate" /\ Asked(job[w])
      BY AtHead DEF CopyProduct, Of
    <2> QED
      BY <2>1, AtHead DEF Uses, CopyProduct, Asked, Products
  <1>3. cached' = cached /\ job \in [Workers -> Jobs]
    BY Zenon DEF CopyProduct, ControlInv, TypeInv
  <1>4. list \in Seq(Entries)
    BY <1>2, MineIs
  <1>5. CASE i = 0
    <2>1. Ends(w)
      BY <1>5 DEF CopyProduct
    <2> QED
      BY <1>3, <2>1, EndsEffect
  <1>6. CASE i # 0
    <2>1. list[i] \in Entries
      BY <1>4, <1>6, IndexFinds
    <2>2. SetsEntry(w, Rest(w), e) /\ lock' = lock
      BY <1>6 DEF CopyProduct, SetsEntry
    <2> HIDE DEF i, list
    <2>3. e \in Entries /\ e.id = job[w].to
      BY <1>2, <2>1 DEF Entries
    <2> HIDE DEF e
    <2>4. /\ job' \in [Workers -> Jobs] /\ \A v \in Workers \ {w} : job'[v] = job[v]
          /\ job'[w].todo = Rest(w) /\ job'[w].entry = e
          /\ SameRequest(job[w], job'[w]) /\ job'[w].on = job[w].on
          /\ job'[w].list = job[w].list /\ job'[w] \in Jobs
      BY <1>1, <1>3, <2>2, <2>3, EntrySet
    <2>5. Ctl(job'[w], cached', lock' = w)
      BY <1>1, <1>3, <2>2, <2>3, <2>4, CopyCtl
    <2>6. Continues(job[w], job'[w])
      <3>1. job[w].todo \in Seq(Steps)
        BY <1>1 DEF Jobs
      <3>2. ASSUME NEW a, NEW b, a # Head(job[w].todo), Before(job[w].todo, {a}, {b})
            PROVE  Before(job'[w].todo, {a}, {b})
        <4>1. Head(job[w].todo) \notin {a}
          BY <3>2
        <4> QED
          BY <1>1, <2>4, <3>1, <3>2, <4>1, BeforeTail
      <3> QED
        BY <1>1, <2>4, <3>2 DEF Continues
    <2> QED
      BY <1>3, <2>2, <2>4, <2>5, <2>6 DEF Effect, ControlInv, TypeInv
  <1> QED
    BY <1>5, <1>6

LEMMA LockEffect ==
    ASSUME ControlInv, NEW w \in Workers, Lock(w)
    PROVE  Effect(w) /\ cached' = cached /\ lock = None /\ lock' = w
  <1>1. /\ job[w] \in Jobs /\ Rest(w) \in Seq(Steps) /\ Rest(w) = Tail(job[w].todo)
        /\ Ctl(job[w], cached, lock = w) /\ job[w].todo # <<>>
        /\ Head(job[w].todo) = "lock"
    BY RestSteps DEF Lock, At
  <1>2. /\ cached' = cached /\ job \in [Workers -> Jobs] /\ lock = None /\ lock' = w
        /\ job' = [job EXCEPT ![w].todo = Rest(w)] /\ None \notin Workers
    BY CatalogueConstants DEF Lock, ControlInv, TypeInv
  <1>3. /\ job' \in [Workers -> Jobs] /\ \A v \in Workers \ {w} : job'[v] = job[v]
        /\ job'[w].todo = Rest(w) /\ SameRequest(job[w], job'[w]) /\ job'[w].on = job[w].on
        /\ job'[w].idx = job[w].idx /\ job'[w].entry = job[w].entry
        /\ job'[w].list = job[w].list
    BY <1>1, <1>2, TodoSet
  <1>4. job'[w] \in Jobs /\ SameProduct(job[w], job'[w])
    BY <1>3 DEF SameProduct
  <1>5. Ctl(job'[w], cached', lock' = w)
    <2>1. Shape(job'[w])
      BY <1>1, <1>3, <1>4, RestShape DEF Ctl, SameRequest
    <2>2. Serves(job'[w], cached)
      BY <1>1, <1>3, <1>4, RestServes DEF Ctl
    <2>3. Knows(job'[w])
      BY <1>1, <1>3, <1>4, RestKnows DEF Ctl
    <2> QED
      BY <1>1, <1>2, <1>3, <2>1, <2>2, <2>3 DEF Ctl, Asked, Locks, SameRequest
  <1>6. Continues(job[w], job'[w])
    BY <1>1, <1>3, <1>4, ContinuesTail
  <1> QED
    BY <1>2, <1>3, <1>5, <1>6 DEF Effect, ControlInv, TypeInv

\* Every step, and every failure.
LEMMA StepEffect ==
    ASSUME ControlInv, NEW w \in Workers, Step(w) \/ Fails(w)
    PROVE  /\ Effect(w) /\ job[w].todo # <<>>
           /\ cached' = cached \/ (Loaded(w) /\ row # None)
  <1>1. CASE Load(w) \/ Select(w) \/ Loaded(w) \/ SeedInitial(w)
    <2>1. ASSUME Load(w) PROVE Effect(w) /\ cached' = cached /\ job[w].todo # <<>>
      BY <2>1, LoadEffect DEF Load, At
    <2>2. ASSUME Select(w) PROVE Effect(w) /\ cached' = cached /\ job[w].todo # <<>>
      <3>1. cached' = cached /\ job[w].todo # <<>>
        BY <2>2 DEF Select, At
      <3> QED
        BY <2>2, <3>1, SelectEffect
    <2>3. ASSUME Loaded(w)
          PROVE  Effect(w) /\ (cached' = cached \/ row # None) /\ job[w].todo # <<>>
      <3>1. job[w].todo # <<>>
        BY <2>3 DEF Loaded, At
      <3> QED
        BY <2>3, <3>1, LoadedEffect
    <2>4. ASSUME SeedInitial(w) PROVE Effect(w) /\ cached' = cached /\ job[w].todo # <<>>
      <3>1. cached' = cached /\ job[w].todo # <<>>
        BY <2>4 DEF SeedInitial, At
      <3> QED
        BY <2>4, <3>1, SeedEffect
    <2> QED
      BY <1>1, <2>1, <2>2, <2>3, <2>4
  <1>2. CASE Save(w) \/ CountStored(w) \/ PinProducts(w) \/ MoveProducts(w)
    <2>1. job[w].todo # <<>>
      BY <1>2, Zenon DEF Save, CountStored, PinProducts, MoveProducts, At
    <2> QED
      BY <1>2, <2>1, SaveEffect
  <1>3. CASE \/ Saved(w) \/ TypesTold(w) \/ CheckName(w) \/ InsertType(w) \/ UpdateType(w)
             \/ CheckUnused(w) \/ DeleteType(w) \/ ForgetTypes(w)
             \/ PutProduct(w) \/ PushProduct(w) \/ DropProduct(w) \/ EditPage(w)
             \/ TakeStock(w) \/ PlaceOrder(w) \/ ClaimRestore(w) \/ RestockItems(w)
    <2>1. cached' = cached /\ job[w].todo # <<>>
      BY <1>3, Zenon DEF Saved, TypesTold, CheckName, InsertType, UpdateType, CheckUnused,
           DeleteType, ForgetTypes, PutProduct, PushProduct, DropProduct, EditPage, TakeStock,
           PlaceOrder, ClaimRestore, RestockItems, store, At
    <2> QED
      BY <1>3, <2>1, PlainEffect
  <1>4. CASE ListTypes(w) \/ AskTypes(w)
    <2>1. job[w].todo # <<>>
      BY <1>4, Zenon DEF ListTypes, AskTypes, At
    <2> QED
      BY <1>4, <2>1, AskEffect
  <1>5. CASE FindProduct(w) \/ ApplyType(w) \/ CopyProduct(w) \/ Lock(w)
    <2>1. job[w].todo # <<>>
      BY <1>5, Zenon DEF FindProduct, ApplyType, CopyProduct, Lock, At
    <2> QED
      BY <1>5, <2>1, FindEffect, ApplyEffect, CopyEffect, LockEffect
  <1>6. CASE Fails(w)
    <2>1. Ends(w) /\ cached' = cached /\ job[w].todo # <<>>
      BY <1>6, Zenon DEF Fails
    <2> QED
      BY <2>1, EndsEffect
  <1> QED
    BY <1>1, <1>2, <1>3, <1>4, <1>5, <1>6 DEF Step

-----------------------------------------------------------------------------
(* The requests.                                                            *)

Planned(k) ==
    /\ k \in Jobs /\ Plan(k.op, k.todo) /\ Asked(k) /\ k.on = None
    /\ k.op # "boot" /\ k.op # "none"
    /\ k.op = "create" => k.entry \in Entries /\ k.entry.id \in Fresh /\ k.entry.type \in Types
    /\ k.op = "checkout" => k.todo = << "lock", "load", "take", "save", "place" >>
    /\ k.op = "cancel" => k.todo = << "lock", "claim", "load", "restock", "save" >>

LEMMA CheckoutJob ==
    ASSUME NEW o \in Orders
    PROVE  Planned([Idle EXCEPT !.op = "checkout", !.order = o,
                      !.todo = << "lock", "load", "take", "save", "place" >>])
  <1> DEFINE steps == << "lock", "load", "take", "save", "place" >>
             k == [Idle EXCEPT !.op = "checkout", !.order = o,
                      !.todo = steps]
  <1>1. Plan("checkout", steps)
    BY CustomerPlans
  <1> HIDE DEF steps
  <1>2. steps \in Seq(Steps)
    BY <1>1 DEF Plan
  <1>3. k \in Jobs /\ k.op = "checkout" /\ k.todo = steps /\ k.on = None
        /\ k.order = o
    BY <1>2 DEF Jobs, Ops, Idle
  <1> HIDE DEF k
  <1>4. Planned(k)
    BY <1>1, <1>3 DEF Planned, Asked, steps
  <1> QED
    BY <1>4 DEF k, steps

LEMMA CancelJob ==
    ASSUME NEW o \in Orders
    PROVE  Planned([Idle EXCEPT !.op = "cancel", !.order = o,
                      !.todo = << "lock", "claim", "load", "restock", "save" >>])
  <1> DEFINE steps == << "lock", "claim", "load", "restock", "save" >>
             k == [Idle EXCEPT !.op = "cancel", !.order = o,
                      !.todo = steps]
  <1>1. Plan("cancel", steps)
    BY CustomerPlans
  <1> HIDE DEF steps
  <1>2. steps \in Seq(Steps)
    BY <1>1 DEF Plan
  <1>3. k \in Jobs /\ k.op = "cancel" /\ k.todo = steps /\ k.on = None
        /\ k.order = o
    BY <1>2 DEF Jobs, Ops, Idle
  <1> HIDE DEF k
  <1>4. Planned(k)
    BY <1>1, <1>3 DEF Planned, Asked, steps
  <1> QED
    BY <1>4 DEF k, steps

LEMMA ContentJob ==
    Planned([Idle EXCEPT !.op = "content",
                      !.todo = << "load", "types" >>])
  <1> DEFINE steps == << "load", "types" >>
             k == [Idle EXCEPT !.op = "content",
                      !.todo = steps]
  <1>1. Plan("content", steps)
    BY CustomerPlans
  <1> HIDE DEF steps
  <1>2. steps \in Seq(Steps)
    BY <1>1 DEF Plan
  <1>3. k \in Jobs /\ k.op = "content" /\ k.todo = steps /\ k.on = None
    BY <1>2 DEF Jobs, Ops, Idle
  <1> HIDE DEF k
  <1>4. Planned(k)
    BY <1>1, <1>3 DEF Planned, Asked
  <1> QED
    BY <1>4 DEF k, steps

LEMMA UpdateJob ==
    ASSUME NEW p \in Products, NEW t \in Types \cup {None}
    PROVE  Planned([Idle EXCEPT !.op = "update", !.product = p, !.type = t,
                      !.todo = << "load", "find", "put", "save" >> \o Audit])
  <1> DEFINE steps == << "load", "find", "put", "save" >> \o Audit
             k == [Idle EXCEPT !.op = "update", !.product = p, !.type = t,
                      !.todo = steps]
  <1>1. Plan("update", steps)
    BY ProductPlans, AuditPlan
  <1> HIDE DEF steps
  <1>2. steps \in Seq(Steps)
    BY <1>1 DEF Plan
  <1>3. k \in Jobs /\ k.op = "update" /\ k.todo = steps /\ k.on = None
    BY <1>2 DEF Jobs, Ops, Idle
  <1> HIDE DEF k
  <1>4. Planned(k)
    BY <1>1, <1>3 DEF Planned, Asked
  <1> QED
    BY <1>4 DEF k, steps

LEMMA CreateJob ==
    ASSUME NEW p \in Fresh, NEW t \in Types
    PROVE  Planned([Idle EXCEPT !.op = "create", !.entry = [id |-> p, stock |-> 1, type |-> t, sub |-> None],
                      !.todo = << "types", "resolve", "load", "push", "save" >> \o Audit])
  <1> DEFINE steps == << "types", "resolve", "load", "push", "save" >> \o Audit
             k == [Idle EXCEPT !.op = "create", !.entry = [id |-> p, stock |-> 1, type |-> t, sub |-> None],
                      !.todo = steps]
  <1>1. Plan("create", steps)
    BY ProductPlans, AuditPlan
  <1> HIDE DEF steps
  <1>2. steps \in Seq(Steps)
    BY <1>1 DEF Plan
  <1>3. k \in Jobs /\ k.op = "create" /\ k.todo = steps /\ k.on = None
        /\ k.entry \in Entries /\ k.entry.id = p /\ k.entry.type = t
    BY <1>2 DEF Jobs, Ops, Idle, Entries, Products
  <1> HIDE DEF k
  <1>4. Planned(k)
    BY <1>1, <1>3 DEF Planned, Asked
  <1> QED
    BY <1>4 DEF k, steps

LEMMA DuplicateJob ==
    ASSUME NEW p \in Products, NEW q \in Fresh
    PROVE  Planned([Idle EXCEPT !.op = "duplicate", !.product = p, !.to = q,
                      !.todo = << "load", "copy", "push", "save" >> \o Audit])
  <1> DEFINE steps == << "load", "copy", "push", "save" >> \o Audit
             k == [Idle EXCEPT !.op = "duplicate", !.product = p, !.to = q,
                      !.todo = steps]
  <1>1. Plan("duplicate", steps)
    BY ProductPlans, AuditPlan
  <1> HIDE DEF steps
  <1>2. steps \in Seq(Steps)
    BY <1>1 DEF Plan
  <1>3. k \in Jobs /\ k.op = "duplicate" /\ k.todo = steps /\ k.on = None
        /\ k.to = q
    BY <1>2 DEF Jobs, Ops, Idle, Entries, Products
  <1> HIDE DEF k
  <1>4. Planned(k)
    BY <1>1, <1>3 DEF Planned, Asked
  <1> QED
    BY <1>4 DEF k, steps

LEMMA RemoveJob ==
    ASSUME NEW p \in Products
    PROVE  Planned([Idle EXCEPT !.op = "remove", !.product = p,
                      !.todo = << "load", "drop", "save" >> \o Audit])
  <1> DEFINE steps == << "load", "drop", "save" >> \o Audit
             k == [Idle EXCEPT !.op = "remove", !.product = p,
                      !.todo = steps]
  <1>1. Plan("remove", steps)
    BY ProductPlans, AuditPlan
  <1> HIDE DEF steps
  <1>2. steps \in Seq(Steps)
    BY <1>1 DEF Plan
  <1>3. k \in Jobs /\ k.op = "remove" /\ k.todo = steps /\ k.on = None
    BY <1>2 DEF Jobs, Ops, Idle
  <1> HIDE DEF k
  <1>4. Planned(k)
    BY <1>1, <1>3 DEF Planned, Asked
  <1> QED
    BY <1>4 DEF k, steps

LEMMA PageJob ==
    Planned([Idle EXCEPT !.op = "page",
                      !.todo = << "load", "page", "save" >> \o Audit])
  <1> DEFINE steps == << "load", "page", "save" >> \o Audit
             k == [Idle EXCEPT !.op = "page",
                      !.todo = steps]
  <1>1. Plan("page", steps)
    BY ProductPlans, AuditPlan
  <1> HIDE DEF steps
  <1>2. steps \in Seq(Steps)
    BY <1>1 DEF Plan
  <1>3. k \in Jobs /\ k.op = "page" /\ k.todo = steps /\ k.on = None
    BY <1>2 DEF Jobs, Ops, Idle
  <1> HIDE DEF k
  <1>4. Planned(k)
    BY <1>1, <1>3 DEF Planned, Asked
  <1> QED
    BY <1>4 DEF k, steps

LEMMA AddTypeJob ==
    ASSUME NEW t \in Types, NEW n \in Names
    PROVE  Planned([Idle EXCEPT !.op = "addType", !.type = t, !.to = n,
                      !.todo = << "types", "name", "insert", "forget" >> \o Audit])
  <1> DEFINE steps == << "types", "name", "insert", "forget" >> \o Audit
             k == [Idle EXCEPT !.op = "addType", !.type = t, !.to = n,
                      !.todo = steps]
  <1>1. Plan("addType", steps)
    BY TypePlans, AuditPlan
  <1> HIDE DEF steps
  <1>2. steps \in Seq(Steps)
    BY <1>1 DEF Plan
  <1>3. k \in Jobs /\ k.op = "addType" /\ k.todo = steps /\ k.on = None
        /\ k.type = t /\ k.to = n
    BY <1>2 DEF Jobs, Ops, Idle
  <1> HIDE DEF k
  <1>4. Planned(k)
    BY <1>1, <1>3 DEF Planned, Asked
  <1> QED
    BY <1>4 DEF k, steps

LEMMA RenameJob ==
    ASSUME NEW t \in Types, NEW n \in Names
    PROVE  Planned([Idle EXCEPT !.op = "rename", !.type = t, !.to = n,
                      !.todo = << "load", "types", "name", "update", "pin" >> \o Audit])
  <1> DEFINE steps == << "load", "types", "name", "update", "pin" >> \o Audit
             k == [Idle EXCEPT !.op = "rename", !.type = t, !.to = n,
                      !.todo = steps]
  <1>1. Plan("rename", steps)
    BY TypePlans, AuditPlan
  <1> HIDE DEF steps
  <1>2. steps \in Seq(Steps)
    BY <1>1 DEF Plan
  <1>3. k \in Jobs /\ k.op = "rename" /\ k.todo = steps /\ k.on = None
        /\ k.type = t /\ k.to = n
    BY <1>2 DEF Jobs, Ops, Idle
  <1> HIDE DEF k
  <1>4. Planned(k)
    BY <1>1, <1>3 DEF Planned, Asked
  <1> QED
    BY <1>4 DEF k, steps

LEMMA RemoveTypeJob ==
    ASSUME NEW t \in Types
    PROVE  Planned([Idle EXCEPT !.op = "removeType", !.type = t,
                      !.todo = << "load", "types", "unused", "delete", "forget" >> \o Audit])
  <1> DEFINE steps == << "load", "types", "unused", "delete", "forget" >> \o Audit
             k == [Idle EXCEPT !.op = "removeType", !.type = t,
                      !.todo = steps]
  <1>1. Plan("removeType", steps)
    BY TypePlans, AuditPlan
  <1> HIDE DEF steps
  <1>2. steps \in Seq(Steps)
    BY <1>1 DEF Plan
  <1>3. k \in Jobs /\ k.op = "removeType" /\ k.todo = steps /\ k.on = None
        /\ k.type = t
    BY <1>2 DEF Jobs, Ops, Idle
  <1> HIDE DEF k
  <1>4. Planned(k)
    BY <1>1, <1>3 DEF Planned, Asked
  <1> QED
    BY <1>4 DEF k, steps

LEMMA ReassignJob ==
    ASSUME NEW t \in Types, NEW u \in Types, NEW after \in BOOLEAN
    PROVE  Planned([Idle EXCEPT !.op = "reassign", !.type = t, !.to = u,
                      !.todo = << "types", "load", "move" >>
                               \o (IF after THEN << "types", "unused", "delete", "forget" >> ELSE <<>>)
                               \o Audit])
  <1> DEFINE steps == << "types", "load", "move" >>
                      \o (IF after THEN << "types", "unused", "delete", "forget" >> ELSE <<>>)
                      \o Audit
             k == [Idle EXCEPT !.op = "reassign", !.type = t, !.to = u, !.todo = steps]
  <1>1. Plan("reassign", steps)
    <2>1. Plan("reassign", << "types", "load", "move" >>
                 \o (IF after THEN << "types", "unused", "delete", "forget" >> ELSE <<>>))
      BY TypePlans, Zenon
    <2> QED
      BY <2>1, AuditPlan
  <1> HIDE DEF steps
  <1>2. steps \in Seq(Steps)
    BY <1>1 DEF Plan
  <1>3. k \in Jobs /\ k.op = "reassign" /\ k.todo = steps /\ k.on = None
        /\ k.type = t /\ k.to = u
    BY <1>2 DEF Jobs, Ops, Idle
  <1> HIDE DEF k
  <1>4. Planned(k)
    BY <1>1, <1>3 DEF Planned, Asked
  <1> QED
    BY <1>4 DEF k, steps

LEMMA Requested ==
    ASSUME NEW w \in Workers, Customer(w) \/ Admin(w)
    PROVE  \E k : Planned(k) /\ Begin(w, k)
  <1>1. CASE Customer(w)
    BY <1>1, CheckoutJob, CancelJob, ContentJob, Zenon DEF Customer
  <1>2. CASE Admin(w)
    <2>1. CASE \E p \in Products, t \in Types \cup {None} :
            Begin(w, [Idle EXCEPT !.op = "update", !.product = p, !.type = t,
              !.todo = << "load", "find", "put", "save" >> \o Audit])
      BY <2>1, UpdateJob, Zenon
    <2>2. CASE \E p \in Fresh \ listed, t \in Types :
            Begin(w, [Idle EXCEPT !.op = "create",
              !.entry = [id |-> p, stock |-> 1, type |-> t, sub |-> None],
              !.todo = << "types", "resolve", "load", "push", "save" >> \o Audit])
      BY <2>2, CreateJob, Zenon
    <2>3. CASE \E p \in Products, q \in Fresh \ listed :
            Begin(w, [Idle EXCEPT !.op = "duplicate", !.product = p, !.to = q,
              !.todo = << "load", "copy", "push", "save" >> \o Audit])
      BY <2>3, DuplicateJob, Zenon
    <2>4. CASE \/ \E p \in Products :
                    Begin(w, [Idle EXCEPT !.op = "remove", !.product = p,
                      !.todo = << "load", "drop", "save" >> \o Audit])
               \/ Begin(w, [Idle EXCEPT !.op = "page", !.todo = << "load", "page", "save" >> \o Audit])
      BY <2>4, RemoveJob, PageJob, Zenon
    <2>5. CASE \E t \in Types, n \in Names :
            /\ types[t] = None
            /\ Begin(w, [Idle EXCEPT !.op = "addType", !.type = t, !.to = n,
                 !.todo = << "types", "name", "insert", "forget" >> \o Audit])
      BY <2>5, AddTypeJob, Zenon
    <2>6. CASE \E t \in Types, n \in Names :
            /\ types[t] # n
            /\ Begin(w, [Idle EXCEPT !.op = "rename", !.type = t, !.to = n,
                 !.todo = << "load", "types", "name", "update", "pin" >> \o Audit])
      BY <2>6, RenameJob, Zenon
    <2>7. CASE \E t \in Types :
            Begin(w, [Idle EXCEPT !.op = "removeType", !.type = t,
              !.todo = << "load", "types", "unused", "delete", "forget" >> \o Audit])
      BY <2>7, RemoveTypeJob, Zenon
    <2>8. CASE \E t, u \in Types, after \in BOOLEAN :
            /\ t # u
            /\ Begin(w, [Idle EXCEPT !.op = "reassign", !.type = t, !.to = u,
              !.todo = << "types", "load", "move" >>
                       \o (IF after THEN << "types", "unused", "delete", "forget" >> ELSE <<>>)
                       \o Audit])
      BY <2>8, ReassignJob, Zenon
    <2> QED
      BY <1>2, <2>1, <2>2, <2>3, <2>4, <2>5, <2>6, <2>7, <2>8, Zenon DEF Admin
  <1> QED
    BY <1>1, <1>2

\* A request finds the document in memory; the load at boot finds none.
Begun(w, k) ==
    /\ job' = [job EXCEPT ![w] = k] /\ k \in Jobs /\ Ctl(k, cached, lock = w)
    /\ UNCHANGED << store, doc, cached, types, known, lock, orders, listed >>
    /\ Before(k.todo, {"find"}, {"put"})
    /\ k.op = "checkout" => k.todo = << "lock", "load", "take", "save", "place" >>
    /\ k.op = "cancel" => k.todo = << "lock", "claim", "load", "restock", "save" >>
    /\ \/ k.op = "boot" /\ k.todo = << "load" >> /\ cached = None /\ AllIdle
       \/ k.op # "boot" /\ cached # None

LEMMA BeginEffect ==
    ASSUME ~ColdStart, NEW w \in Workers, Boot(w) \/ Customer(w) \/ Admin(w)
    PROVE  \E k : Begun(w, k)
  <1>1. CASE Customer(w) \/ Admin(w)
    <2>1. PICK k : Planned(k) /\ Begin(w, k)
      BY <1>1, Requested
    <2>2. k \in Jobs /\ Ctl(k, cached, lock = w)
      BY <2>1, PlanCtl DEF Planned
    <2>3. /\ Before(k.todo, {"find"}, {"put"}) /\ k.op # "boot"
          /\ k.op = "checkout" => k.todo = << "lock", "load", "take", "save", "place" >>
          /\ k.op = "cancel" => k.todo = << "lock", "claim", "load", "restock", "save" >>
      BY <2>1 DEF Planned, Plan
    <2>4. /\ job' = [job EXCEPT ![w] = k] /\ cached # None
          /\ UNCHANGED << store, doc, cached, types, known, lock, orders, listed >>
      BY <2>1, Zenon DEF Begin, typeVars
    <2> QED
      BY <2>2, <2>3, <2>4, Zenon DEF Begun
  <1>2. CASE Boot(w)
    <2> DEFINE steps == << "load" >>
               k == [Idle EXCEPT !.op = "boot", !.todo = steps]
    <2>1. Plan("boot", steps)
      BY CustomerPlans
    <2>2. /\ job' = [job EXCEPT ![w] = k] /\ cached = None /\ AllIdle
          /\ UNCHANGED << store, doc, cached, types, known, lock, orders, listed >>
      BY <1>2, Zenon DEF Boot, typeVars
    <2> HIDE DEF steps
    <2>3. steps \in Seq(Steps)
      BY <2>1 DEF Plan
    <2>4. k \in Jobs /\ k.op = "boot" /\ k.todo = steps /\ k.on = None
      BY <2>3 DEF Jobs, Ops, Idle
    <2> HIDE DEF k
    <2>5. Ctl(k, cached, lock = w)
      <3>1. Asked(k) /\ k.op # "create"
        BY <2>4 DEF Asked
      <3> QED
        BY <2>1, <2>4, <3>1, PlanCtl
    <2>6. Before(k.todo, {"find"}, {"put"})
      BY <2>1, <2>4 DEF Plan
    <2>7. k.todo = << "load" >>
      BY <2>4 DEF steps
    <2> QED
      BY <2>2, <2>4, <2>5, <2>6, <2>7, Zenon DEF Begun
  <1> QED
    BY <1>1, <1>2

-----------------------------------------------------------------------------
(* The edits of the document.                                               *)

LEMMA EditIs ==
    ASSUME ControlInv, NEW w \in Workers, job[w].on = cached, cached # None,
           NEW list \in Seq(Entries), Edit(w, list)
    PROVE  /\ doc' \in [Workers -> Documents \cup {None}] /\ doc'[cached] \in Documents
           /\ doc'[cached].products = list /\ doc'[cached].page = doc[cached].page
  <1>1. /\ cached \in Workers /\ doc[cached] \in Documents
        /\ doc \in [Workers -> Documents \cup {None}]
    BY DEF ControlInv, TypeInv
  <1> DEFINE d == [doc[cached] EXCEPT !.products = list]
  <1>2. doc' = [doc EXCEPT ![cached] = d]
    BY DEF Edit
  <1>3. d \in Documents /\ d.products = list /\ d.page = doc[cached].page
    BY <1>1 DEF Documents
  <1> HIDE DEF d
  <1> QED
    BY <1>1, <1>2, <1>3

LEMMA PageIs ==
    ASSUME ControlInv, NEW w \in Workers, EditPage(w)
    PROVE  /\ doc' \in [Workers -> Documents \cup {None}] /\ doc'[cached] \in Documents
           /\ doc'[cached].products = doc[cached].products
  <1>1. /\ cached \in Workers /\ doc[cached] \in Documents /\ job[w].on = cached
        /\ doc \in [Workers -> Documents \cup {None}]
    BY AtHead DEF ControlInv, TypeInv, EditPage, Uses, Edits
  <1> DEFINE d == [doc[cached] EXCEPT !.page = 1]
  <1>2. doc' = [doc EXCEPT ![cached] = d]
    BY <1>1 DEF EditPage
  <1>3. d \in Documents /\ d.products = doc[cached].products
    BY <1>1 DEF Documents
  <1> HIDE DEF d
  <1> QED
    BY <1>1, <1>2, <1>3

\* The list of the shared document, before and after a step.
Old == doc[cached].products
New == doc'[cached].products
DocTyped == doc' \in [Workers -> Documents \cup {None}] /\ doc'[cached] \in Documents
SameStock ==
    /\ Len(New) = Len(Old)
    /\ \A k \in DOMAIN Old : New[k].id = Old[k].id /\ New[k].stock = Old[k].stock

LEMMA AssignOf ==
    ASSUME NEW list \in Seq(Entries), NEW i \in Nat, i <= Len(list) + 1, NEW e \in Entries
    PROVE  /\ Assign(list, i, e) \in Seq(Entries)
           /\ i \in DOMAIN list =>
                 /\ Len(Assign(list, i, e)) = Len(list)
                 /\ \A k \in DOMAIN list : Assign(list, i, e)[k] = IF k = i THEN e ELSE list[k]
  <1> DEFINE n == Len(list)
             m == Max({i, n})
             f == [k \in 1 .. m |-> IF k = i THEN e ELSE list[k]]
  <1>1. Assign(list, i, e) = f /\ n \in Nat /\ DOMAIN list = 1 .. n
    BY DEF Assign
  <1>2. m = IF i <= n THEN n ELSE i
    <2>1. CASE i <= n
      BY <1>1, <2>1, MaxOfTwo
    <2>2. CASE ~(i <= n)
      <3>1. n <= i /\ {i, n} = {n, i}
        BY <1>1, <2>2
      <3>2. Max({n, i}) = i
        BY <1>1, <3>1, MaxOfTwo
      <3> QED
        BY <2>2, <3>1, <3>2
    <2> QED
      BY <2>1, <2>2
  <1> HIDE DEF m
  <1>3. m \in Nat /\ \A k \in 1 .. m : k = i \/ k \in 1 .. n
    BY <1>1, <1>2
  <1>4. \A k \in 1 .. n : list[k] \in Entries
    BY <1>1
  <1>5. f \in Seq(Entries) /\ Len(f) = m /\ \A k \in 1 .. m : f[k] = IF k = i THEN e ELSE list[k]
    BY <1>3, <1>4
  <1>6. i \in DOMAIN list => m = n
    BY <1>1, <1>2
  <1> HIDE DEF f
  <1>7. i \in DOMAIN list => /\ Len(f) = n
                             /\ \A k \in DOMAIN list : f[k] = IF k = i THEN e ELSE list[k]
    BY <1>1, <1>5, <1>6
  <1> QED
    BY <1>1, <1>5, <1>7

LEMMA PutDoc ==
    ASSUME ControlInv, NEW w \in Workers, PutProduct(w)
    PROVE  /\ DocTyped
           /\ job[w].idx \in DOMAIN Old =>
                 /\ Len(New) = Len(Old)
                 /\ \A k \in DOMAIN Old : New[k] = IF k = job[w].idx THEN job[w].entry ELSE Old[k]
  <1>1. /\ job[w].on = cached /\ cached # None /\ job[w].entry \in Entries /\ job[w].idx \in Nat
    BY AtHead DEF PutProduct, Uses, Edits, Jobs
  <1>2. ProductsOf(w) = Old /\ Old \in Seq(Entries)
    BY <1>1, MineIs DEF Old
  <1>3. Edit(w, Assign(Old, job[w].idx, job[w].entry)) /\ job[w].idx <= Len(Old) + 1
    BY <1>2, Zenon DEF PutProduct, Puts
  <1>4. /\ Assign(Old, job[w].idx, job[w].entry) \in Seq(Entries)
        /\ job[w].idx \in DOMAIN Old =>
              /\ Len(Assign(Old, job[w].idx, job[w].entry)) = Len(Old)
              /\ \A k \in DOMAIN Old : Assign(Old, job[w].idx, job[w].entry)[k]
                                         = IF k = job[w].idx THEN job[w].entry ELSE Old[k]
    <2>1. PICK list \in Seq(Entries), i \in Nat, e \in Entries :
              list = Old /\ i = job[w].idx /\ e = job[w].entry
      BY <1>1, <1>2
    <2>2. i <= Len(list) + 1
      BY <1>3, <2>1
    <2>3. /\ Assign(list, i, e) \in Seq(Entries)
          /\ i \in DOMAIN list =>
                /\ Len(Assign(list, i, e)) = Len(list)
                /\ \A k \in DOMAIN list : Assign(list, i, e)[k] = IF k = i THEN e ELSE list[k]
      BY <2>2, AssignOf
    <2> QED
      BY <2>1, <2>3, Zenon
  <1>5. DocTyped /\ New = Assign(Old, job[w].idx, job[w].entry)
    BY <1>1, <1>3, <1>4, EditIs DEF DocTyped, New
  <1> QED
    BY <1>4, <1>5, Zenon

LEMMA PushDoc ==
    ASSUME ControlInv, NEW w \in Workers, PushProduct(w)
    PROVE  /\ DocTyped /\ Len(New) = Len(Old) + 1 /\ Old \in Seq(Entries)
           /\ \A k \in DOMAIN New : New[k] = IF k = Len(Old) + 1 THEN job[w].entry ELSE Old[k]
           /\ job[w].entry.id \in Fresh
  <1>1. /\ job[w].on = cached /\ cached # None /\ job[w].entry \in Entries
        /\ job[w].entry.id \in Fresh
    BY AtHead DEF PushProduct, Uses, Edits
  <1>2. ProductsOf(w) = Old /\ Old \in Seq(Entries)
    BY <1>1, MineIs DEF Old
  <1>3. Edit(w, Append(Old, job[w].entry))
    BY <1>2, Zenon DEF PushProduct, Puts
  <1>4. Append(Old, job[w].entry) \in Seq(Entries)
    BY <1>1, <1>2
  <1>5. DocTyped /\ New = Append(Old, job[w].entry)
    BY <1>1, <1>3, <1>4, EditIs DEF DocTyped, New
  <1>6. /\ Len(Append(Old, job[w].entry)) = Len(Old) + 1
        /\ \A k \in DOMAIN Append(Old, job[w].entry) :
              Append(Old, job[w].entry)[k] = IF k = Len(Old) + 1 THEN job[w].entry ELSE Old[k]
    BY <1>1, <1>2
  <1> QED
    BY <1>1, <1>2, <1>5, <1>6, Zenon

\* What stays keeps its order: each entry comes from one place of the old list.
LEMMA DropDoc ==
    ASSUME ControlInv, NEW w \in Workers, DropProduct(w)
    PROVE  \/ UNCHANGED doc
           \/ /\ DocTyped
              /\ \E at \in [DOMAIN New -> DOMAIN Old] :
                    /\ \A i, j \in DOMAIN New : i < j => at[i] < at[j]
                    /\ \A i \in DOMAIN New : New[i] = Old[at[i]] /\ New[i].id # job[w].product
                    /\ \A k \in DOMAIN Old :
                          Old[k].id # job[w].product => \E i \in DOMAIN New : at[i] = k
  <1> DEFINE stay == {i \in DOMAIN Old : Old[i].id # job[w].product}
  <1>1. /\ job[w].on = cached /\ cached # None
    BY AtHead DEF DropProduct, Uses, Edits
  <1>2. ProductsOf(w) = Old /\ Old \in Seq(Entries)
    BY <1>1, MineIs DEF Old
  <1>3. \/ UNCHANGED doc
        \/ \E at \in [1 .. Cardinality(stay) -> stay] :
              /\ \A i, j \in DOMAIN at : i < j => at[i] < at[j]
              /\ Edit(w, [i \in DOMAIN at |-> Old[at[i]]])
    BY <1>2, Zenon DEF DropProduct
  <1>4. CASE \E at \in [1 .. Cardinality(stay) -> stay] :
                /\ \A i, j \in DOMAIN at : i < j => at[i] < at[j]
                /\ Edit(w, [i \in DOMAIN at |-> Old[at[i]]])
    <2>1. Cardinality(stay) \in Nat /\ IsFiniteSet(stay)
      <3>1. Len(Old) \in Int /\ 1 \in Int /\ DOMAIN Old = 1 .. Len(Old)
        BY <1>2
      <3>2. IsFiniteSet(DOMAIN Old)
        BY <3>1, FS_Interval
      <3>3. stay \subseteq DOMAIN Old
        OBVIOUS
      <3> QED
        BY <3>2, <3>3, FS_Subset, FS_CardinalityType
    <2> DEFINE n == Cardinality(stay)
    <2>2. stay \subseteq DOMAIN Old
      OBVIOUS
    <2> HIDE DEF stay, n
    <2>3. PICK at \in [1 .. n -> stay] :
              /\ \A i, j \in DOMAIN at : i < j => at[i] < at[j]
              /\ Edit(w, [i \in DOMAIN at |-> Old[at[i]]])
      BY <1>4 DEF n
    <2> DEFINE new == [i \in DOMAIN at |-> Old[at[i]]]
    <2>4. /\ n \in Nat /\ DOMAIN at = 1 .. n /\ DOMAIN Old = 1 .. Len(Old) /\ Len(Old) \in Nat
          /\ \A i \in 1 .. n : at[i] \in DOMAIN Old
          /\ \A i \in DOMAIN Old : Old[i] \in Entries
      BY <1>2, <2>1, <2>2 DEF n
    <2>5. new \in Seq(Entries) /\ DOMAIN new = 1 .. n /\ \A i \in 1 .. n : new[i] = Old[at[i]]
      BY <2>4
    <2> HIDE DEF new
    <2>6. DocTyped /\ New = new
      BY <1>1, <2>3, <2>5, EditIs DEF DocTyped, New, new
    <2>7. at \in [DOMAIN New -> DOMAIN Old]
      BY <2>3, <2>4, <2>5, <2>6
    <2>8. at \in Injection(1 .. n, stay)
      <3>1. ASSUME NEW i \in 1 .. n, NEW j \in 1 .. n, at[i] = at[j]
            PROVE  i = j
        <4>1. at[i] \in Nat
          BY <2>4
        <4>2. ~(i < j) /\ ~(j < i)
          BY <2>3, <2>4, <3>1, <4>1
        <4> QED
          BY <2>4, <4>2
      <3> QED
        BY <2>3, <3>1 DEF Injection, IsInjective
    <2>9. at \in Surjection(1 .. n, stay)
      <3>1. Cardinality(1 .. n) = n
        BY <2>4, FS_Interval
      <3>2. IsFiniteSet(stay) /\ Cardinality(stay) = n
        BY <2>1 DEF n
      <3> QED
        BY <2>8, <3>1, <3>2, FS_Injection
    <2>10. \A k \in stay : \E i \in 1 .. n : at[i] = k
      BY <2>9 DEF Surjection
    <2>11. \A k \in DOMAIN Old : (k \in stay) = (Old[k].id # job[w].product)
      BY DEF stay
    <2>12. \A i \in 1 .. n : at[i] \in stay
      BY <2>3
    <2>13. \A i \in DOMAIN New : New[i] = Old[at[i]] /\ New[i].id # job[w].product
      BY <2>4, <2>5, <2>6, <2>11, <2>12
    <2>14. \A k \in DOMAIN Old : Old[k].id # job[w].product => \E i \in DOMAIN New : at[i] = k
      BY <2>5, <2>6, <2>10, <2>11
    <2>15. \A i, j \in DOMAIN New : i < j => at[i] < at[j]
      BY <2>3, <2>4, <2>5, <2>6
    <2> QED
      BY <2>6, <2>7, <2>13, <2>14, <2>15
  <1> QED
    BY <1>3, <1>4

\* A rename, or a new type, leaves every product where it is, and its stock.
LEMMA MapDoc ==
    ASSUME ControlInv, NEW w \in Workers, PinProducts(w) \/ MoveProducts(w)
    PROVE  UNCHANGED doc \/ (DocTyped /\ SameStock)
  <1>0. PICK s \in {"pin", "move"} : At(w, s)
    BY DEF PinProducts, MoveProducts
  <1>1. job[w].on = cached /\ cached # None /\ job[w].list \in Table
    BY <1>0, AtHead DEF Uses, Reads
  <1>2. /\ ProductsOf(w) = Old /\ Old \in Seq(Entries)
    BY <1>1, MineIs DEF Old
  <1>3. ASSUME NEW M, NEW t \in Types, NEW n \in Names,
               Edit(w, [i \in DOMAIN Old |->
                          IF i \in M THEN [Old[i] EXCEPT !.type = t, !.sub = n] ELSE Old[i]])
        PROVE  DocTyped /\ SameStock
    <2> DEFINE F(i) == IF i \in M THEN [Old[i] EXCEPT !.type = t, !.sub = n] ELSE Old[i]
               new == [i \in DOMAIN Old |-> F(i)]
    <2>1. DOMAIN Old = 1 .. Len(Old) /\ Len(Old) \in Nat
      BY <1>2
    <2>2. ASSUME NEW i \in DOMAIN Old
          PROVE  F(i) \in Entries /\ F(i).id = Old[i].id /\ F(i).stock = Old[i].stock
      <3>1. Old[i] \in Entries
        BY <1>2
      <3>2. [Old[i] EXCEPT !.type = t, !.sub = n] \in Entries
        BY <3>1 DEF Entries
      <3>3. /\ [Old[i] EXCEPT !.type = t, !.sub = n].id = Old[i].id
            /\ [Old[i] EXCEPT !.type = t, !.sub = n].stock = Old[i].stock
        BY <3>1 DEF Entries
      <3> QED
        BY <3>1, <3>2, <3>3, Zenon
    <2> HIDE DEF F
    <2>3. /\ new \in Seq(Entries) /\ Len(new) = Len(Old)
          /\ \A i \in DOMAIN Old : new[i].id = Old[i].id /\ new[i].stock = Old[i].stock
      BY <2>1, <2>2
    <2>4. Edit(w, new)
      BY <1>3, Zenon DEF F
    <2> HIDE DEF new
    <2>5. DocTyped /\ New = new
      BY <1>1, <2>3, <2>4, EditIs DEF DocTyped, New
    <2> QED
      BY <2>3, <2>5 DEF SameStock
  <1>4. CASE PinProducts(w)
    <2> DEFINE t == job[w].type
               n == job[w].to
               Means(e) == e.type = t \/ (e.type = None /\ e.sub = job[w].list[t])
    <2>1. t \in Types /\ n \in Names
      <3>1. At(w, "pin")
        BY <1>4 DEF PinProducts
      <3>2. job[w].op = "rename" /\ Asked(job[w])
        BY <3>1, AtHead DEF Of
      <3> QED
        BY <3>2 DEF Asked
    <2>2. \/ UNCHANGED doc
          \/ Edit(w, [i \in DOMAIN Old |->
                        IF Means(Old[i]) THEN [Old[i] EXCEPT !.type = t, !.sub = n] ELSE Old[i]])
      BY <1>2, <1>4, Zenon DEF PinProducts
    <2> DEFINE M == {i \in DOMAIN Old : Means(Old[i])}
    <2> HIDE DEF Means
    <2>3. [i \in DOMAIN Old |->
             IF Means(Old[i]) THEN [Old[i] EXCEPT !.type = t, !.sub = n] ELSE Old[i]]
          = [i \in DOMAIN Old |->
               IF i \in M THEN [Old[i] EXCEPT !.type = t, !.sub = n] ELSE Old[i]]
      OBVIOUS
    <2> HIDE DEF M
    <2> QED
      BY <1>3, <2>1, <2>2, <2>3, Zenon
  <1>5. CASE MoveProducts(w)
    <2> DEFINE t == job[w].type
               u == job[w].to
               names == job[w].list
               Moves(e) == e.type = t \/ (e.type = None /\ e.sub = names[t])
    <2>1. u \in Types
      <3>1. At(w, "move")
        BY <1>5 DEF MoveProducts
      <3>2. job[w].op = "reassign" /\ Asked(job[w])
        BY <3>1, AtHead DEF Of
      <3> QED
        BY <3>2 DEF Asked
    <2>2. \/ UNCHANGED doc
          \/ /\ names[u] # None
             /\ Edit(w, [i \in DOMAIN Old |->
                  IF Moves(Old[i]) THEN [Old[i] EXCEPT !.type = u, !.sub = names[u]] ELSE Old[i]])
      BY <1>2, <1>5, Zenon DEF MoveProducts
    <2>3. names[u] \in Names \cup {None}
      BY <1>1, <2>1 DEF Table
    <2> DEFINE M == {i \in DOMAIN Old : Moves(Old[i])}
    <2> HIDE DEF Moves
    <2>4. [i \in DOMAIN Old |->
             IF Moves(Old[i]) THEN [Old[i] EXCEPT !.type = u, !.sub = names[u]] ELSE Old[i]]
          = [i \in DOMAIN Old |->
               IF i \in M THEN [Old[i] EXCEPT !.type = u, !.sub = names[u]] ELSE Old[i]]
      BY Zenon
    <2>5. names[u] # None => names[u] \in Names
      BY <2>3
    <2> HIDE DEF M
    <2> QED
      BY <1>3, <2>1, <2>2, <2>4, <2>5, Zenon
  <1> QED
    BY <1>4, <1>5

\* A sale and a return change the stock of the product of the order.
LEMMA StockDoc ==
    ASSUME ControlInv, NEW w \in Workers, TakeStock(w) \/ RestockItems(w)
    PROVE  \/ UNCHANGED doc /\ job'[w] = Idle
           \/ /\ Proceeds(w) /\ DocTyped /\ Len(New) = Len(Old) /\ \A k \in DOMAIN Old : New[k].id = Old[k].id
              /\ \E i \in DOMAIN Old :
                   /\ Old[i].id = Item[job[w].order] /\ i = Index(Old, Item[job[w].order])
                   /\ \A k \in DOMAIN Old : k # i => New[k].stock = Old[k].stock
                   /\ \/ TakeStock(w) /\ Old[i].stock > 0 /\ New[i].stock = Old[i].stock - 1
                      \/ RestockItems(w) /\ New[i].stock = Old[i].stock + 1
  <1>0. PICK s \in {"take", "restock"} : At(w, s)
    BY DEF TakeStock, RestockItems
  <1>1. job[w].on = cached /\ cached # None
    BY <1>0, AtHead DEF Uses, Edits
  <1>2. ProductsOf(w) = Old /\ Old \in Seq(Entries)
    BY <1>1, MineIs DEF Old
  <1> DEFINE i == Index(Old, Item[job[w].order])
  <1>a. i = Index(Old, Item[job[w].order])
    OBVIOUS
  <1>3. i # 0 => i \in DOMAIN Old /\ Old[i].id = Item[job[w].order]
    BY <1>2, IndexFinds
  <1>4. ASSUME NEW n \in Nat, i # 0, Edit(w, [Old EXCEPT ![i].stock = n])
        PROVE  /\ DocTyped /\ Len(New) = Len(Old) /\ New[i].stock = n
               /\ \A k \in DOMAIN Old : /\ New[k].id = Old[k].id
                                        /\ k # i => New[k].stock = Old[k].stock
    <2> DEFINE e == [Old[i] EXCEPT !.stock = n]
               new == [Old EXCEPT ![i] = e]
    <2>1. Edit(w, new) /\ i \in DOMAIN Old
      BY <1>3, <1>4
    <2>2. e \in Entries /\ e.id = Old[i].id /\ e.stock = n
      <3>1. Old[i] \in Entries
        BY <1>2, <2>1
      <3> QED
        BY <3>1 DEF Entries
    <2> HIDE DEF e, i
    <2>3. /\ new \in Seq(Entries) /\ Len(new) = Len(Old) /\ new[i] = e
          /\ \A k \in DOMAIN Old : k # i => new[k] = Old[k]
      BY <1>2, <2>1, <2>2
    <2> HIDE DEF new
    <2>4. DocTyped /\ New = new
      BY <1>1, <2>1, <2>3, EditIs DEF DocTyped, New
    <2> QED
      BY <2>2, <2>3, <2>4
  <1>5. CASE TakeStock(w)
    <2>1. \/ UNCHANGED doc /\ Ends(w)
          \/ Proceeds(w) /\ i # 0 /\ Old[i].stock # 0 /\ Edit(w, [Old EXCEPT ![i].stock = Old[i].stock - 1])
      BY <1>2, <1>5, Zenon DEF TakeStock
    <2> HIDE DEF i
    <2>a. i # 0 => Old[i] \in Entries
      BY <1>2, <1>3
    <2>2. i # 0 => Old[i].stock \in Nat
      BY <2>a DEF Entries
    <2>3. i # 0 /\ Old[i].stock # 0 => Old[i].stock - 1 \in Nat /\ Old[i].stock > 0
      BY <2>2
    <2> QED
      BY <1>3, <1>4, <1>5, <1>a, <2>1, <2>3, EndsEffect
  <1>6. CASE RestockItems(w)
    <2>1. \/ UNCHANGED doc /\ Ends(w)
          \/ Proceeds(w) /\ i # 0 /\ Edit(w, [Old EXCEPT ![i].stock = Old[i].stock + 1])
      BY <1>2, <1>6, Zenon DEF RestockItems
    <2> HIDE DEF i
    <2>a. i # 0 => Old[i] \in Entries
      BY <1>2, <1>3
    <2>2. i # 0 => Old[i].stock \in Nat
      BY <2>a DEF Entries
    <2>3. i # 0 => Old[i].stock + 1 \in Nat
      BY <2>2
    <2> QED
      BY <1>3, <1>4, <1>6, <1>a, <2>1, <2>3, EndsEffect
  <1> QED
    BY <1>5, <1>6

-----------------------------------------------------------------------------
(* What the steps do to the store, the types and the orders.                *)

\* A save is sent: the statement carries the shared document as it is.
Sends(w) ==
    /\ At(w, "save") \/ At(w, "count")
    /\ sent' = Append(sent, [by |-> w, data |-> doc[cached], old |-> FALSE]) /\ unsaved' = FALSE
    /\ Doing(job'[w], "saved") /\ UNCHANGED << row, doc, cached >> /\ cached # None

\* The empty catalogue that was not saved.
Refuses(w) ==
    /\ At(w, "count") /\ Ends(w) /\ unsaved' = TRUE /\ UNCHANGED << row, sent, doc, cached >>

LEMMA SendSends ==
    ASSUME ControlInv, NEW w \in Workers, At(w, "save") \/ At(w, "count"), Send(w),
           UNCHANGED << row, doc, lock >>
    PROVE  Sends(w)
  <1>1. job[w].on = cached /\ cached # None
    BY AtHead DEF Uses, Edits
  <1>2. Mine(w) = doc[cached]
    BY <1>1 DEF Mine
  <1>3. sent' = Append(sent, [by |-> w, data |-> doc[cached], old |-> FALSE]) /\ unsaved' = FALSE
        /\ cached' = cached /\ job' = [job EXCEPT ![w].todo = << "saved" >> \o Rest(w)]
    BY <1>1, <1>2 DEF Send
  <1>4. job \in [Workers -> Jobs] /\ Rest(w) \in Seq(Steps)
    BY RestSteps DEF ControlInv, TypeInv, At
  <1>5. /\ << "saved" >> \o Rest(w) \in Seq(Steps) /\ << "saved" >> \o Rest(w) # <<>>
        /\ Head(<< "saved" >> \o Rest(w)) = "saved"
    <2>1. "saved" \in Steps
      BY DEF Steps, Waits
    <2> QED
      BY <1>4, <2>1, ConsOf
  <1>6. job'[w].todo = << "saved" >> \o Rest(w)
    BY <1>3, <1>4, <1>5, TodoSet
  <1>7. Doing(job'[w], "saved")
    BY <1>5, <1>6 DEF Doing
  <1> QED
    BY <1>1, <1>3, <1>7 DEF Sends

\* The histories: only the edit of a product may grant units, by what it adds to the list.
Grants(p) == granted[p] + (IF StockOf(New, p) > StockOf(Old, p)
                           THEN StockOf(New, p) - StockOf(Old, p) ELSE 0)

LEMMA StockIs ==
    ASSUME NEW list \in Seq(Entries), NEW p
    PROVE  StockOf(list, p) \in Nat
  <1> DEFINE i == Index(list, p)
  <1>1. i # 0 => i \in DOMAIN list
    BY IndexFinds
  <1>2. i # 0 => list[i] \in Entries
    BY <1>1
  <1>3. StockOf(list, p) = IF i = 0 THEN 0 ELSE list[i].stock
    BY DEF StockOf
  <1> HIDE DEF i
  <1> QED
    BY <1>2, <1>3 DEF Entries

LEMMA HistoryCases ==
    ASSUME ControlInv, NEW w \in Workers, Step(w) \/ Fails(w)
    PROVE  /\ UNCHANGED << late, undone >>
           /\ \/ UNCHANGED granted /\ ~PutProduct(w) /\ ~PushProduct(w)
              \/ /\ PutProduct(w) \/ PushProduct(w)
                 /\ granted' = [p \in Products |-> Grants(p)]
  <1>1. ASSUME \/ Load(w) \/ Select(w) \/ Loaded(w) \/ SeedInitial(w) \/ Save(w)
               \/ CountStored(w) \/ Saved(w) \/ ListTypes(w) \/ AskTypes(w) \/ TypesTold(w)
               \/ CheckName(w) \/ InsertType(w) \/ UpdateType(w)
        PROVE  UNCHANGED << late, undone, granted >>
    BY <1>1, Zenon DEF Load, Select, Loaded, SeedInitial, Save, CountStored, Saved, ListTypes,
         AskTypes, TypesTold, CheckName, InsertType, UpdateType, store
  <1>2. ASSUME \/ PinProducts(w) \/ CheckUnused(w) \/ DeleteType(w) \/ ForgetTypes(w)
               \/ MoveProducts(w) \/ FindProduct(w) \/ ApplyType(w) \/ CopyProduct(w)
        PROVE  UNCHANGED << late, undone, granted >>
    BY <1>2, Zenon DEF PinProducts, CheckUnused, DeleteType, ForgetTypes, MoveProducts,
         FindProduct, ApplyType, CopyProduct, store
  <1>3. ASSUME \/ DropProduct(w) \/ EditPage(w) \/ Lock(w) \/ TakeStock(w) \/ RestockItems(w)
               \/ PlaceOrder(w) \/ ClaimRestore(w) \/ Fails(w)
        PROVE  UNCHANGED << late, undone, granted >>
    BY <1>3, Zenon DEF DropProduct, EditPage, Lock, TakeStock, RestockItems, PlaceOrder,
         ClaimRestore, Fails, store
  <1>4. CASE PutProduct(w) \/ PushProduct(w)
    <2>1. \E s \in {"put", "push"} : At(w, s)
      BY <1>4 DEF PutProduct, PushProduct
    <2>2. job[w].on = cached /\ cached # None
      BY <2>1, AtHead DEF Uses, Edits
    <2>3. ProductsOf(w) = Old /\ Old \in Seq(Entries)
      BY <2>2, MineIs DEF Old
    <2>4. \E list : Puts(w, list) /\ (list = Assign(Old, job[w].idx, job[w].entry)
                                     \/ list = Append(Old, job[w].entry))
      BY <1>4, <2>3, Zenon DEF PutProduct, PushProduct
    <2>5. PICK list : Puts(w, list) /\ (list = Assign(Old, job[w].idx, job[w].entry)
                                     \/ list = Append(Old, job[w].entry))
      BY <2>4
    <2>6. New = list
      <3>1. /\ doc[cached] \in Documents /\ doc \in [Workers -> Documents \cup {None}]
            /\ cached \in Workers
        BY <2>2 DEF ControlInv, TypeInv
      <3>2. doc' = [doc EXCEPT ![cached] = [doc[cached] EXCEPT !.products = list]]
        BY <2>2, <2>5 DEF Puts, Edit
      <3>3. UNCHANGED cached
        BY <1>4, Zenon DEF PutProduct, PushProduct
      <3> QED
        BY <3>1, <3>2, <3>3 DEF New, Documents
    <2>7. granted' = [p \in Products |->
                        IF StockOf(list, p) > StockOf(Old, p)
                        THEN granted[p] + StockOf(list, p) - StockOf(Old, p) ELSE granted[p]]
      BY <2>3, <2>5, Zenon DEF Puts
    <2>8. New \in Seq(Entries)
      <3>1. DocTyped
        BY <1>4, PutDoc, PushDoc
      <3> QED
        BY <3>1 DEF DocTyped, New, Documents
    <2>9. granted' = [p \in Products |-> Grants(p)]
      <3>1. granted \in [Products -> Nat]
        BY DEF ControlInv, TypeInv
      <3>2. ASSUME NEW p \in Products
            PROVE  (IF StockOf(list, p) > StockOf(Old, p)
                    THEN granted[p] + StockOf(list, p) - StockOf(Old, p) ELSE granted[p])
                   = Grants(p)
        <4>1. StockOf(New, p) \in Nat /\ StockOf(Old, p) \in Nat /\ granted[p] \in Nat
          BY <2>3, <2>8, <3>1, StockIs
        <4> QED
          BY <2>6, <4>1 DEF Grants
      <3> QED
        BY <2>7, <3>2
    <2>10. UNCHANGED << late, undone >>
      BY <1>4, Zenon DEF PutProduct, PushProduct
    <2> QED
      BY <1>4, <2>9, <2>10
  <1>5. CASE ~PutProduct(w) /\ ~PushProduct(w)
    BY <1>1, <1>2, <1>3, <1>5 DEF Step
  <1> QED
    BY <1>4, <1>5

LEMMA GrantedTyped ==
    ASSUME ControlInv, NEW w \in Workers, Step(w) \/ Fails(w)
    PROVE  granted' \in [Products -> Nat]
  <1>1. granted \in [Products -> Nat]
    BY DEF ControlInv, TypeInv
  <1>2. CASE UNCHANGED granted
    BY <1>1, <1>2
  <1>3. CASE /\ PutProduct(w) \/ PushProduct(w)
             /\ granted' = [p \in Products |-> Grants(p)]
    <2>1. /\ Old \in Seq(Entries) /\ New \in Seq(Entries)
      <3>1. \E s \in {"put", "push"} : At(w, s)
        BY <1>3 DEF PutProduct, PushProduct
      <3>2. job[w].on = cached /\ cached # None /\ DocTyped
        BY <1>3, <3>1, AtHead, PutDoc, PushDoc DEF Uses, Edits
      <3> QED
        BY <3>2, MineIs DEF Old, New, DocTyped, Documents
    <2>2. \A p \in Products : StockOf(New, p) \in Nat /\ StockOf(Old, p) \in Nat /\ granted[p] \in Nat
      BY <1>1, <2>1, StockIs
    <2>3. \A p \in Products : Grants(p) \in Nat
      BY <2>2 DEF Grants
    <2> QED
      BY <1>3, <2>3
  <1> QED
    BY <1>2, <1>3, HistoryCases

LEMMA StoreCases ==
    ASSUME ControlInv, NEW w \in Workers, Step(w) \/ Fails(w)
    PROVE  \/ UNCHANGED << row, sent, unsaved >>
           \/ SeedInitial(w) /\ UNCHANGED << sent, unsaved >>
           \/ Sends(w) \/ Refuses(w) \/ (Fails(w) /\ UNCHANGED row)
  <1>2. CASE Save(w)
    <2>1. \/ UNCHANGED << row, sent, unsaved >>
          \/ At(w, "save") /\ Send(w) /\ UNCHANGED << row, doc, lock >>
      BY <1>2, Zenon DEF Save
    <2> QED
      BY <2>1, SendSends
  <1>3. CASE CountStored(w)
    <2>1. \/ At(w, "count") /\ Ends(w) /\ unsaved' = TRUE /\ UNCHANGED << row, sent, doc, cached >>
          \/ At(w, "count") /\ Send(w) /\ UNCHANGED << row, doc, lock >>
      BY <1>3, Zenon DEF CountStored
    <2> QED
      BY <2>1, SendSends DEF Refuses
  <1>4. CASE SeedInitial(w)
    BY <1>4 DEF SeedInitial
  <1>5. CASE Fails(w)
    BY <1>5 DEF Fails
  <1>6. CASE ~(Save(w) \/ CountStored(w) \/ SeedInitial(w) \/ Fails(w))
    <2>1. CASE \/ Load(w) \/ Select(w) \/ Loaded(w) \/ Saved(w) \/ ListTypes(w) \/ AskTypes(w)
               \/ TypesTold(w) \/ CheckName(w) \/ InsertType(w) \/ UpdateType(w)
      BY <2>1, Zenon DEF Load, Select, Loaded, Saved, ListTypes, AskTypes, TypesTold, CheckName,
           InsertType, UpdateType, store
    <2>2. CASE \/ PinProducts(w) \/ CheckUnused(w) \/ DeleteType(w) \/ ForgetTypes(w)
               \/ MoveProducts(w) \/ FindProduct(w) \/ ApplyType(w) \/ PutProduct(w)
               \/ PushProduct(w) \/ CopyProduct(w)
      BY <2>2, Zenon DEF PinProducts, CheckUnused, DeleteType, ForgetTypes, MoveProducts,
           FindProduct, ApplyType, PutProduct, PushProduct, CopyProduct, store
    <2>3. CASE \/ DropProduct(w) \/ EditPage(w) \/ Lock(w) \/ TakeStock(w) \/ PlaceOrder(w)
               \/ ClaimRestore(w) \/ RestockItems(w)
      BY <2>3, Zenon DEF DropProduct, EditPage, Lock, TakeStock, PlaceOrder, ClaimRestore,
           RestockItems, store
    <2> QED
      BY <1>6, <2>1, <2>2, <2>3 DEF Step
  <1> QED
    BY <1>2, <1>3, <1>4, <1>5, <1>6

\* Which steps write the document.
LEMMA DocCases ==
    ASSUME ControlInv, NEW w \in Workers, Step(w) \/ Fails(w)
    PROVE  \/ UNCHANGED doc \/ Loaded(w) \/ PinProducts(w) \/ MoveProducts(w)
           \/ PutProduct(w) \/ PushProduct(w) \/ DropProduct(w) \/ EditPage(w)
           \/ TakeStock(w) \/ RestockItems(w)
  <1>1. CASE \/ Load(w) \/ Select(w) \/ SeedInitial(w) \/ Save(w) \/ CountStored(w) \/ Saved(w)
             \/ ListTypes(w) \/ AskTypes(w) \/ TypesTold(w) \/ CheckName(w) \/ InsertType(w)
             \/ UpdateType(w)
    BY <1>1, Zenon DEF Load, Select, SeedInitial, Save, CountStored, Saved, ListTypes, AskTypes,
         TypesTold, CheckName, InsertType, UpdateType
  <1>2. CASE \/ CheckUnused(w) \/ DeleteType(w) \/ ForgetTypes(w) \/ FindProduct(w)
             \/ ApplyType(w) \/ CopyProduct(w) \/ Lock(w) \/ PlaceOrder(w) \/ ClaimRestore(w)
             \/ Fails(w)
    BY <1>2, Zenon DEF CheckUnused, DeleteType, ForgetTypes, FindProduct, ApplyType, CopyProduct,
         Lock, PlaceOrder, ClaimRestore, Fails
  <1> QED
    BY <1>1, <1>2 DEF Step

\* Only the claim and the last step of a checkout write an order.
LEMMA OrderCases ==
    ASSUME ControlInv, NEW w \in Workers, Step(w) \/ Fails(w)
    PROVE  UNCHANGED orders \/ PlaceOrder(w) \/ ClaimRestore(w)
  <1>1. CASE \/ Load(w) \/ Select(w) \/ Loaded(w) \/ SeedInitial(w) \/ Save(w) \/ CountStored(w)
             \/ Saved(w) \/ ListTypes(w) \/ AskTypes(w) \/ TypesTold(w) \/ CheckName(w)
             \/ InsertType(w) \/ UpdateType(w)
    BY <1>1, Zenon DEF Load, Select, Loaded, SeedInitial, Save, CountStored, Saved, ListTypes,
         AskTypes, TypesTold, CheckName, InsertType, UpdateType
  <1>2. CASE \/ PinProducts(w) \/ CheckUnused(w) \/ DeleteType(w) \/ ForgetTypes(w)
             \/ MoveProducts(w) \/ FindProduct(w) \/ ApplyType(w) \/ PutProduct(w)
             \/ PushProduct(w) \/ CopyProduct(w)
    BY <1>2, Zenon DEF PinProducts, CheckUnused, DeleteType, ForgetTypes, MoveProducts,
         FindProduct, ApplyType, PutProduct, PushProduct, CopyProduct
  <1>3. CASE DropProduct(w) \/ EditPage(w) \/ Lock(w) \/ TakeStock(w) \/ RestockItems(w) \/ Fails(w)
    BY <1>3, Zenon DEF DropProduct, EditPage, Lock, TakeStock, RestockItems, Fails
  <1> QED
    BY <1>1, <1>2, <1>3 DEF Step

LEMMA OrdersTyped ==
    ASSUME ControlInv, NEW w \in Workers, Step(w) \/ Fails(w)
    PROVE  orders' \in [Orders -> {"none", "live", "returned"}]
  <1>1. orders \in [Orders -> {"none", "live", "returned"}]
    BY DEF ControlInv, TypeInv
  <1>2. CASE PlaceOrder(w)
    BY <1>1, <1>2 DEF PlaceOrder
  <1>3. CASE ClaimRestore(w)
    BY <1>1, <1>3 DEF ClaimRestore
  <1> QED
    BY <1>1, <1>2, <1>3, OrderCases

\* The table of types stays one, and what is remembered of it was read from it.
LEMMA TypesTyped ==
    ASSUME ControlInv, NEW w \in Workers, Step(w) \/ Fails(w)
    PROVE  types' \in Table /\ known' \in Table \cup {None}
  <1>1. types \in Table /\ known \in Table \cup {None}
    BY DEF ControlInv, TypeInv
  <1>2. CASE InsertType(w)
    <2>1. job[w].op = "addType" /\ Asked(job[w])
      BY <1>2, AtHead DEF InsertType, Of
    <2>2. job[w].to \in Names
      BY <2>1 DEF Asked
    <2>3. known' = known /\ (types' = types \/ types' = [types EXCEPT ![job[w].type] = job[w].to])
      BY <1>2, Zenon DEF InsertType
    <2> QED
      BY <1>1, <2>2, <2>3 DEF Table
  <1>3. CASE UpdateType(w)
    <2>1. job[w].op = "rename" /\ Asked(job[w])
      BY <1>3, AtHead DEF UpdateType, Of
    <2>2. job[w].to \in Names
      BY <2>1 DEF Asked
    <2>3. known' = known /\ (types' = types \/ types' = [types EXCEPT ![job[w].type] = job[w].to])
      BY <1>3, Zenon DEF UpdateType
    <2> QED
      BY <1>1, <2>2, <2>3 DEF Table
  <1>4. CASE DeleteType(w)
    <2>1. known' = known /\ types' = [types EXCEPT ![job[w].type] = None]
      BY <1>4, Zenon DEF DeleteType
    <2> QED
      BY <1>1, <2>1 DEF Table
  <1>5. CASE TypesTold(w)
    <2>1. job[w].list \in Table
      BY <1>5, AtHead DEF TypesTold, Reads
    <2> QED
      BY <1>1, <1>5, <2>1 DEF TypesTold
  <1>6. CASE PinProducts(w) \/ ForgetTypes(w)
    <2>1. known' = None /\ types' = types
      BY <1>6, Zenon DEF PinProducts, ForgetTypes
    <2> QED
      BY <1>1, <2>1
  <1>7. CASE ~(InsertType(w) \/ UpdateType(w) \/ DeleteType(w) \/ TypesTold(w)
               \/ PinProducts(w) \/ ForgetTypes(w))
    <2>1. CASE \/ Load(w) \/ Select(w) \/ Loaded(w) \/ SeedInitial(w) \/ Save(w) \/ CountStored(w)
               \/ Saved(w) \/ ListTypes(w) \/ AskTypes(w) \/ CheckName(w)
      <3>1. UNCHANGED << types, known >>
        BY <2>1, Zenon DEF Load, Select, Loaded, SeedInitial, Save, CountStored, Saved,
             ListTypes, AskTypes, CheckName, typeVars
      <3> QED
        BY <1>1, <3>1
    <2>2. CASE \/ CheckUnused(w) \/ MoveProducts(w) \/ FindProduct(w) \/ ApplyType(w)
               \/ PutProduct(w) \/ PushProduct(w) \/ CopyProduct(w)
      <3>1. UNCHANGED << types, known >>
        BY <2>2, Zenon DEF CheckUnused, MoveProducts, FindProduct, ApplyType, PutProduct,
             PushProduct, CopyProduct, typeVars
      <3> QED
        BY <1>1, <3>1
    <2>3. CASE \/ DropProduct(w) \/ EditPage(w) \/ Lock(w) \/ TakeStock(w) \/ PlaceOrder(w)
               \/ ClaimRestore(w) \/ RestockItems(w) \/ Fails(w)
      <3>1. UNCHANGED << types, known >>
        BY <2>3, Zenon DEF DropProduct, EditPage, Lock, TakeStock, PlaceOrder, ClaimRestore,
             RestockItems, Fails, typeVars
      <3> QED
        BY <1>1, <3>1
    <2> QED
      BY <1>7, <2>1, <2>2, <2>3 DEF Step
  <1> QED
    BY <1>2, <1>3, <1>4, <1>5, <1>6, <1>7

\* The document stays one.
LEMMA DocTypes ==
    ASSUME ControlInv, NEW w \in Workers, Step(w) \/ Fails(w)
    PROVE  /\ doc' \in [Workers -> Documents \cup {None}] /\ cached' \in Workers \cup {None}
           /\ cached' # None => doc'[cached'] \in Documents
  <1>1. /\ doc \in [Workers -> Documents \cup {None}] /\ cached \in Workers \cup {None}
        /\ cached # None => doc[cached] \in Documents
        /\ row \in Documents \cup {None}
    BY DEF ControlInv, TypeInv
  <1>2. CASE Loaded(w)
    <2>1. \/ UNCHANGED << doc, cached >>
          \/ row # None /\ doc' = [doc EXCEPT ![w] = row] /\ cached' = w
      BY <1>2, LoadedEffect
    <2> QED
      BY <1>1, <2>1
  <1>3. CASE ~Loaded(w)
    <2>1. cached' = cached
      BY <1>3, StepEffect
    <2>2. CASE UNCHANGED doc
      BY <1>1, <2>1, <2>2
    <2>3. CASE \/ PinProducts(w) \/ MoveProducts(w) \/ PutProduct(w) \/ PushProduct(w)
               \/ DropProduct(w) \/ EditPage(w) \/ TakeStock(w) \/ RestockItems(w)
      <3>1. UNCHANGED doc \/ DocTyped
        BY <2>3, MapDoc, PutDoc, PushDoc, DropDoc, PageIs, StockDoc DEF DocTyped
      <3> QED
        BY <1>1, <2>1, <2>2, <3>1 DEF DocTyped
    <2> QED
      BY <1>3, <2>2, <2>3, DocCases
  <1> QED
    BY <1>2, <1>3

-----------------------------------------------------------------------------
(* The invariant of the handlers is inductive.                              *)

\* Each step is what its handler's list begins with.
LEMMA OtherSteps ==
    ASSUME NEW w \in Workers, Step(w),
           ~(Load(w) \/ Select(w) \/ Loaded(w) \/ SeedInitial(w) \/ Saved(w))
    PROVE  ~At(w, "load") /\ ~At(w, "select") /\ ~At(w, "loaded") /\ ~At(w, "seed") /\ ~At(w, "saved")
  <1>1. CASE \/ Save(w) \/ CountStored(w) \/ ListTypes(w) \/ AskTypes(w) \/ TypesTold(w)
             \/ CheckName(w) \/ InsertType(w) \/ UpdateType(w) \/ PinProducts(w)
    <2>1. \E s \in {"save", "count", "types", "ask", "told", "name", "insert", "update", "pin"} :
             At(w, s)
      BY <1>1, Zenon DEF Save, CountStored, ListTypes, AskTypes, TypesTold, CheckName,
           InsertType, UpdateType, PinProducts
    <2> QED
      BY <2>1 DEF At
  <1>2. CASE \/ CheckUnused(w) \/ DeleteType(w) \/ ForgetTypes(w) \/ MoveProducts(w)
             \/ FindProduct(w) \/ ApplyType(w) \/ PutProduct(w) \/ PushProduct(w) \/ CopyProduct(w)
    <2>1. \E s \in {"unused", "delete", "forget", "move", "find", "resolve", "put", "push", "copy"} :
             At(w, s)
      BY <1>2, Zenon DEF CheckUnused, DeleteType, ForgetTypes, MoveProducts, FindProduct,
           ApplyType, PutProduct, PushProduct, CopyProduct
    <2> QED
      BY <2>1 DEF At
  <1>3. CASE \/ DropProduct(w) \/ EditPage(w) \/ Lock(w) \/ TakeStock(w) \/ PlaceOrder(w)
             \/ ClaimRestore(w) \/ RestockItems(w)
    <2>1. \E s \in {"drop", "page", "lock", "take", "place", "claim", "restock"} : At(w, s)
      BY <1>3, Zenon DEF DropProduct, EditPage, Lock, TakeStock, PlaceOrder, ClaimRestore,
           RestockItems
    <2> QED
      BY <2>1 DEF At
  <1> QED
    BY <1>1, <1>2, <1>3 DEF Step

\* Some messages have gone, the others are in the order they had, those of w without it
\* and those before n old.
Thinned(w, n) ==
    /\ sent' \in Seq(Messages)
    /\ \E at \in [DOMAIN sent' -> DOMAIN sent] :
          /\ \A i, k \in DOMAIN sent' : i < k => at[i] < at[k]
          /\ \A k \in DOMAIN sent' :
                /\ sent'[k].data = sent[at[k]].data
                /\ sent'[k].by = IF sent[at[k]].by = w THEN None ELSE sent[at[k]].by
                /\ sent'[k].old = (sent[at[k]].old \/ at[k] < n)

\* The sequence without its i-th message.
Without(i, n) ==
    /\ sent' \in Seq(Messages) /\ Len(sent) \in Nat \ {0} /\ DOMAIN sent = 1 .. Len(sent)
    /\ Len(sent') = Len(sent) - 1 /\ DOMAIN sent' = 1 .. Len(sent) - 1
    /\ \A k \in 1 .. Len(sent) - 1 :
          LET m == IF k < i THEN k ELSE k + 1
          IN  /\ sent'[k].data = sent[m].data /\ sent'[k].by = sent[m].by
              /\ sent'[k].old = (sent[m].old \/ m < n)

LEMMA RemoveThins ==
    ASSUME sent \in Seq(Messages), NEW w, NEW i \in DOMAIN sent, NEW n \in Nat, Without(i, n),
           w = None \/ \A k \in DOMAIN sent : k # i => sent[k].by # w
    PROVE  Thinned(w, n)
  <1>1. /\ sent' \in Seq(Messages) /\ Len(sent) \in Nat \ {0} /\ DOMAIN sent = 1 .. Len(sent)
        /\ DOMAIN sent' = 1 .. Len(sent) - 1
    BY DEF Without
  <1> DEFINE at == [k \in DOMAIN sent' |-> IF k < i THEN k ELSE k + 1]
  <1>2. at \in [DOMAIN sent' -> DOMAIN sent]
    BY <1>1
  <1>3. \A k, m \in DOMAIN sent' : k < m => at[k] < at[m]
    BY <1>1
  <1>4. \A k \in DOMAIN sent' : /\ sent'[k].data = sent[at[k]].data /\ sent'[k].by = sent[at[k]].by
                                /\ sent'[k].old = (sent[at[k]].old \/ at[k] < n)
    BY <1>1, Zenon DEF Without
  <1>6. \A k \in DOMAIN sent' : at[k] # i /\ at[k] \in DOMAIN sent
    BY <1>1
  <1> HIDE DEF at
  <1>5. \A k \in DOMAIN sent' : /\ sent'[k].data = sent[at[k]].data
                                /\ sent'[k].by = IF sent[at[k]].by = w THEN None ELSE sent[at[k]].by
                                /\ sent'[k].old = (sent[at[k]].old \/ at[k] < n)
    BY <1>4, <1>6
  <1> QED
    BY <1>1, <1>2, <1>3, <1>5 DEF Thinned

SameLast == /\ sent'[Len(sent')].data = sent[Len(sent)].data
            /\ sent'[Len(sent')].old = sent[Len(sent)].old

LEMMA FailsThins ==
    ASSUME ControlInv, NEW w \in Workers, Fails(w)
    PROVE  /\ Thinned(w, 0) /\ unsaved' \in BOOLEAN
           /\ \/ unsaved' = TRUE
              \/ /\ unsaved' = unsaved /\ ~At(w, "count")
                 /\ (sent = <<>>) <=> (sent' = <<>>)
                 /\ sent # <<>> => SameLast
  <1> DEFINE mine == {i \in DOMAIN sent : sent[i].by = w}
  <1>0. sent \in Seq(Messages) /\ None \notin Workers /\ unsaved \in BOOLEAN
    BY CatalogueConstants DEF ControlInv, TypeInv
  <1>1. \A i \in mine : At(w, "saved") /\ \A k \in DOMAIN sent : k # i => sent[k].by # w
    BY DEF ControlInv, SentInv, At, Doing
  <1>2. At(w, "saved") => ~At(w, "count")
    BY DEF At
  <1>3. \/ mine = {} /\ UNCHANGED sent /\ unsaved' = (unsaved \/ At(w, "count"))
        \/ \E i \in mine : sent' = [sent EXCEPT ![i].by = None] /\ UNCHANGED unsaved
        \/ \E i \in mine : sent' = RemoveAt(sent, i) /\ unsaved' = (unsaved \/ i = Len(sent))
    BY Zenon DEF Fails
  <1>4. CASE mine = {} /\ UNCHANGED sent /\ unsaved' = (unsaved \/ At(w, "count"))
    <2> DEFINE at == [k \in DOMAIN sent |-> k]
    <2>1. /\ at \in [DOMAIN sent -> DOMAIN sent] /\ sent' = sent
          /\ \A k \in DOMAIN sent : at[k] = k /\ sent[k].by # w
      BY <1>4
    <2> HIDE DEF at
    <2>2. Thinned(w, 0)
      <3>1. \A k \in DOMAIN sent : sent[k] \in Messages /\ ~(k < 0)
        BY <1>0
      <3>2. \A k \in DOMAIN sent : sent[k].old = (sent[k].old \/ k < 0)
        BY <3>1 DEF Messages
      <3>3. \A k \in DOMAIN sent : sent'[k] = sent[at[k]] /\ at[k] = k
        BY <2>1
      <3>4. \A k \in DOMAIN sent' :
               /\ sent'[k].data = sent[at[k]].data
               /\ sent'[k].by = IF sent[at[k]].by = w THEN None ELSE sent[at[k]].by
               /\ sent'[k].old = (sent[at[k]].old \/ at[k] < 0)
        BY <2>1, <3>2, <3>3, Zenon
      <3>5. /\ sent' \in Seq(Messages) /\ at \in [DOMAIN sent' -> DOMAIN sent]
            /\ DOMAIN sent' = DOMAIN sent /\ \A k \in DOMAIN sent : at[k] = k
        BY <1>0, <2>1
      <3> QED
        BY <3>4, <3>5 DEF Thinned
    <2>3. unsaved' \in BOOLEAN /\ (unsaved' = TRUE \/ (unsaved' = unsaved /\ ~At(w, "count")))
      BY <1>0, <1>4
    <2>4. SameLast
      BY <1>4 DEF SameLast
    <2> QED
      BY <1>4, <2>2, <2>3, <2>4
  <1>5. ASSUME NEW i \in mine, sent' = [sent EXCEPT ![i].by = None], UNCHANGED unsaved
        PROVE  /\ Thinned(w, 0) /\ unsaved' = unsaved /\ ~At(w, "count")
               /\ (sent = <<>>) <=> (sent' = <<>>)
               /\ sent # <<>> => SameLast
    <2> DEFINE at == [k \in DOMAIN sent |-> k]
               m == [sent[i] EXCEPT !.by = None]
    <2>1. sent[i] \in Messages /\ i \in DOMAIN sent /\ sent[i].by = w
      BY <1>0
    <2>2. m \in Messages /\ m.by = None /\ m.data = sent[i].data /\ m.old = sent[i].old
      BY <2>1 DEF Messages
    <2>3. sent' = [sent EXCEPT ![i] = m]
      BY <1>5
    <2> HIDE DEF m
    <2>4. /\ sent' \in Seq(Messages) /\ DOMAIN sent' = DOMAIN sent /\ Len(sent') = Len(sent)
          /\ sent'[i] = m /\ \A k \in DOMAIN sent : k # i => sent'[k] = sent[k]
      BY <1>0, <2>1, <2>2, <2>3
    <2>5. /\ at \in [DOMAIN sent' -> DOMAIN sent] /\ \A k \in DOMAIN sent : at[k] = k
      BY <2>4
    <2> HIDE DEF at
    <2>6. \A k \in DOMAIN sent' :
             /\ sent'[k].data = sent[at[k]].data
             /\ sent'[k].by = IF sent[at[k]].by = w THEN None ELSE sent[at[k]].by
             /\ sent'[k].old = (sent[at[k]].old \/ at[k] < 0)
      <3>1. \A k \in DOMAIN sent : sent[k] \in Messages /\ ~(k < 0)
        BY <1>0
      <3>2. \A k \in DOMAIN sent : sent[k].old = (sent[k].old \/ k < 0)
        BY <3>1 DEF Messages
      <3> QED
        BY <1>1, <2>1, <2>2, <2>4, <2>5, <3>2
    <2>7. Thinned(w, 0)
      BY <2>4, <2>5, <2>6 DEF Thinned
    <2>8. sent # <<>> /\ sent' # <<>> /\ Len(sent) \in DOMAIN sent
      BY <1>0, <2>1, <2>4
    <2>9. SameLast
      BY <2>1, <2>2, <2>4, <2>8 DEF SameLast
    <2> QED
      BY <1>1, <1>2, <1>5, <2>7, <2>8, <2>9
  <1>6. ASSUME NEW i \in mine, sent' = RemoveAt(sent, i), unsaved' = (unsaved \/ i = Len(sent))
        PROVE  /\ Thinned(w, 0) /\ unsaved' \in BOOLEAN
               /\ \/ unsaved' = TRUE
                  \/ /\ unsaved' = unsaved /\ ~At(w, "count")
                     /\ (sent = <<>>) <=> (sent' = <<>>)
                     /\ sent # <<>> => SameLast
    <2>a. Without(i, 0)
      <3>1. /\ sent' \in Seq(Messages) /\ Len(sent) \in Nat \ {0} /\ DOMAIN sent = 1 .. Len(sent)
            /\ Len(sent') = Len(sent) - 1 /\ DOMAIN sent' = 1 .. Len(sent) - 1
            /\ \A k \in 1 .. Len(sent) - 1 : sent'[k] = IF k < i THEN sent[k] ELSE sent[k + 1]
        BY <1>0, <1>6, RemoveAtOf
      <3>2. ASSUME NEW k \in 1 .. Len(sent) - 1, NEW m, m = IF k < i THEN k ELSE k + 1
            PROVE  /\ sent'[k].data = sent[m].data /\ sent'[k].by = sent[m].by
                   /\ sent'[k].old = (sent[m].old \/ m < 0)
        <4>1. sent'[k] = sent[m] /\ m \in DOMAIN sent
          BY <3>1, <3>2
        <4>2. sent[m] \in Messages /\ ~(m < 0)
          BY <1>0, <3>1, <4>1
        <4> QED
          BY <4>1, <4>2 DEF Messages
      <3> QED
        BY <3>1, <3>2 DEF Without
    <2>1. Thinned(w, 0)
      BY <1>0, <1>1, <2>a, RemoveThins
    <2>2. CASE i = Len(sent)
      <3>1. unsaved' = TRUE
        BY <1>6, <2>2
      <3> QED
        BY <2>1, <3>1
    <2>3. CASE i # Len(sent)
      <3>1. /\ sent' \in Seq(Messages) /\ Len(sent) \in Nat \ {0} /\ DOMAIN sent = 1 .. Len(sent)
            /\ Len(sent') = Len(sent) - 1 /\ DOMAIN sent' = 1 .. Len(sent) - 1
            /\ \A k \in 1 .. Len(sent) - 1 : sent'[k] = IF k < i THEN sent[k] ELSE sent[k + 1]
        BY <1>0, <1>6, RemoveAtOf
      <3>2. Len(sent) - 1 \in 1 .. Len(sent) - 1 /\ i <= Len(sent) - 1
            /\ Len(sent) - 1 + 1 = Len(sent)
        BY <2>3, <3>1
      <3>3. sent'[Len(sent')] = sent[Len(sent)] /\ sent' # <<>> /\ sent # <<>>
        BY <3>1, <3>2
      <3>4. unsaved' = unsaved
        BY <1>0, <1>6, <2>3
      <3> QED
        BY <1>0, <1>1, <1>2, <2>1, <3>3, <3>4 DEF SameLast
    <2> QED
      BY <2>2, <2>3
  <1> QED
    BY <1>0, <1>3, <1>4, <1>5, <1>6

\* Nobody's second message, and nobody's message whose handler is elsewhere.
LEMMA ThinnedSent ==
    ASSUME ControlInv, NEW w, NEW n, Thinned(w, n), \A v \in Workers : v = w \/ job'[v] = job[v]
    PROVE  SentInv'
  <1>1. PICK at \in [DOMAIN sent' -> DOMAIN sent] :
            /\ \A i, k \in DOMAIN sent' : i < k => at[i] < at[k]
            /\ \A k \in DOMAIN sent' :
                  sent'[k].by = IF sent[at[k]].by = w THEN None ELSE sent[at[k]].by
    BY DEF Thinned
  <1>2. None \notin Workers /\ sent' \in Seq(Messages)
    BY CatalogueConstants DEF Thinned
  <1>3. ASSUME NEW k \in DOMAIN sent', sent'[k].by \in Workers
        PROVE  /\ sent'[k].by = sent[at[k]].by /\ sent'[k].by # w /\ at[k] \in DOMAIN sent
               /\ Doing(job'[sent'[k].by], "saved")
    <2>1. sent'[k].by = sent[at[k]].by /\ sent'[k].by # w /\ at[k] \in DOMAIN sent
      BY <1>1, <1>2, <1>3
    <2>2. Doing(job[sent[at[k]].by], "saved")
      BY <1>3, <2>1 DEF ControlInv, SentInv
    <2>3. job'[sent'[k].by] = job[sent[at[k]].by]
      BY <1>3, <2>1
    <2> QED
      BY <2>1, <2>2, <2>3
  <1>4. ASSUME NEW i \in DOMAIN sent', NEW k \in DOMAIN sent', sent'[i].by = sent'[k].by,
               sent'[i].by \in Workers
        PROVE  i = k
    <2>1. at[i] = at[k]
      BY <1>3, <1>4 DEF ControlInv, SentInv
    <2>2. at[i] \in Nat /\ i \in Nat /\ k \in Nat
      <3>1. sent \in Seq(Messages) /\ at[i] \in DOMAIN sent
        BY <1>3, <1>4 DEF ControlInv, TypeInv
      <3> QED
        BY <1>2, <3>1
    <2>3. ~(i < k) /\ ~(k < i)
      BY <1>1, <2>1, <2>2
    <2> QED
      BY <2>2, <2>3
  <1> QED
    BY <1>3, <1>4 DEF SentInv

LEMMA SentNext ==
    ASSUME ControlInv, NEW w \in Workers, Step(w) \/ Fails(w)
    PROVE  sent' \in Seq(Messages) /\ SentInv' /\ unsaved' \in BOOLEAN
  <1>0. /\ sent \in Seq(Messages) /\ unsaved \in BOOLEAN
        /\ cached # None => doc[cached] \in Documents
    BY DEF ControlInv, TypeInv
  <1>1. \A v \in Workers \ {w} : job'[v] = job[v]
    BY StepEffect DEF Effect
  <1>2. CASE Fails(w)
    <2>1. Thinned(w, 0) /\ unsaved' \in BOOLEAN
      BY <1>2, FailsThins
    <2>2. \A v \in Workers : v = w \/ job'[v] = job[v]
      BY <1>1
    <2>3. SentInv'
      BY <2>1, <2>2, ThinnedSent
    <2> QED
      BY <2>1, <2>3 DEF Thinned
  <1>3. CASE Step(w) /\ ~Fails(w) /\ UNCHANGED sent
    <2>1. \A i \in DOMAIN sent : sent[i].by # w
      <3>1. At(w, "saved") => Saved(w)
        <4>1. ASSUME At(w, "saved") PROVE ~(Load(w) \/ Select(w) \/ Loaded(w) \/ SeedInitial(w))
          BY <4>1 DEF At, Load, Select, Loaded, SeedInitial
        <4> QED
          BY <1>3, <4>1, OtherSteps
      <3>2. Saved(w) => \A i \in DOMAIN sent : sent[i].by # w
        BY DEF Saved
      <3> QED
        BY <3>1, <3>2 DEF ControlInv, SentInv, Doing, At
    <2>2. \A i \in DOMAIN sent : sent[i].by \in Workers => Doing(job'[sent[i].by], "saved")
      BY <1>1, <2>1 DEF ControlInv, SentInv
    <2>3. SentInv'
      BY <1>3, <2>2 DEF ControlInv, SentInv
    <2>4. unsaved' \in BOOLEAN
      <3>1. \/ unsaved' = unsaved \/ Sends(w) \/ Refuses(w) \/ Fails(w)
        BY <1>3, StoreCases
      <3>2. Sends(w) \/ Refuses(w) => unsaved' \in BOOLEAN
        BY DEF Sends, Refuses
      <3> QED
        BY <1>0, <1>3, <3>1, <3>2
    <2> QED
      BY <1>0, <1>3, <2>3, <2>4
  <1>4. CASE Sends(w)
    <2> DEFINE m == [by |-> w, data |-> doc[cached], old |-> FALSE]
    <2>1. sent' = Append(sent, m) /\ unsaved' = FALSE /\ m \in Messages
          /\ Doing(job'[w], "saved")
      BY <1>0, <1>4 DEF Sends, Messages
    <2>2. m.by = w
      OBVIOUS
    <2> HIDE DEF m
    <2>3. /\ sent' \in Seq(Messages) /\ DOMAIN sent' = 1 .. Len(sent) + 1
          /\ DOMAIN sent = 1 .. Len(sent) /\ Len(sent) \in Nat
          /\ sent'[Len(sent) + 1] = m /\ \A k \in 1 .. Len(sent) : sent'[k] = sent[k]
      BY <1>0, <2>1
    <2>4. \A k \in DOMAIN sent : sent[k].by # w
      <3>1. ~At(w, "saved")
        BY <1>4 DEF Sends, At
      <3> QED
        BY <3>1 DEF ControlInv, SentInv, Doing, At
    <2>5. \A k \in DOMAIN sent' : sent'[k].by \in Workers => Doing(job'[sent'[k].by], "saved")
      <3> SUFFICES ASSUME NEW k \in DOMAIN sent', sent'[k].by \in Workers
                   PROVE  Doing(job'[sent'[k].by], "saved")
        OBVIOUS
      <3>1. CASE k = Len(sent) + 1
        BY <2>1, <2>2, <2>3, <3>1
      <3>2. CASE k \in DOMAIN sent
        <4>1. sent'[k].by = sent[k].by /\ sent[k].by \in Workers \ {w}
          BY <2>3, <2>4, <3>2
        <4>2. Doing(job[sent[k].by], "saved") /\ job'[sent[k].by] = job[sent[k].by]
          BY <1>1, <3>2, <4>1 DEF ControlInv, SentInv
        <4> QED
          BY <4>1, <4>2
      <3> QED
        BY <2>3, <3>1, <3>2
    <2>6. \A i, k \in DOMAIN sent' : sent'[i].by = sent'[k].by /\ sent'[i].by \in Workers => i = k
      BY <2>2, <2>3, <2>4 DEF ControlInv, SentInv
    <2> QED
      BY <2>1, <2>3, <2>5, <2>6 DEF SentInv
  <1> QED
    BY <1>2, <1>3, <1>4, StoreCases DEF Refuses

\* Before there is a document in memory only the load at boot takes steps.
LEMMA BootSteps ==
    ASSUME ~ColdStart, ControlInv, cached = None, NEW w \in Workers, Step(w) \/ Fails(w)
    PROVE  /\ Load(w) \/ Select(w) \/ Loaded(w) \/ SeedInitial(w)
           /\ job[w].op = "boot" /\ sent = <<>> /\ Boots(w) /\ UNCHANGED sent
  <1>1. job[w].todo # <<>> /\ job[w] # Idle
    BY StepEffect, IdleJob
  <1>2. job[w].op = "boot" /\ Boots(w) /\ sent = <<>>
    BY <1>1, OnlyBoot DEF ControlInv, BootInv
  <1>3. ~Fails(w)
    BY <1>2 DEF Fails
  <1>4. Head(job[w].todo) \in {"load", "select", "loaded", "seed"}
    BY <1>2 DEF Boots, BootLists
  <1>5. Load(w) \/ Select(w) \/ Loaded(w) \/ SeedInitial(w) \/ Saved(w)
    BY <1>1, <1>3, <1>4, OtherSteps DEF At
  <1>6. ~Saved(w)
    BY <1>4 DEF Saved, At
  <1>7. UNCHANGED sent
    BY <1>5, <1>6, Zenon DEF Load, Select, Loaded, SeedInitial, store
  <1> QED
    BY <1>2, <1>5, <1>6, <1>7

LEMMA BootHeads ==
    /\ << "select", "loaded" >> \in BootLists /\ << "loaded" >> \in BootLists
    /\ << "seed", "loaded" >> \in BootLists
    /\ << "select", "loaded" >> # <<>> /\ Head(<< "select", "loaded" >>) = "select"
    /\ << "loaded" >> # <<>> /\ Head(<< "loaded" >>) = "loaded"
    /\ << "seed", "loaded" >> # <<>> /\ Head(<< "seed", "loaded" >>) = "seed"
  BY DEF BootLists

LEMMA BootKept ==
    ASSUME ~ColdStart, ControlInv, NEW w \in Workers, Step(w) \/ Fails(w)
    PROVE  /\ BootInv'
           /\ cached' = cached \/ \A v \in Workers : job'[v] = Idle
  <1>1. /\ \A v \in Workers \ {w} : job'[v] = job[v]
        /\ job'[w] = Idle \/ SameRequest(job[w], job'[w])
    BY StepEffect DEF Effect, Continues
  <1>2. CASE cached # None
    <2>1. \A v \in Workers : job[v].op # "boot"
      BY <1>2 DEF ControlInv, BootInv, Boots
    <2>2. cached' = cached
      BY <1>2, StepEffect, LoadedEffect
    <2>3. \A v \in Workers : job'[v].op # "boot"
      BY <1>1, <2>1, IdleJob DEF SameRequest
    <2> QED
      BY <1>2, <2>2, <2>3 DEF BootInv
  <1>3. CASE cached = None
    <2>1. /\ Load(w) \/ Select(w) \/ Loaded(w) \/ SeedInitial(w)
          /\ job[w].op = "boot" /\ sent' = <<>> /\ \A v \in Workers \ {w} : job'[v] = Idle
      BY <1>1, <1>3, BootSteps DEF Boots
    <2>2. ASSUME cached' = None, job'[w].op = "boot", job'[w].todo \in BootLists,
                 Doing(job'[w], "loaded") \/ Doing(job'[w], "seed") => job'[w].read = row',
                 Doing(job'[w], "seed") => row' = None
          PROVE  BootInv'
      <3>1. \A v \in Workers : job'[v].op = "boot" => v = w
        BY <2>1, IdleJob
      <3> QED
        BY <2>1, <2>2, <3>1 DEF BootInv, Boots
    <2>3. job'[w] # Idle => job'[w].op = "boot"
      BY <1>1, <2>1 DEF SameRequest
    <2>4. CASE Load(w)
      <3>1. cached' = None /\ job'[w].todo = << "select", "loaded" >>
        BY <1>3, <2>4, LoadEffect
      <3> QED
        BY <1>3, <2>2, <2>3, <3>1, IdleJob, BootHeads DEF Doing
    <2>5. CASE Select(w)
      <3>1. /\ cached' = None /\ job'[w].todo = << "loaded" >> /\ job'[w].read = row
            /\ row' = row
        BY <1>3, <2>5, SelectEffect DEF Select, store
      <3> QED
        BY <1>3, <2>2, <2>3, <3>1, IdleJob, BootHeads DEF Doing
    <2>6. CASE SeedInitial(w)
      <3>1. /\ cached' = None /\ job'[w].todo = << "loaded" >> /\ job'[w].read = row'
        BY <1>3, <2>6, SeedEffect DEF SeedInitial
      <3> QED
        BY <1>3, <2>2, <2>3, <3>1, IdleJob, BootHeads DEF Doing
    <2>7. CASE Loaded(w)
      <3>1. row' = row
        BY <2>7 DEF Loaded, store
      <3>2. CASE row = None
        <4>1. cached' = None /\ job'[w].todo = << "seed", "loaded" >> /\ job'[w].read = row'
          BY <1>3, <2>7, <3>1, <3>2, LoadedEffect
        <4> QED
          BY <1>3, <2>2, <2>3, <3>1, <3>2, <4>1, IdleJob, BootHeads DEF Doing
      <3>3. CASE row # None
        <4>1. cached' = w /\ job'[w] = Idle /\ None \notin Workers
          BY <1>3, <2>7, <3>3, LoadedEffect, CatalogueConstants
        <4>2. \A v \in Workers : job'[v] = Idle
          BY <2>1, <4>1
        <4> QED
          BY <4>1, <4>2, IdleJob DEF BootInv
      <3> QED
        BY <3>2, <3>3
    <2> QED
      BY <2>1, <2>4, <2>5, <2>6, <2>7
  <1> QED
    BY <1>2, <1>3

LEMMA ControlStep ==
    ASSUME ~ColdStart, ControlInv, NEW w \in Workers, Step(w) \/ Fails(w)
    PROVE  ControlInv'
  <1>1. Effect(w) /\ BootInv' /\ (cached' = cached \/ \A v \in Workers : job'[v] = Idle)
    BY StepEffect, BootKept
  <1>2. /\ row \in Documents \cup {None} /\ FirstDocument \in Documents
        /\ cached # None => row \in Documents
    BY CatalogueConstants DEF ControlInv, TypeInv, FirstDocument, Documents
  <1>3. row' \in Documents \cup {None} /\ (row' = row \/ row' = FirstDocument)
    <2>1. Sends(w) \/ Refuses(w) \/ SeedInitial(w) => row' = row \/ row' = FirstDocument
      BY SeedEffect DEF Sends, Refuses
    <2> QED
      BY <1>2, <2>1, StoreCases
  <1>4. cached' # None => row' \in Documents
    <2>1. CASE cached' = cached
      BY <1>2, <1>3, <2>1
    <2>2. CASE cached' # cached
      <3>1. Loaded(w) /\ row # None
        BY <2>2, StepEffect
      <3> QED
        BY <1>2, <1>3, <3>1
    <2> QED
      BY <2>1, <2>2
  <1>5. /\ doc' \in [Workers -> Documents \cup {None}] /\ cached' \in Workers \cup {None}
        /\ cached' # None => doc'[cached'] \in Documents
    BY DocTypes
  <1>6. sent' \in Seq(Messages) /\ SentInv'
        /\ unsaved' \in BOOLEAN /\ granted' \in [Products -> Nat]
        /\ late' \in BOOLEAN /\ undone' \in BOOLEAN
    BY SentNext, GrantedTyped, HistoryCases DEF ControlInv, TypeInv
  <1>7. /\ types' \in Table /\ known' \in Table \cup {None}
        /\ orders' \in [Orders -> {"none", "live", "returned"}]
    BY TypesTyped, OrdersTyped
  <1>8. TypeInv'
    BY <1>1, <1>3, <1>4, <1>5, <1>6, <1>7 DEF TypeInv, Effect
  <1>9. \A v \in Workers : Ctl(job'[v], cached', lock' = v)
    <2>1. CASE \A v \in Workers : job'[v] = Idle
      BY <2>1, IdleCtl
    <2>2. CASE cached' = cached
      <3> SUFFICES ASSUME NEW v \in Workers
                   PROVE  Ctl(job'[v], cached', lock' = v)
        OBVIOUS
      <3>1. CASE v = w
        BY <1>1, <3>1 DEF Effect
      <3>2. CASE v # w
        <4>1. Ctl(job[v], cached, lock = v) /\ job'[v] = job[v] /\ (lock' = v <=> lock = v)
          BY <1>1, <3>2 DEF Effect, ControlInv
        <4> QED
          BY <2>2, <4>1 DEF Ctl, Locks
      <3> QED
        BY <3>1, <3>2
    <2> QED
      BY <1>1, <2>1, <2>2
  <1> QED
    BY <1>1, <1>6, <1>8, <1>9 DEF ControlInv

LEMMA ControlInit == Init => ControlInv
  <1> SUFFICES ASSUME Init PROVE ControlInv
    OBVIOUS
  <1>1. \A w \in Workers : job[w] = Idle
    BY DEF Init
  <1>2. TypeInv
    <2>1. job \in [Workers -> Jobs]
      BY IdleJob DEF Init
    <2>2. /\ types \in Table /\ doc \in [Workers -> Documents \cup {None}]
          /\ orders \in [Orders -> {"none", "live", "returned"}]
          /\ sent \in Seq(Messages)
      BY CatalogueConstants DEF Init
    <2> QED
      BY <2>1, <2>2 DEF Init, TypeInv
  <1>3. BootInv
    BY <1>1, IdleJob DEF Init, BootInv
  <1>4. SentInv
    BY DEF Init, SentInv
  <1> QED
    BY <1>1, <1>2, <1>3, <1>4, IdleCtl DEF ControlInv

LEMMA ControlBegun ==
    ASSUME ControlInv, NEW w \in Workers, job[w] = Idle, NEW k, Begun(w, k)
    PROVE  ControlInv'
  <1>1. /\ job' = [job EXCEPT ![w] = k] /\ k \in Jobs /\ job \in [Workers -> Jobs]
        /\ Ctl(k, cached, lock = w)
        /\ UNCHANGED << row, sent, unsaved, late, undone, granted, doc, cached, types, known,
                        lock, orders, listed >>
        /\ \/ k.op = "boot" /\ k.todo = << "load" >> /\ cached = None /\ AllIdle
           \/ k.op # "boot" /\ cached # None
    BY Zenon DEF Begun, store, ControlInv, TypeInv
  <1>2. /\ job' \in [Workers -> Jobs] /\ job'[w] = k
        /\ \A v \in Workers \ {w} : job'[v] = job[v]
    BY <1>1
  <1>3. TypeInv'
    BY <1>1, <1>2 DEF TypeInv, ControlInv
  <1>4. BootInv'
    <2>1. CASE k.op = "boot" /\ k.todo = << "load" >> /\ cached = None /\ AllIdle
      <3>1. \A v \in Workers \ {w} : job'[v] = Idle
        BY <1>2, <2>1 DEF AllIdle
      <3>2. \A v \in Workers : job'[v].op = "boot" => v = w
        BY <3>1, IdleJob
      <3>3. k.todo \in BootLists /\ ~Doing(k, "loaded") /\ ~Doing(k, "seed")
        BY <2>1 DEF BootLists, Doing
      <3>4. sent' = <<>> /\ cached' = None
        BY <1>1, <2>1 DEF ControlInv, BootInv
      <3> QED
        BY <1>2, <2>1, <3>1, <3>2, <3>3, <3>4 DEF BootInv, Boots
    <2>2. CASE k.op # "boot" /\ cached # None
      <3>1. \A v \in Workers : job'[v].op # "boot"
        BY <1>2, <2>2 DEF ControlInv, BootInv, Boots
      <3> QED
        BY <1>1, <2>2, <3>1 DEF BootInv
    <2> QED
      BY <1>1, <2>1, <2>2
  <1>5. SentInv'
    <2>1. \A i \in DOMAIN sent : sent[i].by # w
      BY IdleJob DEF ControlInv, SentInv, Doing
    <2> QED
      BY <1>1, <1>2, <2>1 DEF ControlInv, SentInv
  <1>6. \A v \in Workers : Ctl(job'[v], cached', lock' = v)
    <2>1. \A v \in Workers : Ctl(job'[v], cached, lock = v)
      BY <1>1, <1>2 DEF ControlInv
    <2> QED
      BY <1>1, <2>1
  <1> QED
    BY <1>3, <1>4, <1>5, <1>6 DEF ControlInv

\* What the arrival of a save does to the messages, the store and the memory.
LEMMA UpsertThins ==
    ASSUME ControlInv, Upsert
    PROVE  /\ cached # None /\ row \in Documents
           /\ UNCHANGED << unsaved, undone, granted, doc, cached, types, known, lock, orders, job,
                           listed >>
           /\ \E i \in DOMAIN sent : /\ row' = sent[i].data /\ late' = sent[i].old
                                     /\ Without(i, i) /\ Thinned(None, i)
  <1> DEFINE marked(i) == [k \in DOMAIN sent |-> IF k < i THEN [sent[k] EXCEPT !.old = TRUE]
                                                ELSE sent[k]]
  <1>1. PICK i \in DOMAIN sent : /\ row' = sent[i].data /\ late' = sent[i].old
                                 /\ sent' = RemoveAt(marked(i), i)
    BY Zenon DEF Upsert
  <1>2. UNCHANGED << unsaved, undone, granted, doc, cached, types, known, lock, orders, job, listed >>
    BY Zenon DEF Upsert, typeVars
  <1>3. sent \in Seq(Messages)
    BY DEF ControlInv, TypeInv
  <1>4. DOMAIN sent = 1 .. Len(sent) /\ Len(sent) \in Nat /\ i \in 1 .. Len(sent)
        /\ \A k \in DOMAIN sent : sent[k] \in Messages
    BY <1>3
  <1> DEFINE M(k) == IF k < i THEN [sent[k] EXCEPT !.old = TRUE] ELSE sent[k]
             s == [k \in DOMAIN sent |-> M(k)]
  <1>5. ASSUME NEW k \in DOMAIN sent
        PROVE  /\ M(k) \in Messages /\ M(k).data = sent[k].data /\ M(k).by = sent[k].by
               /\ M(k).old = (sent[k].old \/ k < i)
    BY <1>4 DEF Messages
  <1>6. sent' = RemoveAt(s, i)
    BY <1>1, Zenon
  <1> HIDE DEF M
  <1>7. /\ s \in Seq(Messages) /\ Len(s) = Len(sent) /\ DOMAIN s = DOMAIN sent
        /\ \A k \in DOMAIN sent : s[k] = M(k)
    BY <1>4, <1>5
  <1> HIDE DEF s
  <1>8. /\ sent' \in Seq(Messages) /\ Len(s) \in Nat \ {0} /\ DOMAIN s = 1 .. Len(s)
        /\ Len(sent') = Len(s) - 1 /\ DOMAIN sent' = 1 .. Len(s) - 1
        /\ \A k \in 1 .. Len(s) - 1 : sent'[k] = IF k < i THEN s[k] ELSE s[k + 1]
    BY <1>4, <1>6, <1>7, RemoveAtOf
  <1>9. Without(i, i)
    <2>1. ASSUME NEW k \in 1 .. Len(sent) - 1, NEW m, m = IF k < i THEN k ELSE k + 1
          PROVE  /\ sent'[k].data = sent[m].data /\ sent'[k].by = sent[m].by
                 /\ sent'[k].old = (sent[m].old \/ m < i)
      <3>1. sent'[k] = s[m] /\ m \in DOMAIN sent
        BY <1>4, <1>7, <1>8, <2>1
      <3> QED
        BY <1>5, <1>7, <3>1
    <2> QED
      BY <1>4, <1>7, <1>8, <2>1 DEF Without
  <1>10. Thinned(None, i)
    BY <1>3, <1>4, <1>9, RemoveThins
  <1>11. sent # <<>>
    BY <1>4
  <1>12. cached # None /\ row \in Documents
    BY <1>11 DEF ControlInv, BootInv, TypeInv
  <1> QED
    BY <1>1, <1>2, <1>9, <1>10, <1>12

LEMMA ControlUpsert == ASSUME ControlInv, Upsert PROVE ControlInv'
  <1>1. /\ cached # None
        /\ UNCHANGED << unsaved, undone, granted, doc, cached, types, known, lock, orders, job,
                        listed >>
    BY UpsertThins
  <1>2. PICK i \in DOMAIN sent : row' = sent[i].data /\ late' = sent[i].old /\ Thinned(None, i)
    BY UpsertThins
  <1>3. row' \in Documents /\ late' \in BOOLEAN
    <2>1. sent \in Seq(Messages)
      BY DEF ControlInv, TypeInv
    <2>2. sent[i] \in Messages
      BY <2>1
    <2> QED
      BY <1>2, <2>2 DEF Messages
  <1>4. SentInv' /\ sent' \in Seq(Messages)
    <2>1. \A v \in Workers : v = None \/ job'[v] = job[v]
      BY <1>1
    <2>2. SentInv'
      BY <1>2, <2>1, ThinnedSent
    <2> QED
      BY <1>2, <2>2 DEF Thinned
  <1>5. TypeInv'
    BY <1>1, <1>3, <1>4 DEF ControlInv, TypeInv
  <1>6. BootInv'
    BY <1>1 DEF ControlInv, BootInv, Boots
  <1>7. \A v \in Workers : Ctl(job'[v], cached', lock' = v)
    BY <1>1 DEF ControlInv
  <1> QED
    BY <1>4, <1>5, <1>6, <1>7 DEF ControlInv

LEMMA ControlRestart == ASSUME ControlInv, Restart PROVE ControlInv'
  <1>1. /\ sent' = <<>> /\ unsaved' = FALSE /\ late' = FALSE /\ doc' = [w \in Workers |-> None]
        /\ cached' = None /\ known' = None /\ lock' = None
        /\ job' = [w \in Workers |-> Idle] /\ UNCHANGED << granted, types, orders >>
        /\ \/ row' = row /\ undone' = (undone \/ late)
           \/ \E i \in DOMAIN sent : row' = sent[i].data /\ undone' = (undone \/ sent[i].old)
    BY Zenon DEF Restart
  <1>2. row' \in Documents \cup {None} /\ undone' \in BOOLEAN
    <2>1. /\ sent \in Seq(Messages) /\ row \in Documents \cup {None}
          /\ undone \in BOOLEAN /\ late \in BOOLEAN
      BY DEF ControlInv, TypeInv
    <2>2. \A i \in DOMAIN sent : sent[i] \in Messages
      BY <2>1
    <2> QED
      BY <1>1, <2>1, <2>2 DEF Messages
  <1>3. \A w \in Workers : job'[w] = Idle
    BY <1>1
  <1>4. TypeInv'
    <2>1. job' \in [Workers -> Jobs]
      BY <1>1, IdleJob
    <2>2. /\ doc' \in [Workers -> Documents \cup {None}]
          /\ sent' \in Seq(Messages)
      BY <1>1
    <2> QED
      BY <1>1, <1>2, <2>1, <2>2 DEF ControlInv, TypeInv
  <1>5. BootInv'
    BY <1>1, <1>3, IdleJob DEF BootInv
  <1>6. SentInv'
    BY <1>1 DEF SentInv
  <1> QED
    BY <1>3, <1>4, <1>5, <1>6, IdleCtl DEF ControlInv

LEMMA NextCases ==
    ASSUME Next
    PROVE  \/ \E w \in Workers : Turn(w) /\ (Step(w) \/ Fails(w))
           \/ \E w \in Workers : job[w] = Idle /\ Running = {} /\ (Boot(w) \/ Customer(w) \/ Admin(w))
           \/ Running = {} /\ Upsert
           \/ Running = {} /\ Restart
  BY Zenon DEF Next

\* What every handler knows, wherever it stands and whatever else runs: the document it
\* uses is the shared one, the steps that need the stock lock are taken under it, and a
\* save under way has its handler waiting for it or was given up.
THEOREM HandlersInControl ==
    ASSUME ~ColdStart
    PROVE  Spec => []ControlInv
  <1>1. ControlInv /\ [Next]_vars => ControlInv'
    <2> SUFFICES ASSUME ControlInv, [Next]_vars PROVE ControlInv'
      OBVIOUS
    <2>1. CASE \E w \in Workers : Turn(w) /\ (Step(w) \/ Fails(w))
      BY <2>1, ControlStep
    <2>2. CASE \E w \in Workers : job[w] = Idle /\ Running = {} /\ (Boot(w) \/ Customer(w) \/ Admin(w))
      BY <2>2, BeginEffect, ControlBegun
    <2>3. CASE Running = {} /\ Upsert
      BY <2>3, ControlUpsert
    <2>4. CASE Running = {} /\ Restart
      BY <2>4, ControlRestart
    <2>5. CASE UNCHANGED vars
      <3>1. UNCHANGED << row, doc, cached, sent, types, known, lock, orders, job, unsaved, late, undone,
                        granted >>
        BY <2>5 DEF vars
      <3> QED
        BY <3>1 DEF ControlInv, TypeInv, BootInv, Boots, SentInv
    <2> QED
      BY <2>1, <2>2, <2>3, <2>4, <2>5, NextCases
  <1> QED
    BY <1>1, ControlInit, PTL DEF Spec

-----------------------------------------------------------------------------
(* The document that PostgreSQL has is the one the shop shows.              *)

\* A save is due, or about to be counted; and what a restart would find once the saves
\* under way have arrived.  The old saves are those before some place: if the last one is
\* old, a later one has been executed.
Pending == \E w \in Workers : Doing(job[w], "count") \/ Doing(job[w], "save")
AgeInv == \A i, k \in DOMAIN sent : i < k /\ sent[k].old => sent[i].old
Newest == sent # <<>> /\ ~sent[Len(sent)].old
Matches == IF Newest THEN sent[Len(sent)].data = doc[cached] ELSE late \/ row = doc[cached]
ShownInv == AgeInv /\ (cached # None => unsaved \/ Pending \/ Matches)

\* What goes, and what grows old with all that is before it, leaves the order of ages.
LEMMA ThinnedAge ==
    ASSUME sent \in Seq(Messages), AgeInv, NEW w, NEW n \in Nat, Thinned(w, n)
    PROVE  AgeInv'
  <1>1. PICK at \in [DOMAIN sent' -> DOMAIN sent] :
            /\ \A i, k \in DOMAIN sent' : i < k => at[i] < at[k]
            /\ \A k \in DOMAIN sent' : sent'[k].old = (sent[at[k]].old \/ at[k] < n)
    BY DEF Thinned
  <1>2. ASSUME NEW i \in DOMAIN sent', NEW k \in DOMAIN sent', i < k, sent'[k].old
        PROVE  sent'[i].old
    <2>1. at[i] \in DOMAIN sent /\ at[k] \in DOMAIN sent
      BY <1>2
    <2>2. at[i] \in Nat /\ at[k] \in Nat
      BY <2>1
    <2>3. at[i] < at[k] /\ (sent[at[k]].old \/ at[k] < n)
      BY <1>1, <1>2
    <2>4. sent[at[i]].old \/ at[i] < n
      BY <2>1, <2>2, <2>3 DEF AgeInv
    <2> QED
      BY <1>1, <2>4
  <1> QED
    BY <1>2 DEF AgeInv

LEMMA AgeStep ==
    ASSUME ControlInv, AgeInv, NEW w \in Workers, Step(w) \/ Fails(w)
    PROVE  AgeInv'
  <1>0. sent \in Seq(Messages)
    BY DEF ControlInv, TypeInv
  <1>1. CASE UNCHANGED sent
    BY <1>1 DEF AgeInv
  <1>2. CASE Fails(w)
    BY <1>0, <1>2, FailsThins, ThinnedAge
  <1>3. CASE Sends(w)
    <2> DEFINE m == [by |-> w, data |-> doc[cached], old |-> FALSE]
    <2>1. sent' = Append(sent, m) /\ m.old = FALSE
      BY <1>3 DEF Sends
    <2>2. m \in Messages
      BY <1>3 DEF Sends, ControlInv, TypeInv, Messages
    <2> HIDE DEF m
    <2>3. /\ DOMAIN sent' = 1 .. Len(sent) + 1 /\ DOMAIN sent = 1 .. Len(sent) /\ Len(sent) \in Nat
          /\ sent'[Len(sent) + 1] = m /\ \A k \in 1 .. Len(sent) : sent'[k] = sent[k]
      BY <1>0, <2>1, <2>2
    <2>4. ASSUME NEW i \in DOMAIN sent', NEW k \in DOMAIN sent', i < k, sent'[k].old
          PROVE  sent'[i].old
      <3>1. k # Len(sent) + 1
        BY <2>1, <2>3, <2>4
      <3>2. i \in 1 .. Len(sent) /\ k \in 1 .. Len(sent)
        BY <2>3, <2>4, <3>1
      <3> QED
        BY <2>3, <2>4, <3>2 DEF AgeInv
    <2> QED
      BY <2>4 DEF AgeInv
  <1> QED
    BY <1>1, <1>2, <1>3, StoreCases DEF Refuses

LEMMA StepAt ==
    ASSUME NEW w \in Workers, Step(w)
    PROVE  /\ (At(w, "load") => Load(w)) /\ (At(w, "save") => Save(w))
           /\ (At(w, "count") => CountStored(w)) /\ (At(w, "saved") => Saved(w))
           /\ (At(w, "lock") => Lock(w)) /\ (At(w, "take") => TakeStock(w))
           /\ (At(w, "place") => PlaceOrder(w)) /\ (At(w, "claim") => ClaimRestore(w))
           /\ (At(w, "restock") => RestockItems(w))
  <1>1. CASE \/ Select(w) \/ Loaded(w) \/ SeedInitial(w) \/ ListTypes(w) \/ AskTypes(w)
             \/ TypesTold(w) \/ CheckName(w) \/ InsertType(w) \/ UpdateType(w) \/ PinProducts(w)
    <2>1. \E s \in {"select", "loaded", "seed", "types", "ask", "told", "name", "insert",
                    "update", "pin"} : At(w, s)
      BY <1>1, Zenon DEF Select, Loaded, SeedInitial, ListTypes, AskTypes, TypesTold, CheckName,
           InsertType, UpdateType, PinProducts
    <2> QED
      BY <2>1 DEF At
  <1>2. CASE \/ CheckUnused(w) \/ DeleteType(w) \/ ForgetTypes(w) \/ MoveProducts(w)
             \/ FindProduct(w) \/ ApplyType(w) \/ PutProduct(w) \/ PushProduct(w) \/ CopyProduct(w)
             \/ DropProduct(w) \/ EditPage(w)
    <2>1. \E s \in {"unused", "delete", "forget", "move", "find", "resolve", "put", "push", "copy",
                    "drop", "page"} : At(w, s)
      BY <1>2, Zenon DEF CheckUnused, DeleteType, ForgetTypes, MoveProducts, FindProduct,
           ApplyType, PutProduct, PushProduct, CopyProduct, DropProduct, EditPage
    <2> QED
      BY <2>1 DEF At
  <1>3. CASE \/ Load(w) \/ Save(w) \/ CountStored(w) \/ Saved(w) \/ Lock(w)
             \/ TakeStock(w) \/ PlaceOrder(w) \/ ClaimRestore(w) \/ RestockItems(w)
    <2>1. (Load(w) => At(w, "load")) /\ (Save(w) => At(w, "save")) /\ (Saved(w) => At(w, "saved"))
      BY Zenon DEF Load, Save, Saved
    <2>2. (CountStored(w) => At(w, "count")) /\ (Lock(w) => At(w, "lock"))
          /\ (TakeStock(w) => At(w, "take"))
      BY Zenon DEF CountStored, Lock, TakeStock
    <2>3. (PlaceOrder(w) => At(w, "place")) /\ (ClaimRestore(w) => At(w, "claim"))
          /\ (RestockItems(w) => At(w, "restock"))
      BY Zenon DEF PlaceOrder, ClaimRestore, RestockItems
    <2> QED
      BY <1>3, <2>1, <2>2, <2>3 DEF At
  <1> QED
    BY <1>1, <1>2, <1>3 DEF Step

\* Whoever writes the document goes on to save it.
LEMMA EditPends ==
    ASSUME ControlInv, NEW w \in Workers, Step(w) \/ Fails(w), ~Loaded(w)
    PROVE  UNCHANGED doc \/ Doing(job'[w], "save")
  <1>0. job \in [Workers -> Jobs]
    BY DEF ControlInv, TypeInv
  <1>1. CASE PinProducts(w) \/ MoveProducts(w)
    <2>1. Rest(w) \in Seq(Steps)
      <3>1. job[w].todo # <<>>
        BY <1>1, Zenon DEF PinProducts, MoveProducts, At
      <3> QED
        BY <3>1, RestSteps
    <2>2. UNCHANGED doc \/ Turns(w, << "save" >> \o Rest(w))
      BY <1>1, Zenon DEF PinProducts, MoveProducts
    <2>3. /\ << "save" >> \o Rest(w) \in Seq(Steps) /\ << "save" >> \o Rest(w) # <<>>
          /\ Head(<< "save" >> \o Rest(w)) = "save"
      <3>1. "save" \in Steps
        BY DEF Steps
      <3> QED
        BY <2>1, <3>1, ConsOf
    <2>4. Turns(w, << "save" >> \o Rest(w)) => job'[w].todo = << "save" >> \o Rest(w)
      BY <1>0, <2>3, TodoSet DEF Turns
    <2> QED
      BY <2>2, <2>3, <2>4 DEF Doing
  <1>2. CASE \/ PutProduct(w) \/ PushProduct(w) \/ DropProduct(w) \/ EditPage(w)
             \/ TakeStock(w) \/ RestockItems(w)
    <2>1. PICK s \in Edits : At(w, s)
      <3>1. \E s \in {"put", "push", "drop", "page", "take", "restock"} : At(w, s)
        BY <1>2, Zenon DEF PutProduct, PushProduct, DropProduct, EditPage, TakeStock, RestockItems
      <3> QED
        BY <3>1 DEF Edits
    <2>2. Rest(w) # <<>> /\ Head(Rest(w)) = "save" /\ Rest(w) \in Seq(Steps)
      BY <2>1, AtHead, RestSteps DEF At
    <2>3. UNCHANGED doc \/ Proceeds(w)
      BY <1>2, Zenon DEF PutProduct, PushProduct, DropProduct, EditPage, TakeStock, RestockItems
    <2>4. Proceeds(w) => job'[w].todo = Rest(w)
      BY <1>0, <2>2, TodoSet DEF Proceeds, Turns
    <2> QED
      BY <2>2, <2>3, <2>4 DEF Doing
  <1> QED
    BY <1>1, <1>2, DocCases

LEMMA ShownStep ==
    ASSUME ~ColdStart, ControlInv, ShownInv, NEW w \in Workers, Step(w) \/ Fails(w)
    PROVE  ShownInv'
  <1>1. \A v \in Workers \ {w} : job'[v] = job[v]
    BY StepEffect DEF Effect
  <1>2. CASE Loaded(w) /\ row # None
    <2>1. cached = None /\ doc' = [doc EXCEPT ![w] = row] /\ cached' = w
      BY <1>2, LoadedEffect
    <2>2. sent = <<>> /\ doc \in [Workers -> Documents \cup {None}]
      BY <2>1 DEF ControlInv, BootInv, TypeInv
    <2>3. sent' = sent /\ row' = row
      BY <1>2, Zenon DEF Loaded, store
    <2>4. doc'[cached'] = row
      BY <2>1, <2>2
    <2>5. AgeInv'
      BY AgeStep DEF ShownInv
    <2> QED
      BY <2>2, <2>3, <2>4, <2>5 DEF ShownInv, Matches, Newest
  <1>3. CASE cached' = cached
    <2>0. AgeInv'
      BY AgeStep DEF ShownInv
    <2> SUFFICES ASSUME cached # None PROVE unsaved' \/ Pending' \/ Matches'
      BY <1>3, <2>0 DEF ShownInv
    <2>1. ~Loaded(w) /\ ~SeedInitial(w)
      BY LoadedEffect, SeedEffect
    <2>2. CASE ~UNCHANGED doc
      BY <2>1, <2>2, EditPends DEF Pending
    <2>3. CASE UNCHANGED doc
      <3>1. ASSUME NEW v \in Workers \ {w}, Doing(job[v], "count") \/ Doing(job[v], "save")
            PROVE  Pending'
        BY <1>1, <3>1 DEF Pending
      <3>2. CASE Sends(w)
        <4> DEFINE m == [by |-> w, data |-> doc[cached], old |-> FALSE]
        <4>1. sent' = Append(sent, m) /\ m.data = doc[cached] /\ m.old = FALSE
          BY <3>2 DEF Sends
        <4>2. m \in Messages /\ sent \in Seq(Messages)
          BY DEF ControlInv, TypeInv, Messages
        <4> HIDE DEF m
        <4>3. sent' # <<>> /\ sent'[Len(sent')] = m
          BY <4>1, <4>2
        <4> QED
          BY <1>3, <2>3, <4>1, <4>3 DEF Matches, Newest
      <3>3. CASE Refuses(w)
        BY <3>3 DEF Refuses
      <3>4. CASE Fails(w)
        <4>1. \/ unsaved' = TRUE
              \/ /\ unsaved' = unsaved /\ ~At(w, "count")
                 /\ (sent = <<>>) <=> (sent' = <<>>)
                 /\ sent # <<>> => SameLast
          BY <3>4, FailsThins
        <4>2. ~At(w, "save") /\ row' = row /\ late' = late
          BY <3>4 DEF Fails, At, Waits
        <4>3. CASE unsaved' = TRUE
          BY <4>3
        <4>4. CASE unsaved' = unsaved /\ ~At(w, "count") /\ Matches' = Matches
          <5>1. Pending => Pending'
            BY <3>1, <4>2, <4>4 DEF Pending, At, Doing
          <5> QED
            BY <2>3, <4>4, <5>1 DEF ShownInv
        <4>5. ((sent = <<>>) <=> (sent' = <<>>)) /\ (sent # <<>> => SameLast) => Matches' = Matches
          <5>1. CASE sent = <<>> /\ sent' = <<>>
            BY <1>3, <2>3, <4>2, <5>1 DEF Matches, Newest
          <5>2. CASE sent # <<>> /\ sent' # <<>> /\ SameLast
            BY <1>3, <2>3, <4>2, <5>2 DEF Matches, Newest, SameLast
          <5> QED
            BY <5>1, <5>2
        <4> QED
          BY <4>1, <4>3, <4>4, <4>5
      <3>5. CASE UNCHANGED << row, sent, unsaved >> /\ Step(w) /\ ~Sends(w)
        <4>1. Matches' = Matches
          <5>1. late' = late
            BY HistoryCases
          <5> QED
            BY <1>3, <2>3, <3>5, <5>1 DEF Matches, Newest
        <4>2. CASE At(w, "count")
          <5>1. CountStored(w)
            BY <3>5, <4>2, StepAt
          <5>2. unsaved' = TRUE \/ sent' = Append(sent, [by |-> w, data |-> Mine(w), old |-> FALSE])
            BY <5>1, Zenon DEF CountStored, Send
          <5>3. sent \in Seq(Messages) /\ Mine(w) \in Documents
            <6>1. job[w].on = cached
              BY <4>2, AtHead DEF Uses
            <6> QED
              BY <6>1 DEF ControlInv, TypeInv, Mine
          <5>4. [by |-> w, data |-> Mine(w), old |-> FALSE] \in Messages
            BY <5>3 DEF Messages
          <5>5. sent' # Append(sent, [by |-> w, data |-> Mine(w), old |-> FALSE])
            <6> DEFINE m == [by |-> w, data |-> Mine(w), old |-> FALSE]
            <6> HIDE DEF m
            <6>1. m \in Messages => Len(Append(sent, m)) # Len(sent)
              BY <5>3
            <6> QED
              BY <3>5, <5>4, <6>1 DEF m
          <5> QED
            BY <5>2, <5>5
        <4>3. CASE At(w, "save")
          <5>1. Save(w)
            BY <3>5, <4>3, StepAt
          <5>2. \/ sent' = Append(sent, [by |-> w, data |-> Mine(w), old |-> FALSE])
                \/ job' = [job EXCEPT ![w].todo = << "count" >> \o Rest(w)]
            BY <5>1, Zenon DEF Save, Send
          <5>3. sent \in Seq(Messages) /\ Mine(w) \in Documents
            <6>1. job[w].on = cached
              BY <4>3, AtHead DEF Uses
            <6> QED
              BY <6>1 DEF ControlInv, TypeInv, Mine
          <5>4. [by |-> w, data |-> Mine(w), old |-> FALSE] \in Messages
            BY <5>3 DEF Messages
          <5>5. sent' # Append(sent, [by |-> w, data |-> Mine(w), old |-> FALSE])
            <6> DEFINE m == [by |-> w, data |-> Mine(w), old |-> FALSE]
            <6> HIDE DEF m
            <6>1. m \in Messages => Len(Append(sent, m)) # Len(sent)
              BY <5>3
            <6> QED
              BY <3>5, <5>4, <6>1 DEF m
          <5>6. job \in [Workers -> Jobs] /\ Rest(w) \in Seq(Steps) /\ "count" \in Steps
            BY <4>3, RestSteps DEF ControlInv, TypeInv, At, Steps, Waits
          <5>7. /\ << "count" >> \o Rest(w) \in Seq(Steps) /\ << "count" >> \o Rest(w) # <<>>
                /\ Head(<< "count" >> \o Rest(w)) = "count"
            BY <5>6, ConsOf
          <5>8. job'[w].todo = << "count" >> \o Rest(w)
            BY <5>2, <5>5, <5>6, <5>7, TodoSet
          <5> QED
            BY <5>7, <5>8 DEF Pending, Doing
        <4>4. CASE ~At(w, "count") /\ ~At(w, "save")
          <5>1. Pending => Pending'
            BY <3>1, <4>4 DEF Pending, At, Doing
          <5> QED
            BY <2>3, <3>5, <4>1, <5>1 DEF ShownInv
        <4> QED
          BY <4>2, <4>3, <4>4
      <3> QED
        BY <2>1, <3>2, <3>3, <3>4, <3>5, StoreCases
    <2> QED
      BY <2>2, <2>3
  <1> QED
    BY <1>2, <1>3, StepEffect

\* The save that is executed: if it is the last one, it is what is shown; if it is not,
\* the last one still is; and a save that is old leaves a row that is late.
LEMMA ShownUpsert ==
    ASSUME ControlInv, ShownInv, Upsert
    PROVE  ShownInv'
  <1>1. UNCHANGED << unsaved, doc, cached, job >> /\ cached # None
    BY UpsertThins
  <1>2. PICK i \in DOMAIN sent : /\ row' = sent[i].data /\ late' = sent[i].old
                                 /\ Without(i, i) /\ Thinned(None, i)
    BY UpsertThins
  <1>3. sent \in Seq(Messages)
    BY DEF ControlInv, TypeInv
  <1>4. /\ Len(sent) \in Nat \ {0} /\ DOMAIN sent = 1 .. Len(sent) /\ Len(sent') = Len(sent) - 1
        /\ sent' \in Seq(Messages) /\ i \in 1 .. Len(sent)
        /\ DOMAIN sent' = 1 .. Len(sent) - 1
    BY <1>2 DEF Without
  <1>5. \A k \in 1 .. Len(sent) - 1, m \in DOMAIN sent : m = (IF k < i THEN k ELSE k + 1) =>
           /\ sent'[k].data = sent[m].data
           /\ sent'[k].old = (sent[m].old \/ m < i)
    BY <1>2, Zenon DEF Without
  <1>6. AgeInv'
    BY <1>2, <1>3, <1>4, ThinnedAge DEF ShownInv
  <1>7. Pending' = Pending
    BY <1>1 DEF Pending
  <1>8. Matches => Matches'
    <2> DEFINE n == Len(sent)
    <2>1. ASSUME n - 1 \in 1 .. n - 1
          PROVE  /\ sent'[n - 1].data = (IF n - 1 < i THEN sent[n - 1].data ELSE sent[n].data)
                 /\ sent'[n - 1].old = (IF n - 1 < i THEN sent[n - 1].old \/ n - 1 < i
                                        ELSE sent[n].old \/ n < i)
      <3>1. CASE n - 1 < i
        BY <1>4, <1>5, <2>1, <3>1
      <3>2. CASE ~(n - 1 < i)
        <4>1. n \in DOMAIN sent /\ n = n - 1 + 1
          BY <1>4
        <4> QED
          BY <1>5, <2>1, <3>2, <4>1
      <3> QED
        BY <3>1, <3>2
    <2>2. sent' # <<>> => n - 1 \in 1 .. n - 1
      BY <1>4
    <2>3. sent # <<>>
      BY <1>4
    <2>4. CASE ~sent[n].old /\ i = n
      <3>1. n - 1 < i
        BY <1>4, <2>4
      <3>2. ~Newest'
        BY <1>4, <2>1, <2>2, <3>1 DEF Newest
      <3> QED
        BY <1>1, <1>2, <2>3, <2>4, <3>2 DEF Matches, Newest
    <2>5. CASE ~sent[n].old /\ i # n
      <3>1. n - 1 \in 1 .. n - 1 /\ ~(n - 1 < i) /\ ~(n < i)
        BY <1>4, <2>5
      <3>a. /\ sent'[n - 1].data = sent[n].data
            /\ sent'[n - 1].old = (sent[n].old \/ n < i)
        BY <2>1, <3>1
      <3>b. sent' # <<>>
        BY <1>4, <3>1
      <3>2. sent'[n - 1].data = sent[n].data /\ ~sent'[n - 1].old /\ sent' # <<>>
        BY <2>5, <3>1, <3>a, <3>b, Zenon
      <3>3. Len(sent') = n - 1 /\ Newest /\ Newest'
        BY <1>4, <2>3, <2>5, <3>2 DEF Newest
      <3> QED
        BY <1>1, <3>2, <3>3 DEF Matches
    <2>6. CASE sent[n].old
      <3>1. \A k \in DOMAIN sent : sent[k].old
        <4>1. \A k \in DOMAIN sent : k < n => sent[k].old
          BY <1>4, <2>6 DEF ShownInv, AgeInv
        <4> QED
          BY <1>4, <2>6, <4>1
      <3>2. late'
        BY <1>2, <3>1
      <3>3. ~Newest'
        <4>1. n - 1 \in DOMAIN sent \/ n = 1
          BY <1>4
        <4> QED
          BY <1>4, <2>1, <2>2, <2>6, <3>1, <4>1 DEF Newest
      <3> QED
        BY <3>2, <3>3 DEF Matches
    <2> QED
      BY <2>4, <2>5, <2>6
  <1> QED
    BY <1>1, <1>6, <1>7, <1>8 DEF ShownInv

LEMMA ShownBegun ==
    ASSUME ControlInv, ShownInv, NEW w \in Workers, job[w] = Idle, NEW k, Begun(w, k)
    PROVE  ShownInv'
  <1>1. job' = [job EXCEPT ![w] = k] /\ UNCHANGED << row, sent, unsaved, late, doc, cached >>
    BY Zenon DEF Begun, store
  <1>2. Pending => Pending'
    <2> SUFFICES ASSUME NEW v \in Workers, Doing(job[v], "count") \/ Doing(job[v], "save")
                 PROVE  Pending'
      BY DEF Pending
    <2>1. v # w
      BY IdleJob DEF Doing
    <2>2. job'[v] = job[v]
      BY <1>1, <2>1 DEF ControlInv, TypeInv
    <2> QED
      BY <2>2 DEF Pending
  <1> QED
    BY <1>1, <1>2 DEF ShownInv, AgeInv, Matches, Newest

\* With no save under way, and unless the last one failed or was executed before an older
\* one, a restart would read the document the shop has been showing: whoever writes it
\* saves it before another handler runs, and a save carries the whole document as it then
\* is.  The saves may be executed in any order.
THEOREM StoredDocumentIsShown ==
    ASSUME ~ColdStart
    PROVE  Spec => []StoredIsShown
  <1>1. Init => ShownInv
    BY DEF Init, ShownInv, AgeInv
  <1>2. ControlInv /\ ShownInv /\ [Next]_vars => ShownInv'
    <2> SUFFICES ASSUME ControlInv, ShownInv, [Next]_vars PROVE ShownInv'
      OBVIOUS
    <2>1. CASE \E w \in Workers : Turn(w) /\ (Step(w) \/ Fails(w))
      BY <2>1, ShownStep
    <2>2. CASE \E w \in Workers : job[w] = Idle /\ Running = {} /\ (Boot(w) \/ Customer(w) \/ Admin(w))
      BY <2>2, BeginEffect, ShownBegun
    <2>3. CASE Running = {} /\ Upsert
      BY <2>3, ShownUpsert
    <2>4. CASE Running = {} /\ Restart
      BY <2>4 DEF Restart, ShownInv, AgeInv
    <2>5. CASE UNCHANGED vars
      <3>1. UNCHANGED << row, doc, cached, sent, job, unsaved, late >>
        BY <2>5 DEF vars
      <3> QED
        BY <3>1 DEF ShownInv, AgeInv, Pending, Matches, Newest
    <2> QED
      BY <2>1, <2>2, <2>3, <2>4, <2>5, NextCases
  <1>3. ShownInv => StoredIsShown
    <2> SUFFICES ASSUME ShownInv, sent = <<>>, Running = {}, ~unsaved, cached # None,
                        ~late, \A w \in Workers : ~At(w, "count")
                 PROVE  row = doc[cached]
      BY DEF StoredIsShown
    <2>1. \A w \in Workers : ~Doing(job[w], "save")
      BY DEF Running, Doing, Waits
    <2>2. ~Pending
      BY <2>1 DEF Pending, Doing, At
    <2> QED
      BY <2>2 DEF ShownInv, Matches, Newest
  <1>4. Spec => []ShownInv
    BY <1>1, <1>2, HandlersInControl, PTL DEF Spec
  <1> QED
    BY <1>3, <1>4, PTL

-----------------------------------------------------------------------------
(* The checkout and the cancellation, step by step.                         *)

CheckoutLists ==
    { << "lock", "load", "take", "save", "place" >>, << "load", "take", "save", "place" >>,
      << "take", "save", "place" >>, << "save", "place" >>, << "count", "place" >>,
      << "saved", "place" >>, << "place" >> }
CancelLists ==
    { << "lock", "claim", "load", "restock", "save" >>, << "claim", "load", "restock", "save" >>,
      << "load", "restock", "save" >>, << "restock", "save" >>, << "save" >>, << "count" >>,
      << "saved" >> }
Listed(j) ==
    /\ j.op = "checkout" => j.todo \in CheckoutLists
    /\ j.op = "cancel" => j.todo \in CancelLists
ListsInv == \A w \in Workers : Listed(job[w])

SaleSteps == {"lock", "load", "take", "save", "count", "saved", "place", "claim", "restock"}

LEMMA ConsSaved ==
    /\ << "saved" >> \o << "place" >> = << "saved", "place" >>
    /\ << "count" >> \o << "place" >> = << "count", "place" >>
    /\ << "saved" >> \o <<>> = << "saved" >> /\ << "count" >> \o <<>> = << "count" >>
  <1>1. ASSUME NEW a \in Steps, NEW b \in Steps
        PROVE  << a >> \o << b >> = << a, b >> /\ << a >> \o <<>> = << a >>
    <2>0. <<>> \in Seq(Steps)
      OBVIOUS
    <2>1. << a, b >> \o <<>> = << a >> \o (<< b >> \o <<>>)
      BY <2>0, TwoCons
    <2>2. << a, b >> \o <<>> = << a, b >> /\ << b >> \o <<>> = << b >> /\ << a >> \o <<>> = << a >>
      BY SMTT(30)
    <2> QED
      BY <2>1, <2>2, Zenon
  <1>2. "saved" \in Steps /\ "count" \in Steps /\ "place" \in Steps
    BY DEF Steps, Waits
  <1> QED
    BY <1>1, <1>2

LEMMA CheckoutNext ==
    ASSUME NEW t \in CheckoutLists
    PROVE  /\ t # <<>> /\ Head(t) \in {"lock", "load", "take", "save", "count", "saved", "place"}
           /\ Head(t) \in {"lock", "load", "take", "saved"} => Tail(t) \in CheckoutLists
           /\ Head(t) = "lock" => Head(Tail(t)) = "load"
           /\ Head(t) = "load" => Head(Tail(t)) = "take"
           /\ Head(t) = "take" => Head(Tail(t)) = "save"
           /\ Head(t) \in {"save", "count"} =>
                 /\ << "saved" >> \o Tail(t) \in CheckoutLists
                 /\ << "count" >> \o Tail(t) \in CheckoutLists
  <1>1. CASE t = << "save", "place" >> \/ t = << "count", "place" >>
    <2>1. Tail(t) = << "place" >> /\ t # <<>> /\ Head(t) \in {"save", "count"}
      <3>1. CASE t = << "save", "place" >>
        BY <3>1
      <3>2. CASE t = << "count", "place" >>
        BY <3>2
      <3> QED
        BY <1>1, <3>1, <3>2
    <2> QED
      BY <2>1, ConsSaved DEF CheckoutLists
  <1>2. CASE t = << "place" >>
    BY <1>2
  <1>3. CASE t = << "saved", "place" >>
    <2>1. Tail(t) = << "place" >> /\ t # <<>> /\ Head(t) = "saved"
      BY <1>3
    <2> QED
      BY <2>1 DEF CheckoutLists
  <1>4. CASE t = << "take", "save", "place" >>
    <2>1. /\ Tail(t) = << "save", "place" >> /\ t # <<>> /\ Head(t) = "take"
          /\ Head(Tail(t)) = "save"
      BY <1>4
    <2> QED
      BY <2>1 DEF CheckoutLists
  <1>5. CASE t = << "load", "take", "save", "place" >>
    <2>1. /\ Tail(t) = << "take", "save", "place" >> /\ t # <<>> /\ Head(t) = "load"
          /\ Head(Tail(t)) = "take"
      BY <1>5
    <2> QED
      BY <2>1 DEF CheckoutLists
  <1>6. CASE t = << "lock", "load", "take", "save", "place" >>
    <2>1. /\ Tail(t) = << "load", "take", "save", "place" >> /\ t # <<>> /\ Head(t) = "lock"
          /\ Head(Tail(t)) = "load"
      BY <1>6
    <2> QED
      BY <2>1 DEF CheckoutLists
  <1> QED
    BY <1>1, <1>2, <1>3, <1>4, <1>5, <1>6 DEF CheckoutLists

LEMMA CancelNext ==
    ASSUME NEW t \in CancelLists
    PROVE  /\ t # <<>> /\ Head(t) \in {"lock", "claim", "load", "restock", "save", "count", "saved"}
           /\ Head(t) \in {"lock", "claim", "load", "restock"} => Tail(t) \in CancelLists
           /\ Head(t) = "saved" => Tail(t) = <<>>
           /\ Head(t) = "claim" => Head(Tail(t)) = "load"
           /\ Head(t) = "restock" => Head(Tail(t)) = "save"
           /\ Head(t) = "lock" => Head(Tail(t)) = "claim"
           /\ Head(t) \in {"save", "count"} =>
                 << "saved" >> \o Tail(t) \in CancelLists /\ << "count" >> \o Tail(t) \in CancelLists
  <1>1. CASE t = << "save" >> \/ t = << "count" >>
    <2>1. Tail(t) = <<>> /\ t # <<>> /\ Head(t) \in {"save", "count"}
      <3>1. CASE t = << "save" >>
        BY <3>1
      <3>2. CASE t = << "count" >>
        BY <3>2
      <3> QED
        BY <1>1, <3>1, <3>2
    <2> QED
      BY <2>1, ConsSaved DEF CancelLists
  <1>2. CASE t = << "saved" >>
    BY <1>2
  <1>3. CASE t = << "restock", "save" >>
    <2>1. Tail(t) = << "save" >> /\ t # <<>> /\ Head(t) = "restock" /\ Head(Tail(t)) = "save"
      BY <1>3
    <2> QED
      BY <2>1 DEF CancelLists
  <1>4. CASE t = << "load", "restock", "save" >>
    <2>1. Tail(t) = << "restock", "save" >> /\ t # <<>> /\ Head(t) = "load"
      BY <1>4
    <2> QED
      BY <2>1 DEF CancelLists
  <1>5. CASE t = << "claim", "load", "restock", "save" >>
    <2>1. /\ Tail(t) = << "load", "restock", "save" >> /\ t # <<>> /\ Head(t) = "claim"
          /\ Head(Tail(t)) = "load"
      BY <1>5
    <2> QED
      BY <2>1 DEF CancelLists
  <1>6. CASE t = << "lock", "claim", "load", "restock", "save" >>
    <2>1. /\ Tail(t) = << "claim", "load", "restock", "save" >> /\ t # <<>> /\ Head(t) = "lock"
          /\ Head(Tail(t)) = "claim"
      BY <1>6
    <2> QED
      BY <2>1 DEF CancelLists
  <1> QED
    BY <1>1, <1>2, <1>3, <1>4, <1>5, <1>6 DEF CancelLists

\* How such a handler goes on.
LEMMA SaleNext ==
    ASSUME ~ColdStart, ControlInv, NEW w \in Workers, Step(w) \/ Fails(w),
           job[w].op \in {"checkout", "cancel"}, Head(job[w].todo) \in SaleSteps
    PROVE  \/ job'[w] = Idle
           \/ /\ Head(job[w].todo) \notin {"save", "count", "place"} /\ job'[w].todo = Tail(job[w].todo)
              /\ Head(job[w].todo) \in {"lock", "load"} \/ Tail(job[w].todo) # <<>>
           \/ /\ Head(job[w].todo) \in {"save", "count"}
              /\ job'[w].todo = << "saved" >> \o Tail(job[w].todo)
           \/ /\ Head(job[w].todo) = "save"
              /\ job'[w].todo = << "count" >> \o Tail(job[w].todo)
  <1>0. job \in [Workers -> Jobs]
    BY DEF ControlInv, TypeInv
  <1>1. job[w].todo # <<>> /\ Rest(w) \in Seq(Steps) /\ Rest(w) = Tail(job[w].todo)
    BY StepEffect, RestSteps
  <1>2. CASE Fails(w)
    <2>1. Ends(w)
      BY <1>2 DEF Fails
    <2> QED
      BY <2>1, EndsEffect
  <1>3. CASE Step(w)
    <2>0. ASSUME Proceeds(w)
          PROVE  job'[w] = Idle \/ (job'[w].todo = Rest(w) /\ Rest(w) # <<>>)
      BY <1>0, <1>1, <2>0, EndsEffect, TodoSet DEF Proceeds, Turns
    <2>1. CASE At(w, "lock")
      <3>1. Lock(w)
        BY <1>3, <2>1, StepAt
      <3>2. job' = [job EXCEPT ![w].todo = Rest(w)]
        BY <3>1 DEF Lock
      <3>3. job'[w].todo = Rest(w)
        BY <1>0, <1>1, <3>2, TodoSet
      <3> QED
        BY <1>1, <2>1, <3>3 DEF At
    <2>2. CASE At(w, "load")
      <3>1. Load(w) /\ cached # None /\ cached \in Workers
        <4>1. cached # None
          BY <1>1, OnlyBoot, IdleJob
        <4> QED
          BY <1>3, <2>2, <4>1, StepAt DEF ControlInv, TypeInv
      <3>2. SetsOn(w, Rest(w), cached)
        BY <3>1 DEF Load, SetsOn
      <3>3. job'[w].todo = Rest(w)
        BY <1>0, <1>1, <3>1, <3>2, OnSet
      <3> QED
        BY <1>1, <2>2, <3>3 DEF At
    <2>3. CASE At(w, "take") \/ At(w, "claim") \/ At(w, "restock") \/ At(w, "saved")
      <3>1. TakeStock(w) \/ ClaimRestore(w) \/ RestockItems(w) \/ Saved(w)
        BY <1>3, <2>3, StepAt
      <3>2. Ends(w) \/ Proceeds(w)
        BY <3>1, Zenon DEF TakeStock, ClaimRestore, RestockItems, Saved
      <3> QED
        BY <1>1, <2>0, <2>3, <3>2, EndsEffect DEF At
    <2>4. CASE At(w, "place")
      <3>1. Ends(w)
        BY <1>3, <2>4, StepAt DEF PlaceOrder
      <3> QED
        BY <3>1, EndsEffect
    <2>5. CASE At(w, "save") \/ At(w, "count")
      <3>1. Save(w) \/ (CountStored(w) /\ At(w, "count"))
        BY <1>3, <2>5, StepAt
      <3>2. \/ Ends(w) \/ job' = [job EXCEPT ![w].todo = << "saved" >> \o Rest(w)]
            \/ At(w, "save") /\ job' = [job EXCEPT ![w].todo = << "count" >> \o Rest(w)]
        BY <3>1, Zenon DEF Save, CountStored, Send
      <3>3. << "saved" >> \o Rest(w) \in Seq(Steps) /\ << "count" >> \o Rest(w) \in Seq(Steps)
        <4>1. "saved" \in Steps /\ "count" \in Steps
          BY DEF Steps, Waits
        <4> QED
          BY <1>1, <4>1, ConsOf
      <3>4. \/ job'[w] = Idle \/ job'[w].todo = << "saved" >> \o Rest(w)
            \/ At(w, "save") /\ job'[w].todo = << "count" >> \o Rest(w)
        BY <1>0, <3>2, <3>3, EndsEffect, TodoSet
      <3> QED
        BY <1>1, <2>5, <3>4 DEF At
    <2> QED
      BY <1>1, <2>1, <2>2, <2>3, <2>4, <2>5 DEF At, SaleSteps
  <1> QED
    BY <1>2, <1>3

LEMMA ListsStep ==
    ASSUME ~ColdStart, ControlInv, ListsInv, NEW w \in Workers, Step(w) \/ Fails(w)
    PROVE  ListsInv'
  <1>1. /\ \A v \in Workers \ {w} : job'[v] = job[v]
        /\ job'[w] = Idle \/ SameRequest(job[w], job'[w])
    BY StepEffect DEF Effect, Continues
  <1>2. Listed(job[w])
    BY DEF ListsInv
  <1>3. Listed(job'[w])
    <2>1. CASE job'[w] = Idle
      BY <2>1, IdleJob DEF Listed
    <2>2. CASE job'[w] # Idle /\ job[w].op = "checkout"
      <3>1. job'[w].op = "checkout" /\ job[w].todo \in CheckoutLists
        BY <1>1, <1>2, <2>2 DEF Listed, SameRequest
      <3>2. Head(job[w].todo) \in SaleSteps /\ Head(job[w].todo) \notin {"claim", "restock"}
        BY <3>1, CheckoutNext DEF SaleSteps
      <3>3. job'[w].todo \in CheckoutLists
        <4>1. PICK t \in CheckoutLists : t = job[w].todo
          BY <3>1
        <4>2. /\ Head(t) \in {"lock", "load", "take"} => Tail(t) \in CheckoutLists
              /\ Head(t) = "saved" => Tail(t) \in CheckoutLists
              /\ Head(t) \in {"save", "count"} =>
                 /\ << "saved" >> \o Tail(t) \in CheckoutLists
                 /\ << "count" >> \o Tail(t) \in CheckoutLists
          BY CheckoutNext
        <4>3. \/ /\ Head(t) \notin {"save", "count", "place"} /\ job'[w].todo = Tail(t)
                 /\ Head(t) \in {"lock", "load"} \/ Tail(t) # <<>>
              \/ Head(t) \in {"save", "count"} /\ job'[w].todo = << "saved" >> \o Tail(t)
              \/ Head(t) = "save" /\ job'[w].todo = << "count" >> \o Tail(t)
          BY <2>2, <3>2, <4>1, SaleNext
        <4>4. Head(t) \in {"lock", "load", "take", "save", "count", "saved", "place"}
          BY CheckoutNext
        <4> QED
          BY <4>2, <4>3, <4>4
      <3> QED
        BY <3>1, <3>3 DEF Listed
    <2>3. CASE job'[w] # Idle /\ job[w].op = "cancel"
      <3>1. job'[w].op = "cancel" /\ job[w].todo \in CancelLists
        BY <1>1, <1>2, <2>3 DEF Listed, SameRequest
      <3>2. Head(job[w].todo) \in SaleSteps /\ Head(job[w].todo) \notin {"take", "place"}
        BY <3>1, CancelNext DEF SaleSteps
      <3>3. job'[w].todo \in CancelLists
        <4>1. PICK t \in CancelLists : t = job[w].todo
          BY <3>1
        <4>2. /\ Head(t) \in {"lock", "claim", "load", "restock"} => Tail(t) \in CancelLists
              /\ Head(t) = "saved" => Tail(t) = <<>>
              /\ Head(t) \in {"save", "count"} =>
                 << "saved" >> \o Tail(t) \in CancelLists /\ << "count" >> \o Tail(t) \in CancelLists
          BY CancelNext
        <4>3. \/ /\ Head(t) \notin {"save", "count", "place"} /\ job'[w].todo = Tail(t)
                 /\ Head(t) \in {"lock", "load"} \/ Tail(t) # <<>>
              \/ Head(t) \in {"save", "count"} /\ job'[w].todo = << "saved" >> \o Tail(t)
              \/ Head(t) = "save" /\ job'[w].todo = << "count" >> \o Tail(t)
          BY <2>3, <3>2, <4>1, SaleNext
        <4>4. Head(t) \in {"lock", "claim", "load", "restock", "save", "count", "saved"}
          BY CancelNext
        <4> QED
          BY <4>2, <4>3, <4>4
      <3> QED
        BY <3>1, <3>3 DEF Listed
    <2>4. CASE job'[w] # Idle /\ job[w].op \notin {"checkout", "cancel"}
      BY <1>1, <2>4 DEF Listed, SameRequest
    <2> QED
      BY <2>1, <2>2, <2>3, <2>4
  <1> QED
    BY <1>1, <1>3 DEF ListsInv

LEMMA ListsBegun ==
    ASSUME ControlInv, ListsInv, NEW w \in Workers, NEW k, Begun(w, k)
    PROVE  ListsInv'
  <1>1. /\ job' = [job EXCEPT ![w] = k] /\ job \in [Workers -> Jobs]
        /\ k.op = "checkout" => k.todo = << "lock", "load", "take", "save", "place" >>
        /\ k.op = "cancel" => k.todo = << "lock", "claim", "load", "restock", "save" >>
    BY Zenon DEF Begun, ControlInv, TypeInv
  <1>2. Listed(k)
    BY <1>1 DEF Listed, CheckoutLists, CancelLists
  <1> QED
    BY <1>1, <1>2 DEF ListsInv

LEMMA AlwaysListed ==
    ASSUME ~ColdStart
    PROVE  Spec => []ListsInv
  <1>1. Init => ListsInv
    BY IdleJob DEF Init, ListsInv, Listed
  <1>2. ControlInv /\ ListsInv /\ [Next]_vars => ListsInv'
    <2> SUFFICES ASSUME ControlInv, ListsInv, [Next]_vars PROVE ListsInv'
      OBVIOUS
    <2>1. CASE \E w \in Workers : Turn(w) /\ (Step(w) \/ Fails(w))
      BY <2>1, ListsStep
    <2>2. CASE \E w \in Workers : job[w] = Idle /\ Running = {} /\ (Boot(w) \/ Customer(w) \/ Admin(w))
      BY <2>2, BeginEffect, ListsBegun
    <2>3. CASE Running = {} /\ Upsert
      <3>1. job' = job
        BY <2>3 DEF Upsert
      <3> QED
        BY <3>1 DEF ListsInv
    <2>4. CASE Running = {} /\ Restart
      <3>1. job' = [w \in Workers |-> Idle]
        BY <2>4 DEF Restart
      <3> QED
        BY <3>1, IdleJob DEF ListsInv, Listed
    <2>5. CASE UNCHANGED vars
      <3>1. job' = job
        BY <2>5 DEF vars
      <3> QED
        BY <3>1 DEF ListsInv
    <2> QED
      BY <2>1, <2>2, <2>3, <2>4, <2>5, NextCases
  <1> QED
    BY <1>1, <1>2, HandlersInControl, PTL DEF Spec

-----------------------------------------------------------------------------
(* How many units of a product a list shows.                                *)

LEMMA IndexFirst ==
    ASSUME NEW list \in Seq(Entries), NEW p, NEW i \in DOMAIN list, list[i].id = p
    PROVE  Index(list, p) \in DOMAIN list /\ Index(list, p) <= i /\ list[Index(list, p)].id = p
  <1> DEFINE at == {k \in DOMAIN list : list[k].id = p}
  <1>1. at \in SUBSET Nat /\ 0 \notin at /\ i \in at
    OBVIOUS
  <1>2. Min(at) \in at /\ Min(at) <= i
    BY <1>1, MinIsLeast
  <1>3. Index(list, p) = Min(at)
    BY <1>1 DEF Index
  <1> QED
    BY <1>2, <1>3

LEMMA StockAt ==
    ASSUME NEW list \in Seq(Entries), NEW p
    PROVE  /\ (\A i \in DOMAIN list : list[i].id # p) => StockOf(list, p) = 0
           /\ Index(list, p) # 0 => StockOf(list, p) = list[Index(list, p)].stock
  <1> DEFINE i == Index(list, p)
  <1>1. i # 0 => i \in DOMAIN list /\ list[i].id = p
    BY IndexFinds
  <1>2. StockOf(list, p) = IF i = 0 THEN 0 ELSE list[i].stock
    BY DEF StockOf
  <1> QED
    BY <1>1, <1>2

\* A list of the same products in the same places.
LEMMA SameIndex ==
    ASSUME NEW a \in Seq(Entries), NEW b \in Seq(Entries), Len(b) = Len(a),
           \A k \in DOMAIN a : b[k].id = a[k].id, NEW p
    PROVE  Index(b, p) = Index(a, p)
  <1>1. {k \in DOMAIN b : b[k].id = p} = {k \in DOMAIN a : a[k].id = p}
    <2>1. DOMAIN b = DOMAIN a
      OBVIOUS
    <2> QED
      BY <2>1
  <1> QED
    BY <1>1 DEF Index

LEMMA SameStockOf ==
    ASSUME NEW a \in Seq(Entries), NEW b \in Seq(Entries), Len(b) = Len(a),
           \A k \in DOMAIN a : b[k].id = a[k].id /\ b[k].stock = a[k].stock, NEW p
    PROVE  StockOf(b, p) = StockOf(a, p)
  <1>1. Index(b, p) = Index(a, p)
    BY SameIndex
  <1>2. Index(a, p) # 0 => Index(a, p) \in DOMAIN a
    BY IndexFinds
  <1> QED
    BY <1>1, <1>2 DEF StockOf

\* The removal of a product shows no unit of it, and as many of the others.
LEMMA DropKeeps ==
    ASSUME ControlInv, NEW w \in Workers, DropProduct(w), cached # None, ~UNCHANGED doc,
           Old \in Seq(Entries), New \in Seq(Entries), NEW p
    PROVE  StockOf(New, p) <= StockOf(Old, p)
  <1>1. PICK at \in [DOMAIN New -> DOMAIN Old] :
            /\ \A i, j \in DOMAIN New : i < j => at[i] < at[j]
            /\ \A i \in DOMAIN New : New[i] = Old[at[i]] /\ New[i].id # job[w].product
            /\ \A k \in DOMAIN Old :
                  Old[k].id # job[w].product => \E i \in DOMAIN New : at[i] = k
    BY DropDoc
  <1>2. StockOf(New, p) \in Nat /\ StockOf(Old, p) \in Nat
    BY StockIs
  <1>3. CASE \A i \in DOMAIN New : New[i].id # p
    <2>1. StockOf(New, p) = 0
      BY <1>3, StockAt
    <2> QED
      BY <1>2, <2>1
  <1>4. ASSUME NEW m \in DOMAIN New, New[m].id = p
        PROVE  StockOf(New, p) <= StockOf(Old, p)
    <2>1. PICK j \in DOMAIN New : j = Index(New, p) /\ New[j].id = p
      BY <1>4, IndexFirst
    <2>2. at[j] \in DOMAIN Old /\ Old[at[j]].id = p /\ p # job[w].product
      BY <1>1, <2>1
    <2>3. PICK f \in DOMAIN Old : f = Index(Old, p) /\ f <= at[j] /\ Old[f].id = p
      BY <2>2, IndexFirst
    <2>4. PICK i \in DOMAIN New : at[i] = f
      BY <1>1, <2>2, <2>3
    <2>5. New[i].id = p
      BY <1>1, <2>3, <2>4
    <2>6. j <= i
      BY <2>1, <2>5, IndexFirst
    <2>7. at[j] <= f
      <3>1. j \in Nat /\ i \in Nat /\ at[j] \in Nat /\ f \in Nat
        BY <2>2
      <3>2. j < i => at[j] < at[i]
        BY <1>1
      <3>3. CASE j = i
        BY <2>4, <3>1, <3>3
      <3> QED
        BY <2>4, <2>6, <3>1, <3>2, <3>3
    <2>8. at[j] = f
      BY <2>2, <2>3, <2>7
    <2>9. j # 0 /\ f # 0
      OBVIOUS
    <2>10. StockOf(New, p) = New[j].stock /\ StockOf(Old, p) = Old[f].stock
      BY <2>1, <2>3, <2>9, StockAt
    <2>11. New[j] = Old[f]
      BY <1>1, <2>8
    <2> QED
      BY <1>2, <2>10, <2>11
  <1> QED
    BY <1>3, <1>4

\* The sale and the return of a unit.
LEMMA StockMoves ==
    ASSUME ControlInv, NEW w \in Workers, TakeStock(w) \/ RestockItems(w), cached # None,
           ~(UNCHANGED doc /\ job'[w] = Idle)
    PROVE  /\ Proceeds(w) /\ Old \in Seq(Entries) /\ New \in Seq(Entries)
           /\ \A p : p # Item[job[w].order] => StockOf(New, p) = StockOf(Old, p)
           /\ \/ /\ TakeStock(w)
                 /\ StockOf(Old, Item[job[w].order]) = StockOf(New, Item[job[w].order]) + 1
              \/ /\ RestockItems(w)
                 /\ StockOf(New, Item[job[w].order]) = StockOf(Old, Item[job[w].order]) + 1
  <1> DEFINE o == Item[job[w].order]
  <1>1. /\ Proceeds(w) /\ DocTyped /\ Len(New) = Len(Old)
        /\ \A k \in DOMAIN Old : New[k].id = Old[k].id
    BY StockDoc
  <1>2. PICK i \in DOMAIN Old :
           /\ Old[i].id = o /\ i = Index(Old, o)
           /\ \A k \in DOMAIN Old : k # i => New[k].stock = Old[k].stock
           /\ \/ TakeStock(w) /\ Old[i].stock > 0 /\ New[i].stock = Old[i].stock - 1
              \/ RestockItems(w) /\ New[i].stock = Old[i].stock + 1
    BY StockDoc
  <1>3. Old \in Seq(Entries) /\ New \in Seq(Entries)
    BY <1>1 DEF DocTyped, New, Old, Documents, ControlInv, TypeInv
  <1> HIDE DEF o
  <1>4. i # 0 /\ Old[i].stock \in Nat /\ Old[i] \in Entries
    <2>1. Old[i] \in Entries /\ i # 0
      BY <1>3
    <2> QED
      BY <2>1 DEF Entries
  <1>5. ASSUME NEW p, p # o PROVE StockOf(New, p) = StockOf(Old, p)
    <2>1. Index(New, p) = Index(Old, p)
      BY <1>1, <1>3, SameIndex
    <2>2. Index(Old, p) # 0 => Index(Old, p) \in DOMAIN Old /\ Old[Index(Old, p)].id = p
      BY <1>3, IndexFinds
    <2>3. Index(Old, p) # i
      BY <1>2, <1>4, <1>5, <2>2
    <2> QED
      BY <1>2, <2>1, <2>2, <2>3 DEF StockOf
  <1>6. StockOf(New, o) = New[i].stock /\ StockOf(Old, o) = Old[i].stock
    <2>1. Index(New, o) = i
      BY <1>1, <1>2, <1>3, SameIndex
    <2> QED
      BY <1>2, <1>4, <2>1 DEF StockOf
  <1>7. \/ TakeStock(w) /\ StockOf(Old, o) = StockOf(New, o) + 1
        \/ RestockItems(w) /\ StockOf(New, o) = StockOf(Old, o) + 1
    BY <1>2, <1>4, <1>6
  <1> QED
    BY <1>1, <1>3, <1>5, <1>7 DEF o

\* Any other step leaves of a product what was there, or as many more as an edit grants.
LEMMA DocKeeps ==
    ASSUME ~ColdStart, ControlInv, NEW w \in Workers, Step(w) \/ Fails(w), cached # None,
           UNCHANGED doc \/ ~(TakeStock(w) \/ RestockItems(w)), NEW p \in Products
    PROVE  /\ Old \in Seq(Entries) /\ New \in Seq(Entries)
           /\ granted[p] \in Nat /\ granted'[p] \in Nat /\ granted[p] <= granted'[p]
           /\ StockOf(New, p) + granted[p] <= StockOf(Old, p) + granted'[p]
  <1>1. ~Loaded(w) /\ Old \in Seq(Entries) /\ doc[cached] \in Documents
    BY LoadedEffect DEF Old, ControlInv, TypeInv, Documents
  <1>2. granted \in [Products -> Nat] /\ granted' \in [Products -> Nat]
    BY GrantedTyped DEF ControlInv, TypeInv
  <1>3. granted[p] \in Nat /\ granted'[p] \in Nat
    BY <1>2
  <1>4. CASE PutProduct(w) \/ PushProduct(w)
    <2>1. New \in Seq(Entries)
      BY <1>4, PutDoc, PushDoc DEF DocTyped, New, Documents
    <2>2. StockOf(New, p) \in Nat /\ StockOf(Old, p) \in Nat
      BY <1>1, <2>1, StockIs
    <2>3. granted'[p] = Grants(p)
      BY <1>4, HistoryCases
    <2>4. granted'[p] = granted[p] + (IF StockOf(New, p) > StockOf(Old, p)
                                      THEN StockOf(New, p) - StockOf(Old, p) ELSE 0)
      BY <2>3 DEF Grants
    <2> QED
      BY <1>1, <1>3, <2>1, <2>2, <2>4
  <1>5. ASSUME ~PutProduct(w), ~PushProduct(w), New \in Seq(Entries), StockOf(New, p) <= StockOf(Old, p)
        PROVE  /\ Old \in Seq(Entries) /\ New \in Seq(Entries)
               /\ granted[p] \in Nat /\ granted'[p] \in Nat /\ granted[p] <= granted'[p]
               /\ StockOf(New, p) + granted[p] <= StockOf(Old, p) + granted'[p]
    <2>1. granted' = granted
      BY <1>5, HistoryCases
    <2>2. StockOf(New, p) \in Nat /\ StockOf(Old, p) \in Nat
      BY <1>1, <1>5, StockIs
    <2> QED
      BY <1>1, <1>3, <1>5, <2>1, <2>2
  <1>6. StockOf(Old, p) \in Nat
    BY <1>1, StockIs
  <1>7. CASE UNCHANGED doc /\ ~PutProduct(w) /\ ~PushProduct(w)
    <2>1. New = Old
      BY <1>7 DEF New, Old
    <2> QED
      BY <1>1, <1>5, <1>6, <1>7, <2>1
  <1>8. CASE SameStock /\ doc'[cached] \in Documents /\ ~PutProduct(w) /\ ~PushProduct(w)
    <2>1. New \in Seq(Entries)
      BY <1>8 DEF New, Documents
    <2>2. StockOf(New, p) = StockOf(Old, p)
      BY <1>1, <1>8, <2>1, SameStockOf DEF SameStock
    <2> QED
      BY <1>5, <1>6, <1>8, <2>1, <2>2
  <1>9. CASE (PinProducts(w) \/ MoveProducts(w)) /\ ~PutProduct(w) /\ ~PushProduct(w)
    <2>1. UNCHANGED doc \/ (SameStock /\ doc'[cached] \in Documents)
      BY <1>9, MapDoc DEF DocTyped
    <2> QED
      BY <1>7, <1>8, <1>9, <2>1
  <1>10. CASE EditPage(w) /\ ~PutProduct(w) /\ ~PushProduct(w)
    <2>1. SameStock /\ doc'[cached] \in Documents
      BY <1>10, PageIs DEF SameStock, New, Old
    <2> QED
      BY <1>8, <1>10, <2>1
  <1>11. CASE DropProduct(w) /\ ~UNCHANGED doc /\ ~PutProduct(w) /\ ~PushProduct(w)
    <2>1. New \in Seq(Entries)
      BY <1>11, DropDoc DEF DocTyped, New, Documents
    <2>2. StockOf(New, p) <= StockOf(Old, p)
      BY <1>1, <1>11, <2>1, DropKeeps
    <2> QED
      BY <1>5, <1>11, <2>1, <2>2
  <1> QED
    BY <1>1, <1>4, <1>7, <1>9, <1>10, <1>11, DocCases

-----------------------------------------------------------------------------
(* The units that the orders which stand have taken.                        *)

\* The units there have been, those taken, and a list that has no more than what is left.
Room == [p \in Products |-> StockOf(Seed, p) + granted[p]]
Live == [p \in Products |-> Cardinality(Standing(p))]
Fits(list, p, m, room) == StockOf(list, p) + m <= room[p]
Sound(list, live, room) == \A p \in Products : Fits(list, p, live[p], room)

\* Whichever document a restart may find, or a handler may work on, has no more than what
\* is left, unless an older save than the last has written it.
VersionInv ==
    /\ \A p \in Products : IsFiniteSet(Standing(p)) /\ Live[p] <= Room[p]
    /\ row # None /\ ~late => Sound(row.products, Live, Room)
    /\ row = None => \A o \in Orders : orders[o] = "none"
    /\ \A k \in DOMAIN sent : ~sent[k].old => Sound(sent[k].data.products, Live, Room)
    /\ cached # None => Sound(Old, Live, Room)
    /\ cached = None => ~late

\* A checkout that has taken its unit, and a cancellation that has claimed the order
\* but not yet returned its unit.
Taken(j) == j.op = "checkout" /\ \E s \in {"save", "count", "saved", "place"} : Doing(j, s)
Freed(j) == j.op = "cancel" /\ (Doing(j, "load") \/ Doing(j, "restock"))

\* The saves from the one of w on, if that is not old, all that are not old, and whether
\* w has one of these under way.
Behind(saves, w, p, m, room) ==
    \A i, k \in DOMAIN saves :
        saves[i].by = w /\ ~saves[i].old /\ i <= k => Fits(saves[k].data.products, p, m, room)
AllFit(saves, p, m, room) ==
    \A k \in DOMAIN saves : ~saves[k].old => Fits(saves[k].data.products, p, m, room)
Waiting(saves, w) == \E i \in DOMAIN saves : saves[i].by = w /\ ~saves[i].old

Roomy(w, p) ==
    /\ Fits(Old, p, Live[p] + 1, Room)
    /\ Behind(sent, w, p, Live[p] + 1, Room)
    /\ (Doing(job[w], "saved") \/ Doing(job[w], "place")) /\ ~Waiting(sent, w)
       => /\ late \/ Fits(row.products, p, Live[p] + 1, Room)
          /\ AllFit(sent, p, Live[p] + 1, Room)
\* There is room for one order more: in the document, in the save of the checkout and
\* all that were sent after it, and once that save, or a later one, has been executed in
\* the row and whatever else may replace it.
Reserved(w) == \A p \in Products : Item[job[w].order] = p => Roomy(w, p)
Claimed(w) ==
    \A p \in Products : Item[job[w].order] = p => Fits(Old, p, Live[p] + 1, Room)
RoomInv ==
    \A w \in Workers : (Taken(job[w]) => Reserved(w)) /\ (Freed(job[w]) => Claimed(w))

StockInv == VersionInv /\ RoomInv

LEMMA RoomIs ==
    ASSUME ControlInv
    PROVE  \A p \in Products : /\ Room[p] \in Nat /\ Room[p] = StockOf(Seed, p) + granted[p]
                               /\ Fits(Seed, p, 0, Room)
  <1> SUFFICES ASSUME NEW p \in Products
               PROVE  /\ Room[p] \in Nat /\ Room[p] = StockOf(Seed, p) + granted[p]
                      /\ Fits(Seed, p, 0, Room)
    OBVIOUS
  <1>1. Seed \in Seq(Entries) /\ granted[p] \in Nat
    BY CatalogueConstants DEF ControlInv, TypeInv
  <1>2. StockOf(Seed, p) \in Nat
    BY <1>1, StockIs
  <1>3. Room[p] = StockOf(Seed, p) + granted[p]
    BY DEF Room
  <1> QED
    BY <1>1, <1>2, <1>3 DEF Fits

LEMMA SeedIs == FirstDocument \in Documents /\ FirstDocument.products = Seed
  BY CatalogueConstants DEF FirstDocument, Documents

LEMMA FitsMono ==
    ASSUME NEW list \in Seq(Entries), NEW p \in Products, NEW m \in Nat, NEW n \in Nat, n <= m,
           NEW a, NEW b, a[p] \in Nat, b[p] \in Nat, a[p] <= b[p], Fits(list, p, m, a)
    PROVE  Fits(list, p, n, b) /\ m <= a[p]
  <1>1. StockOf(list, p) \in Nat
    BY StockIs
  <1>2. StockOf(list, p) + m <= a[p]
    BY DEF Fits
  <1>3. StockOf(list, p) + n <= b[p] /\ m <= a[p]
    BY <1>1, <1>2
  <1> QED
    BY <1>3 DEF Fits

LEMMA LiveNat ==
    ASSUME ControlInv, VersionInv, NEW p \in Products
    PROVE  /\ Live[p] \in Nat /\ Live[p] = Cardinality(Standing(p)) /\ IsFiniteSet(Standing(p))
           /\ Room[p] \in Nat /\ Live[p] <= Room[p]
  <1>1. IsFiniteSet(Standing(p)) /\ Live[p] <= Room[p]
    BY DEF VersionInv
  <1>2. Live[p] = Cardinality(Standing(p))
    BY DEF Live
  <1> QED
    BY <1>1, <1>2, FS_CardinalityType, RoomIs

\* The lists of products that there are.
LEMMA ListsTyped ==
    ASSUME ControlInv
    PROVE  /\ row # None => row.products \in Seq(Entries)
           /\ \A k \in DOMAIN sent : /\ sent[k].data.products \in Seq(Entries)
                                     /\ sent[k] \in Messages /\ sent[k].data \in Documents
           /\ cached # None => Old \in Seq(Entries)
           /\ sent \in Seq(Messages)
  <1>1. sent \in Seq(Messages)
    BY DEF ControlInv, TypeInv
  <1>2. \A k \in DOMAIN sent : sent[k] \in Messages
    BY <1>1
  <1>3. \A d \in Documents : d.products \in Seq(Entries)
    BY DEF Documents
  <1>4. \A k \in DOMAIN sent : sent[k].data \in Documents
    BY <1>2 DEF Messages
  <1> QED
    BY <1>1, <1>2, <1>3, <1>4 DEF ControlInv, TypeInv, Old

\* Whoever has taken, or is to return, a unit holds the stock lock.
LEMMA Holders ==
    ASSUME ControlInv, ListsInv, NEW w \in Workers, Taken(job[w]) \/ Freed(job[w])
    PROVE  lock = w /\ cached # None /\ job[w].order \in Orders /\ job[w] # Idle
  <1>1. job[w] # Idle /\ job[w].op \in {"checkout", "cancel"} /\ job[w].op # "boot"
    BY IdleJob DEF Taken, Freed
  <1>2. cached # None /\ job[w].order \in Orders /\ Locks(job[w], lock = w)
    BY <1>1, OnlyBoot DEF ControlInv, Ctl, Asked
  <1>3. ASSUME NEW i \in DOMAIN job[w].todo, job[w].todo[i] \in Sale,
               \A j \in 1 .. i - 1 : job[w].todo[j] # "lock"
        PROVE  lock = w
    BY <1>2, <1>3 DEF Locks, Before
  <1>4. CASE Taken(job[w])
    <2>1. job[w].todo \in CheckoutLists
      BY <1>4 DEF Taken, ListsInv, Listed
    <2>2. Head(job[w].todo) \in {"save", "count", "saved", "place"}
      BY <1>4 DEF Taken, Doing
    <2>3. \/ job[w].todo = << "save", "place" >> \/ job[w].todo = << "count", "place" >>
          \/ job[w].todo = << "saved", "place" >> \/ job[w].todo = << "place" >>
      BY <2>1, <2>2 DEF CheckoutLists
    <2>4. CASE job[w].todo = << "place" >>
      <3>1. 1 \in DOMAIN job[w].todo /\ job[w].todo[1] \in Sale /\ 1 .. 1 - 1 = {}
        BY <2>4 DEF Sale
      <3> QED
        BY <1>1, <1>2, <1>3, <3>1
    <2>5. CASE job[w].todo # << "place" >>
      <3>1. 2 \in DOMAIN job[w].todo /\ job[w].todo[2] \in Sale /\ job[w].todo[1] # "lock"
        BY <2>3, <2>5 DEF Sale
      <3>2. \A j \in 1 .. 2 - 1 : j = 1
        OBVIOUS
      <3> QED
        BY <1>1, <1>2, <1>3, <3>1, <3>2
    <2> QED
      BY <2>4, <2>5
  <1>5. CASE Freed(job[w])
    <2>1. job[w].todo \in CancelLists
      BY <1>5 DEF Freed, ListsInv, Listed
    <2>2. Head(job[w].todo) \in {"load", "restock"}
      BY <1>5 DEF Freed, Doing
    <2>3. \/ job[w].todo = << "load", "restock", "save" >> \/ job[w].todo = << "restock", "save" >>
      BY <2>1, <2>2 DEF CancelLists
    <2>4. CASE job[w].todo = << "restock", "save" >>
      <3>1. 1 \in DOMAIN job[w].todo /\ job[w].todo[1] \in Sale /\ 1 .. 1 - 1 = {}
        BY <2>4 DEF Sale
      <3> QED
        BY <1>1, <1>2, <1>3, <3>1
    <2>5. CASE job[w].todo = << "load", "restock", "save" >>
      <3>1. 2 \in DOMAIN job[w].todo /\ job[w].todo[2] \in Sale /\ job[w].todo[1] # "lock"
        BY <2>5 DEF Sale
      <3>2. \A j \in 1 .. 2 - 1 : j = 1
        OBVIOUS
      <3> QED
        BY <1>1, <1>2, <1>3, <3>1, <3>2
    <2> QED
      BY <2>3, <2>4, <2>5
  <1> QED
    BY <1>1, <1>2, <1>4, <1>5

\* A handler that gives up loses no save but its own.
LEMMA FailsKeeps ==
    ASSUME ControlInv, NEW w \in Workers, Fails(w), NEW v \in Workers, v # w,
           NEW k \in DOMAIN sent, sent[k].by = v, ~sent[k].old
    PROVE  \E i \in DOMAIN sent' : sent'[i].by = v /\ ~sent'[i].old
  <1>0. sent \in Seq(Messages)
    BY DEF ControlInv, TypeInv
  <1>1. CASE sent' = sent
    BY <1>1
  <1>2. ASSUME NEW i \in DOMAIN sent, sent[i].by = w, sent' = [sent EXCEPT ![i].by = None]
        PROVE  \E j \in DOMAIN sent' : sent'[j].by = v /\ ~sent'[j].old
    <2>1. k # i
      BY <1>2
    <2>2. sent'[k] = sent[k] /\ k \in DOMAIN sent'
      BY <1>0, <1>2, <2>1
    <2> QED
      BY <2>2
  <1>3. ASSUME NEW i \in DOMAIN sent, sent[i].by = w, sent' = RemoveAt(sent, i)
        PROVE  \E j \in DOMAIN sent' : sent'[j].by = v /\ ~sent'[j].old
    <2>1. /\ DOMAIN sent = 1 .. Len(sent) /\ Len(sent) \in Nat \ {0}
          /\ DOMAIN sent' = 1 .. Len(sent) - 1
          /\ \A j \in 1 .. Len(sent) - 1 : sent'[j] = IF j < i THEN sent[j] ELSE sent[j + 1]
      BY <1>0, <1>3, RemoveAtOf
    <2>2. k # i
      BY <1>3
    <2>3. CASE k < i
      <3>1. k \in 1 .. Len(sent) - 1 /\ sent'[k] = sent[k]
        BY <2>1, <2>3
      <3> QED
        BY <2>1, <3>1
    <2>4. CASE k > i
      <3>1. k - 1 \in 1 .. Len(sent) - 1 /\ ~(k - 1 < i) /\ k - 1 + 1 = k
        BY <2>1, <2>4
      <3>2. sent'[k - 1] = sent[k]
        BY <2>1, <3>1
      <3> QED
        BY <2>1, <3>1, <3>2
    <2> QED
      BY <2>1, <2>2, <2>3, <2>4
  <1>4. \/ sent' = sent
        \/ \E i \in DOMAIN sent : sent[i].by = w /\ sent' = [sent EXCEPT ![i].by = None]
        \/ \E i \in DOMAIN sent : sent[i].by = w /\ sent' = RemoveAt(sent, i)
    BY DEF Fails
  <1> QED
    BY <1>1, <1>2, <1>3, <1>4

\* What the messages carry, and when the row changes.
LEMMA SentFrom ==
    ASSUME ControlInv, NEW w \in Workers, Step(w) \/ Fails(w), NEW k \in DOMAIN sent', ~sent'[k].old
    PROVE  \/ \E j \in DOMAIN sent : sent'[k].data = sent[j].data /\ ~sent[j].old
           \/ cached # None /\ sent'[k].data = doc[cached]
  <1>1. CASE UNCHANGED sent
    BY <1>1
  <1>2. CASE Sends(w)
    <2> DEFINE m == [by |-> w, data |-> doc[cached], old |-> FALSE]
    <2>1. sent' = Append(sent, m) /\ m.data = doc[cached] /\ cached # None
      BY <1>2 DEF Sends
    <2>2. m \in Messages /\ sent \in Seq(Messages)
      BY <2>1 DEF ControlInv, TypeInv, Messages
    <2> HIDE DEF m
    <2>3. k = Len(sent) + 1 \/ k \in DOMAIN sent
      BY <2>1, <2>2
    <2>4. sent'[k] = IF k = Len(sent) + 1 THEN m ELSE sent[k]
      BY <2>1, <2>2, <2>3
    <2> QED
      BY <2>1, <2>3, <2>4
  <1>3. CASE Fails(w)
    <2>1. PICK at \in [DOMAIN sent' -> DOMAIN sent] :
          \A i \in DOMAIN sent' : /\ sent'[i].data = sent[at[i]].data
                                  /\ sent'[i].old = (sent[at[i]].old \/ at[i] < 0)
      BY <1>3, FailsThins DEF Thinned
    <2>2. at[k] \in DOMAIN sent /\ sent'[k].data = sent[at[k]].data
      BY <2>1
    <2>3. ~sent[at[k]].old
      BY <2>1
    <2> QED
      BY <2>2, <2>3
  <1> QED
    BY <1>1, <1>2, <1>3, StoreCases DEF Refuses

LEMMA RowFrom ==
    ASSUME ControlInv, NEW w \in Workers, Step(w) \/ Fails(w)
    PROVE  /\ row' = row \/ (row = None /\ cached = None /\ row' = FirstDocument)
           /\ late' = late /\ undone' = undone
  <1>1. row' = row \/ (row = None /\ cached = None /\ row' = FirstDocument)
    BY StoreCases, SeedEffect DEF Sends, Refuses
  <1> QED
    BY <1>1, HistoryCases

LEMMA SameLive ==
    ASSUME UNCHANGED orders
    PROVE  Live' = Live /\ \A p \in Products : Standing(p)' = Standing(p)
  <1>1. \A p \in Products : Standing(p)' = Standing(p)
    BY DEF Standing
  <1> QED
    BY <1>1 DEF Live

LEMMA SameRoom ==
    ASSUME UNCHANGED granted
    PROVE  Room' = Room
  BY DEF Room

\* The steps that neither write an order nor its unit.
Calm(w) ==
    /\ UNCHANGED orders
    /\ \/ ~(TakeStock(w) \/ RestockItems(w) \/ ClaimRestore(w) \/ PlaceOrder(w))
       \/ UNCHANGED doc /\ job'[w] = Idle

LEMMA NoOrders ==
    ASSUME VersionInv, row = None
    PROVE  \A p \in Products : Standing(p) = {} /\ Live[p] = 0
  <1>1. \A p \in Products : Standing(p) = {}
    BY DEF VersionInv, Standing
  <1> QED
    BY <1>1, FS_EmptySet DEF Live

\* There are never less units, and what fitted before fits after the step.
LEMMA RoomGrows ==
    ASSUME ControlInv, NEW w \in Workers, Step(w) \/ Fails(w), NEW p \in Products
    PROVE  Room[p] \in Nat /\ Room'[p] \in Nat /\ Room[p] <= Room'[p]
  <1>1. /\ granted \in [Products -> Nat] /\ granted' \in [Products -> Nat]
        /\ Seed \in Seq(Entries)
    BY GrantedTyped, CatalogueConstants DEF ControlInv, TypeInv
  <1>2. granted[p] \in Nat /\ granted'[p] \in Nat /\ StockOf(Seed, p) \in Nat
    BY <1>1, StockIs
  <1>3. Room[p] = StockOf(Seed, p) + granted[p] /\ Room'[p] = StockOf(Seed, p) + granted'[p]
    BY DEF Room
  <1>4. granted[p] <= granted'[p]
    <2>1. CASE UNCHANGED granted
      BY <1>2, <2>1
    <2>2. CASE (PutProduct(w) \/ PushProduct(w)) /\ granted' = [q \in Products |-> Grants(q)]
      <3>1. \E s \in {"put", "push"} : At(w, s)
        BY <2>2 DEF PutProduct, PushProduct
      <3>2. cached # None /\ DocTyped
        BY <2>2, <3>1, AtHead, PutDoc, PushDoc DEF Uses, Edits
      <3>3. Old \in Seq(Entries) /\ New \in Seq(Entries)
        BY <3>2, ListsTyped DEF DocTyped, New, Documents
      <3>4. StockOf(New, p) \in Nat /\ StockOf(Old, p) \in Nat
        BY <3>3, StockIs
      <3>5. granted'[p] = granted[p] + (IF StockOf(New, p) > StockOf(Old, p)
                                        THEN StockOf(New, p) - StockOf(Old, p) ELSE 0)
        BY <2>2 DEF Grants
      <3> QED
        BY <1>2, <3>4, <3>5
    <2> QED
      BY <2>1, <2>2, HistoryCases
  <1> QED
    BY <1>2, <1>3, <1>4

LEMMA StillFits ==
    ASSUME ControlInv, NEW w \in Workers, Step(w) \/ Fails(w), NEW list \in Seq(Entries)
    PROVE  \A p \in Products, m \in Nat : Fits(list, p, m, Room) => Fits(list, p, m, Room')
  <1> SUFFICES ASSUME NEW p \in Products, NEW m \in Nat, Fits(list, p, m, Room)
               PROVE  Fits(list, p, m, Room')
    OBVIOUS
  <1>1. Room[p] \in Nat /\ Room'[p] \in Nat /\ Room[p] <= Room'[p]
    BY RoomGrows
  <1>2. PICK a, b : a = Room /\ b = Room'
    OBVIOUS
  <1>3. Fits(list, p, m, b)
    BY <1>1, <1>2, FitsMono
  <1> QED
    BY <1>2, <1>3

LEMMA NewIs ==
    ASSUME ~ColdStart, ControlInv, NEW w \in Workers, Step(w) \/ Fails(w), Calm(w), cached # None
    PROVE  /\ cached' = cached /\ Old' = New /\ Old \in Seq(Entries) /\ New \in Seq(Entries)
           /\ \A p \in Products, m \in Nat : Fits(Old, p, m, Room) => Fits(New, p, m, Room')
  <1>1. cached' = cached
    BY StepEffect, LoadedEffect
  <1>2. Old' = New /\ Old \in Seq(Entries) /\ New \in Seq(Entries)
    <2>1. UNCHANGED doc \/ ~(TakeStock(w) \/ RestockItems(w))
      BY DEF Calm
    <2>2. Old \in Seq(Entries)
      BY ListsTyped
    <2>3. doc' \in [Workers -> Documents \cup {None}] /\ doc'[cached] \in Documents
      BY <1>1, DocTypes
    <2> QED
      BY <1>1, <2>2, <2>3 DEF Old, New, Documents
  <1>3. ASSUME NEW p \in Products, NEW m \in Nat, Fits(Old, p, m, Room)
        PROVE  Fits(New, p, m, Room')
    <2>1. UNCHANGED doc \/ ~(TakeStock(w) \/ RestockItems(w))
      BY DEF Calm
    <2>2. /\ granted[p] \in Nat /\ granted'[p] \in Nat
          /\ StockOf(New, p) + granted[p] <= StockOf(Old, p) + granted'[p]
      BY <2>1, DocKeeps
    <2>3. StockOf(New, p) \in Nat /\ StockOf(Old, p) \in Nat /\ StockOf(Seed, p) \in Nat
      BY <1>2, StockIs, CatalogueConstants
    <2>4. Room[p] = StockOf(Seed, p) + granted[p] /\ Room'[p] = StockOf(Seed, p) + granted'[p]
      BY DEF Room
    <2>5. StockOf(Old, p) + m <= Room[p]
      BY <1>3 DEF Fits
    <2>6. StockOf(New, p) + m <= Room'[p]
      BY <2>2, <2>3, <2>4, <2>5
    <2> QED
      BY <2>6 DEF Fits
  <1> QED
    BY <1>1, <1>2, <1>3

LEMMA QuietVersions ==
    ASSUME ~ColdStart, ControlInv, VersionInv, NEW w \in Workers, Step(w) \/ Fails(w), Calm(w)
    PROVE  VersionInv'
  <1>0. UNCHANGED orders
    BY DEF Calm
  <1>a. Live' = Live /\ \A p \in Products : Standing(p)' = Standing(p)
    BY <1>0, SameLive
  <1>b. \A p \in Products : Live[p] \in Nat /\ IsFiniteSet(Standing(p)) /\ Live[p] <= Room[p]
    BY LiveNat
  <1>c. \A p \in Products : Room[p] \in Nat /\ Room'[p] \in Nat /\ Room[p] <= Room'[p]
    BY RoomGrows
  <1>1. \A p \in Products : IsFiniteSet(Standing(p))' /\ Live'[p] <= Room'[p]
    BY <1>a, <1>b, <1>c
  <1>d. ASSUME NEW list \in Seq(Entries), Sound(list, Live, Room)
        PROVE  Sound(list, Live', Room')
    BY <1>a, <1>b, <1>d, StillFits DEF Sound
  <1>2. row' # None /\ ~late' => Sound(row'.products, Live', Room')
    <2>0. late' = late
      BY RowFrom
    <2>1. CASE row' = row
      BY <1>d, <2>0, <2>1, ListsTyped DEF VersionInv
    <2>2. CASE row = None /\ row' = FirstDocument
      <3>1. \A p \in Products : Live[p] = 0
        BY <2>2, NoOrders
      <3>2. Sound(Seed, Live, Room) /\ Seed \in Seq(Entries)
        BY <3>1, RoomIs, CatalogueConstants DEF Sound
      <3> QED
        BY <1>d, <2>2, <3>2, SeedIs
    <2> QED
      BY <2>1, <2>2, RowFrom
  <1>3. row' = None => \A o \in Orders : orders'[o] = "none"
    BY <1>0, RowFrom, SeedIs, CatalogueConstants DEF VersionInv
  <1>e. cached # None => cached' = cached /\ Sound(Old', Live', Room') /\ Sound(Old, Live', Room')
    <2> SUFFICES ASSUME cached # None
                 PROVE  cached' = cached /\ Sound(Old', Live', Room') /\ Sound(Old, Live', Room')
      OBVIOUS
    <2>1. /\ Old' = New /\ cached' = cached /\ Old \in Seq(Entries)
          /\ \A p \in Products, m \in Nat : Fits(Old, p, m, Room) => Fits(New, p, m, Room')
      BY NewIs
    <2>2. Sound(Old, Live, Room)
      BY DEF VersionInv
    <2>3. Sound(New, Live', Room')
      BY <1>a, <1>b, <2>1, <2>2 DEF Sound
    <2> QED
      BY <1>d, <2>1, <2>2, <2>3
  <1>4. ASSUME NEW k \in DOMAIN sent', ~sent'[k].old
        PROVE  Sound(sent'[k].data.products, Live', Room')
    <2>1. CASE \E j \in DOMAIN sent : sent'[k].data = sent[j].data /\ ~sent[j].old
      BY <1>d, <2>1, ListsTyped DEF VersionInv
    <2>2. CASE cached # None /\ sent'[k].data = doc[cached]
      BY <1>e, <2>2 DEF Old
    <2> QED
      BY <1>4, <2>1, <2>2, SentFrom
  <1>5. cached' # None => Sound(Old', Live', Room')
    <2>2. CASE cached = None /\ cached' # None
      <3>1. Loaded(w) /\ row # None
        BY <2>2, StepEffect
      <3>2. doc' = [doc EXCEPT ![w] = row] /\ cached' = w /\ doc \in [Workers -> Documents \cup {None}]
        BY <3>1, LoadedEffect DEF ControlInv, TypeInv
      <3>3. Old' = row.products
        BY <3>2 DEF Old
      <3>4. Sound(row.products, Live, Room)
        BY <2>2, <3>1 DEF VersionInv
      <3> QED
        BY <1>d, <3>1, <3>3, <3>4, ListsTyped
    <2> QED
      BY <1>e, <2>2
  <1>6. cached' = None => ~late'
    BY <1>e, RowFrom DEF VersionInv
  <1> QED
    BY <1>1, <1>2, <1>3, <1>4, <1>5, <1>6 DEF VersionInv

\* The saves under way have room left where the document has it.
LEMMA SentRoom ==
    ASSUME ControlInv, NEW w \in Workers, Step(w) \/ Fails(w), cached # None,
           NEW v \in Workers, v # w, NEW p \in Products, NEW m \in Nat, Fits(Old, p, m, Room)
    PROVE  /\ Behind(sent, v, p, m, Room) => Behind(sent', v, p, m, Room')
           /\ AllFit(sent, p, m, Room) => AllFit(sent', p, m, Room')
           /\ Waiting(sent, v) => Waiting(sent', v)
  <1>0. sent \in Seq(Messages) /\ v # None
    BY CatalogueConstants DEF ControlInv, TypeInv
  <1>a. \A k \in DOMAIN sent : Fits(sent[k].data.products, p, m, Room) =>
                               Fits(sent[k].data.products, p, m, Room')
    BY ListsTyped, StillFits
  <1>b. Fits(Old, p, m, Room')
    BY ListsTyped, StillFits
  <1> DEFINE r == Room'
  <1>c. /\ \A k \in DOMAIN sent : Fits(sent[k].data.products, p, m, Room) =>
                                  Fits(sent[k].data.products, p, m, r)
        /\ Fits(Old, p, m, r)
    BY <1>a, <1>b
  <1> HIDE DEF r
  <1>1. CASE UNCHANGED sent
    <2>1. AllFit(sent, p, m, Room) => AllFit(sent, p, m, r)
      BY <1>c DEF AllFit
    <2>2. Behind(sent, v, p, m, Room) => Behind(sent, v, p, m, r)
      BY <1>c DEF Behind
    <2> QED
      BY <1>1, <2>1, <2>2 DEF r
  <1>2. CASE Sends(w)
    <2> DEFINE e == [by |-> w, data |-> doc[cached], old |-> FALSE]
    <2>1. sent' = Append(sent, e) /\ e.data.products = Old /\ e.by = w
      BY <1>2 DEF Sends, Old
    <2>2. e \in Messages
      BY DEF ControlInv, TypeInv, Messages
    <2> HIDE DEF e
    <2>3. /\ DOMAIN sent = 1 .. Len(sent) /\ DOMAIN sent' = 1 .. Len(sent) + 1 /\ Len(sent) \in Nat
          /\ sent'[Len(sent) + 1] = e /\ \A k \in DOMAIN sent : sent'[k] = sent[k]
      BY <1>0, <2>1, <2>2
    <2>4. \A k \in DOMAIN sent' : k \in DOMAIN sent \/ (k = Len(sent) + 1 /\ sent'[k] = e)
      BY <2>3
    <2>5. Fits(e.data.products, p, m, r)
      BY <1>c, <2>1
    <2>6. AllFit(sent, p, m, Room) => AllFit(sent', p, m, r)
      BY <1>c, <2>3, <2>4, <2>5 DEF AllFit
    <2>7. Waiting(sent, v) => Waiting(sent', v)
      BY <2>3 DEF Waiting
    <2>8. Behind(sent, v, p, m, Room) => Behind(sent', v, p, m, r)
      <3> SUFFICES ASSUME Behind(sent, v, p, m, Room), NEW i \in DOMAIN sent',
                          NEW k \in DOMAIN sent', sent'[i].by = v, ~sent'[i].old, i <= k
                   PROVE  Fits(sent'[k].data.products, p, m, r)
        BY DEF Behind
      <3>1. CASE k = Len(sent) + 1
        BY <2>3, <2>5, <3>1
      <3>2. CASE k \in DOMAIN sent
        <4>1. i \in DOMAIN sent
          BY <2>3, <3>2
        <4> QED
          BY <1>c, <2>3, <3>2, <4>1 DEF Behind
      <3> QED
        BY <2>4, <3>1, <3>2
    <2> QED
      BY <2>6, <2>7, <2>8 DEF r
  <1>3. CASE Fails(w)
    <2>1. PICK at \in [DOMAIN sent' -> DOMAIN sent] :
          /\ \A i, k \in DOMAIN sent' : i < k => at[i] < at[k]
          /\ \A k \in DOMAIN sent' :
                /\ sent'[k].data = sent[at[k]].data
                /\ sent'[k].by = IF sent[at[k]].by = w THEN None ELSE sent[at[k]].by
                /\ sent'[k].old = (sent[at[k]].old \/ at[k] < 0)
      BY <1>3, FailsThins DEF Thinned
    <2>2. \A k \in DOMAIN sent' : at[k] \in DOMAIN sent
      OBVIOUS
    <2>a. \A k \in DOMAIN sent' : ~sent'[k].old => ~sent[at[k]].old
      BY <2>1
    <2>3. AllFit(sent, p, m, Room) => AllFit(sent', p, m, r)
      <3> SUFFICES ASSUME AllFit(sent, p, m, Room), NEW k \in DOMAIN sent', ~sent'[k].old
                   PROVE  Fits(sent'[k].data.products, p, m, r)
        BY DEF AllFit
      <3>1. Fits(sent[at[k]].data.products, p, m, Room)
        BY <2>2, <2>a DEF AllFit
      <3> QED
        BY <1>c, <2>1, <2>2, <3>1
    <2>4. Waiting(sent, v) => Waiting(sent', v)
      BY <1>3, FailsKeeps DEF Waiting
    <2>5. Behind(sent, v, p, m, Room) => Behind(sent', v, p, m, r)
      <3> SUFFICES ASSUME Behind(sent, v, p, m, Room), NEW i \in DOMAIN sent',
                          NEW k \in DOMAIN sent', sent'[i].by = v, ~sent'[i].old, i <= k
                   PROVE  Fits(sent'[k].data.products, p, m, r)
        BY DEF Behind
      <3>1. sent[at[i]].by = v /\ ~sent[at[i]].old
        BY <1>0, <2>1, <2>a
      <3>2. sent' \in Seq(Messages)
        BY <1>3, FailsThins DEF Thinned
      <3>3. i \in Nat /\ k \in Nat /\ at[i] \in Nat /\ at[k] \in Nat
        BY <1>0, <2>2, <3>2
      <3>4. at[i] <= at[k]
        BY <2>1, <3>3
      <3>5. Fits(sent[at[k]].data.products, p, m, Room)
        BY <2>2, <3>1, <3>4 DEF Behind
      <3> QED
        BY <1>c, <2>1, <2>2, <3>5
    <2> QED
      BY <2>3, <2>4, <2>5 DEF r
  <1> QED
    BY <1>1, <1>2, <1>3, StoreCases DEF Refuses

LEMMA OthersRoom ==
    ASSUME ~ColdStart, ControlInv, ListsInv, StockInv, NEW w \in Workers, Step(w) \/ Fails(w),
           Calm(w), NEW v \in Workers, v # w
    PROVE  (Taken(job'[v]) => Reserved(v)') /\ (Freed(job'[v]) => Claimed(v)')
  <1>1. job'[v] = job[v]
    BY StepEffect DEF Effect
  <1>2. Live' = Live
    BY SameLive DEF Calm
  <1>3. ASSUME Taken(job[v]) \/ Freed(job[v])
        PROVE  /\ row' = row /\ late' = late /\ Old' = New /\ cached # None
               /\ \A p \in Products, m \in Nat : Fits(Old, p, m, Room) => Fits(New, p, m, Room')
    <2>1. cached # None
      BY <1>3, Holders
    <2> QED
      BY <2>1, NewIs, RowFrom
  <1>4. ASSUME Taken(job[v]), NEW p \in Products, Item[job[v].order] = p
        PROVE  Roomy(v, p)'
    <2>1. PICK m \in Nat : m = Live[p] + 1
      BY LiveNat DEF StockInv
    <2>2. /\ Fits(Old, p, m, Room) /\ Behind(sent, v, p, m, Room)
          /\ (Doing(job[v], "saved") \/ Doing(job[v], "place")) /\ ~Waiting(sent, v)
             => (late \/ Fits(row.products, p, m, Room)) /\ AllFit(sent, p, m, Room)
      BY <1>4, <2>1 DEF StockInv, RoomInv, Reserved, Roomy
    <2>3. /\ row' = row /\ late' = late /\ Old' = New /\ Fits(New, p, m, Room')
          /\ Live'[p] + 1 = m /\ cached # None
      BY <1>2, <1>3, <1>4, <2>1, <2>2
    <2>4. /\ Behind(sent', v, p, m, Room')
          /\ AllFit(sent, p, m, Room) => AllFit(sent', p, m, Room')
          /\ Waiting(sent, v) => Waiting(sent', v)
      BY <2>2, <2>3, SentRoom
    <2>5. ASSUME Fits(row.products, p, m, Room), ~late PROVE Fits(row.products, p, m, Room')
      <3>1. row # None
        BY <2>3, CatalogueConstants DEF ControlInv, TypeInv
      <3> QED
        BY <2>5, <3>1, ListsTyped, StillFits
    <2> QED
      BY <1>1, <2>2, <2>3, <2>4, <2>5, Zenon DEF Roomy
  <1>5. ASSUME Freed(job[v]), NEW p \in Products, Item[job[v].order] = p
        PROVE  Fits(Old', p, Live'[p] + 1, Room')
    <2>1. Fits(Old, p, Live[p] + 1, Room) /\ Live[p] + 1 \in Nat
      BY <1>5, LiveNat DEF StockInv, RoomInv, Claimed
    <2> QED
      BY <1>2, <1>3, <1>5, <2>1
  <1>6. Taken(job'[v]) => Reserved(v)'
    BY <1>1, <1>4 DEF Reserved
  <1>7. Freed(job'[v]) => Claimed(v)'
    BY <1>1, <1>5 DEF Claimed
  <1> QED
    BY <1>6, <1>7

LEMMA SaveCases ==
    ASSUME ControlInv, NEW w \in Workers, Step(w), At(w, "save") \/ At(w, "count")
    PROVE  \/ Sends(w) \/ job'[w] = Idle
           \/ Doing(job'[w], "count") /\ UNCHANGED sent
  <1>1. CASE At(w, "save")
    <2>1. Save(w)
      BY <1>1, StepAt
    <2>2. \/ Send(w) /\ UNCHANGED << row, doc, lock >>
          \/ job' = [job EXCEPT ![w].todo = << "count" >> \o Rest(w)] /\ UNCHANGED sent
      BY <2>1, Zenon DEF Save
    <2>3. /\ job \in [Workers -> Jobs] /\ Rest(w) \in Seq(Steps) /\ "count" \in Steps
      BY <1>1, RestSteps DEF ControlInv, TypeInv, At, Steps, Waits
    <2>4. /\ << "count" >> \o Rest(w) \in Seq(Steps) /\ << "count" >> \o Rest(w) # <<>>
          /\ Head(<< "count" >> \o Rest(w)) = "count"
      BY <2>3, ConsOf
    <2>5. job' = [job EXCEPT ![w].todo = << "count" >> \o Rest(w)] => Doing(job'[w], "count")
      BY <2>3, <2>4, TodoSet DEF Doing
    <2> QED
      BY <1>1, <2>2, <2>5, SendSends
  <1>2. CASE At(w, "count")
    <2>1. CountStored(w)
      BY <1>2, StepAt
    <2>2. Ends(w) \/ (Send(w) /\ UNCHANGED << row, doc, lock >>)
      BY <2>1, Zenon DEF CountStored
    <2> QED
      BY <1>2, <2>2, SendSends, EndsEffect
  <1> QED
    BY <1>1, <1>2

LEMMA OwnRoom ==
    ASSUME ~ColdStart, ControlInv, ListsInv, StockInv, NEW w \in Workers,
           Step(w) \/ Fails(w), Calm(w)
    PROVE  (Taken(job'[w]) => Reserved(w)') /\ (Freed(job'[w]) => Claimed(w)')
  <1>1. Live' = Live
    BY SameLive DEF Calm
  <1>2. job'[w] # Idle => SameRequest(job[w], job'[w]) /\ ~Fails(w)
    BY StepEffect, EndsEffect DEF Effect, Continues, Fails
  <1>3. (Taken(job'[w]) \/ Freed(job'[w])) =>
           /\ job'[w] # Idle /\ SameRequest(job[w], job'[w]) /\ Step(w)
           /\ ~At(w, "take") /\ ~At(w, "restock") /\ ~At(w, "claim") /\ ~At(w, "place")
    BY <1>2, IdleJob, StepAt DEF Taken, Freed, Calm
  <1>4. ASSUME Taken(job'[w]) PROVE Reserved(w)'
    <2>1. /\ job'[w] # Idle /\ Step(w) /\ job[w].op = "checkout" /\ job'[w].order = job[w].order
          /\ job[w].todo # <<>>
      BY <1>3, <1>4, StepEffect DEF Taken, SameRequest
    <2>2. PICK t \in CheckoutLists : t = job[w].todo
      BY <2>1 DEF ListsInv, Listed
    <2>3. /\ Head(t) \in {"lock", "load", "take", "save", "count", "saved", "place"}
          /\ Head(t) = "lock" => Head(Tail(t)) = "load"
          /\ Head(t) = "load" => Head(Tail(t)) = "take"
      BY CheckoutNext
    <2>4. Head(t) \notin {"take", "place"}
      BY <1>3, <1>4, <2>1, <2>2 DEF At
    <2>5. Head(t) \notin {"lock", "load"}
      <3>1. Head(t) \in {"lock", "load"} => job'[w].todo = Tail(t)
        BY <2>1, <2>2, SaleNext DEF SaleSteps
      <3> QED
        BY <1>4, <2>3, <3>1 DEF Taken, Doing
    <2>6. Taken(job[w])
      BY <2>1, <2>2, <2>3, <2>4, <2>5 DEF Taken, Doing
    <2>7. cached # None
      BY <2>6, Holders
    <2>8. /\ row' = row /\ late' = late /\ Old' = New
          /\ \A p \in Products, m \in Nat : Fits(Old, p, m, Room) => Fits(New, p, m, Room')
      BY <2>7, NewIs, RowFrom
    <2>9. ASSUME NEW p \in Products, Item[job[w].order] = p
          PROVE  Roomy(w, p)'
      <3>1. PICK m \in Nat : m = Live[p] + 1
        BY LiveNat DEF StockInv
      <3>2. /\ Fits(Old, p, m, Room) /\ Behind(sent, w, p, m, Room)
            /\ (Doing(job[w], "saved") \/ Doing(job[w], "place")) /\ ~Waiting(sent, w)
               => (late \/ Fits(row.products, p, m, Room)) /\ AllFit(sent, p, m, Room)
        BY <2>6, <2>9, <3>1 DEF StockInv, RoomInv, Reserved, Roomy
      <3>3. Fits(New, p, m, Room') /\ Live'[p] + 1 = m
        BY <1>1, <2>8, <3>1, <3>2
      <3>4. CASE Head(t) = "saved"
        <4>1. Saved(w)
          BY <2>1, <2>2, <3>4, StepAt DEF At
        <4>2. sent' = sent /\ granted' = granted
          BY <4>1 DEF Saved, store
        <4>3. ~Waiting(sent, w)
          BY <4>1 DEF Saved, Waiting
        <4>4. Doing(job[w], "saved") /\ Room' = Room
          BY <2>1, <2>2, <3>4, <4>2, SameRoom DEF Doing
        <4> QED
          BY <2>8, <3>2, <3>3, <4>2, <4>3, <4>4, Zenon DEF Roomy
      <3>5. CASE Head(t) \in {"save", "count"}
        <4>1. At(w, "save") \/ At(w, "count")
          BY <2>1, <2>2, <3>5 DEF At
        <4>a. Room' = Room
          <5>1. ~PutProduct(w) /\ ~PushProduct(w)
            BY <4>1 DEF PutProduct, PushProduct, At
          <5> QED
            BY <5>1, HistoryCases, SameRoom
        <4>2. CASE Doing(job'[w], "count") /\ UNCHANGED sent
          <5>1. ~(Doing(job'[w], "saved") \/ Doing(job'[w], "place"))
            BY <4>2 DEF Doing
          <5> QED
            BY <2>8, <3>2, <3>3, <4>2, <4>a, <5>1, Zenon DEF Roomy
        <4>3. CASE Sends(w)
          <5> DEFINE e == [by |-> w, data |-> doc[cached], old |-> FALSE]
          <5>1. sent' = Append(sent, e) /\ e.data.products = Old /\ e.by = w /\ ~e.old
            BY <4>3 DEF Sends, Old
          <5>2. e \in Messages /\ sent \in Seq(Messages)
            BY <2>7 DEF ControlInv, TypeInv, Messages
          <5> HIDE DEF e
          <5>3. /\ DOMAIN sent = 1 .. Len(sent) /\ DOMAIN sent' = 1 .. Len(sent) + 1
                /\ Len(sent) \in Nat
                /\ sent'[Len(sent) + 1] = e /\ \A k \in DOMAIN sent : sent'[k] = sent[k]
            BY <5>1, <5>2
          <5>4. \A k \in DOMAIN sent : sent[k].by # w
            BY <4>1 DEF ControlInv, SentInv, Doing, At
          <5>5. Waiting(sent', w)
            <6>1. Len(sent) + 1 \in DOMAIN sent'
              BY <5>3
            <6> QED
              BY <5>1, <5>3, <6>1 DEF Waiting
          <5>6. Behind(sent', w, p, m, Room)
            <6> SUFFICES ASSUME NEW i \in DOMAIN sent', NEW k \in DOMAIN sent', sent'[i].by = w, i <= k
                         PROVE  Fits(sent'[k].data.products, p, m, Room)
              BY DEF Behind
            <6>1. i = Len(sent) + 1
              BY <5>3, <5>4
            <6>2. k = Len(sent) + 1
              BY <5>3, <6>1
            <6> QED
              BY <3>2, <5>1, <5>3, <6>2
          <5> QED
            BY <2>8, <3>2, <3>3, <4>a, <5>5, <5>6, Zenon DEF Roomy
        <4> QED
          BY <2>1, <4>1, <4>2, <4>3, SaveCases
      <3> QED
        BY <2>3, <2>4, <2>5, <3>4, <3>5
    <2> QED
      BY <2>1, <2>9 DEF Reserved
  <1>5. ASSUME Freed(job'[w]) PROVE Claimed(w)'
    <2>1. /\ job'[w] # Idle /\ Step(w) /\ job[w].op = "cancel" /\ job'[w].order = job[w].order
          /\ job[w].todo # <<>>
      BY <1>3, <1>5, StepEffect DEF Freed, SameRequest
    <2>2. PICK t \in CancelLists : t = job[w].todo
      BY <2>1 DEF ListsInv, Listed
    <2>3. /\ Head(t) \in {"lock", "claim", "load", "restock", "save", "count", "saved"}
          /\ Head(t) = "lock" => Head(Tail(t)) = "claim"
          /\ Head(t) = "saved" => Tail(t) = <<>>
      BY CancelNext
    <2>4. Head(t) \notin {"claim", "restock"}
      BY <1>3, <1>5, <2>1, <2>2 DEF At
    <2>5. Head(t) # "lock" /\ Head(t) # "saved"
      <3>1. Head(t) \in {"lock", "saved"} => job'[w].todo = Tail(t)
        BY <2>1, <2>2, SaleNext DEF SaleSteps
      <3> QED
        BY <1>5, <2>3, <3>1 DEF Freed, Doing
    <2>6. Head(t) \notin {"save", "count"}
      <3>1. ASSUME Head(t) \in {"save", "count"} PROVE FALSE
        <4>1. At(w, "save") \/ At(w, "count")
          BY <2>1, <2>2, <3>1 DEF At
        <4>2. Doing(job'[w], "saved") \/ Doing(job'[w], "count")
          BY <2>1, <4>1, SaveCases DEF Sends
        <4> QED
          BY <1>5, <4>2 DEF Freed, Doing
      <3> QED
        BY <3>1
    <2>7. Freed(job[w])
      BY <2>1, <2>2, <2>3, <2>4, <2>5, <2>6 DEF Freed, Doing
    <2>8. cached # None
      BY <2>7, Holders
    <2>9. /\ Old' = New
          /\ \A p \in Products, m \in Nat : Fits(Old, p, m, Room) => Fits(New, p, m, Room')
      BY <2>8, NewIs
    <2>10. ASSUME NEW p \in Products, Item[job[w].order] = p
           PROVE  Fits(Old', p, Live'[p] + 1, Room')
      <3>1. Fits(Old, p, Live[p] + 1, Room) /\ Live[p] + 1 \in Nat
        BY <2>7, <2>10, LiveNat DEF StockInv, RoomInv, Claimed
      <3> QED
        BY <1>1, <2>9, <3>1
    <2> QED
      BY <2>1, <2>10 DEF Claimed
  <1> QED
    BY <1>4, <1>5

LEMMA CalmStep ==
    ASSUME ~ColdStart, ControlInv, ListsInv, StockInv, NEW w \in Workers,
           Step(w) \/ Fails(w), Calm(w)
    PROVE  StockInv'
  <1>1. VersionInv'
    BY QuietVersions DEF StockInv
  <1>2. \A v \in Workers : (Taken(job'[v]) => Reserved(v)') /\ (Freed(job'[v]) => Claimed(v)')
    BY OthersRoom, OwnRoom
  <1> QED
    BY <1>1, <1>2 DEF StockInv, RoomInv

-----------------------------------------------------------------------------
(* Orders are placed and returned.                                          *)

LEMMA LivePlus ==
    ASSUME ControlInv, VersionInv, NEW o \in Orders, orders' = [orders EXCEPT ![o] = "live"],
           NEW p \in Products
    PROVE  /\ IsFiniteSet(Standing(p))' /\ Live'[p] \in Nat /\ Live'[p] <= Live[p] + 1
           /\ Item[o] # p => Live'[p] = Live[p]
  <1>1. orders \in [Orders -> {"none", "live", "returned"}]
    BY DEF ControlInv, TypeInv
  <1>2. \A q \in Orders : orders'[q] = IF q = o THEN "live" ELSE orders[q]
    BY <1>1
  <1>3. IsFiniteSet(Standing(p)) /\ Live[p] = Cardinality(Standing(p)) /\ Live[p] \in Nat
    BY LiveNat DEF Live
  <1>4. Live'[p] = Cardinality(Standing(p)')
    BY DEF Live
  <1>5. CASE Item[o] = p
    <2>1. Standing(p)' = Standing(p) \cup {o}
      BY <1>2, <1>5 DEF Standing
    <2>2. /\ IsFiniteSet(Standing(p) \cup {o})
          /\ \/ Cardinality(Standing(p) \cup {o}) = Cardinality(Standing(p))
             \/ Cardinality(Standing(p) \cup {o}) = Cardinality(Standing(p)) + 1
      BY <1>3, FS_AddElement
    <2> QED
      BY <1>3, <1>4, <1>5, <2>1, <2>2
  <1>6. CASE Item[o] # p
    <2>1. Standing(p)' = Standing(p)
      BY <1>2, <1>6 DEF Standing
    <2> QED
      BY <1>3, <1>4, <2>1
  <1> QED
    BY <1>5, <1>6

LEMMA LiveMinus ==
    ASSUME ControlInv, VersionInv, NEW o \in Orders, orders[o] = "live",
           orders' = [orders EXCEPT ![o] = "returned"], NEW p \in Products
    PROVE  /\ IsFiniteSet(Standing(p))' /\ Live'[p] \in Nat /\ Live'[p] <= Live[p]
           /\ Item[o] = p => Live'[p] + 1 = Live[p]
  <1>1. orders \in [Orders -> {"none", "live", "returned"}]
    BY DEF ControlInv, TypeInv
  <1>2. \A q \in Orders : orders'[q] = IF q = o THEN "returned" ELSE orders[q]
    BY <1>1
  <1>3. IsFiniteSet(Standing(p)) /\ Live[p] = Cardinality(Standing(p)) /\ Live[p] \in Nat
    BY LiveNat DEF Live
  <1>4. Live'[p] = Cardinality(Standing(p)')
    BY DEF Live
  <1>5. CASE Item[o] = p
    <2>1. Standing(p)' = Standing(p) \ {o} /\ o \in Standing(p)
      BY <1>2, <1>5 DEF Standing
    <2>2. IsFiniteSet(Standing(p) \ {o}) /\ Cardinality(Standing(p) \ {o}) = Cardinality(Standing(p)) - 1
      BY <1>3, <2>1, FS_RemoveElement
    <2>3. Cardinality(Standing(p) \ {o}) \in Nat
      BY <2>2, FS_CardinalityType
    <2> QED
      BY <1>3, <1>4, <1>5, <2>1, <2>2, <2>3
  <1>6. CASE Item[o] # p
    <2>1. Standing(p)' = Standing(p)
      BY <1>2, <1>6 DEF Standing
    <2> QED
      BY <1>3, <1>4, <1>6, <2>1
  <1> QED
    BY <1>5, <1>6

\* Only one handler at a time has a unit in hand.
LEMMA OnlyHolder ==
    ASSUME ControlInv, ListsInv, NEW w \in Workers, lock = w, NEW v \in Workers, v # w
    PROVE  ~Taken(job[v]) /\ ~Freed(job[v])
  BY Holders

LEMMA PlaceStep ==
    ASSUME ControlInv, ListsInv, StockInv, NEW w \in Workers, PlaceOrder(w)
    PROVE  StockInv'
  <1> DEFINE o == job[w].order
  <1>1. /\ At(w, "place") /\ orders' = [orders EXCEPT ![o] = "live"] /\ Ends(w)
        /\ row' = row /\ sent' = sent /\ doc' = doc /\ cached' = cached
        /\ late' = late /\ granted' = granted
    BY Zenon DEF PlaceOrder, store
  <1>2. job[w].op = "checkout" /\ Doing(job[w], "place") /\ lock = w
    BY <1>1, AtHead DEF Of, Sale, Doing
  <1>3. Taken(job[w]) /\ cached # None /\ o \in Orders
    BY <1>2, Holders DEF Taken
  <1>4. ~Waiting(sent, w)
    BY <1>2 DEF Waiting, ControlInv, SentInv, Doing
  <1>5. row # None /\ row.products \in Seq(Entries) /\ Old \in Seq(Entries)
        /\ \A k \in DOMAIN sent : sent[k].data.products \in Seq(Entries)
    BY <1>3, ListsTyped, CatalogueConstants DEF ControlInv, TypeInv
  <1>6. VersionInv /\ Reserved(w)
    BY <1>3 DEF StockInv, RoomInv
  <1> HIDE DEF o
  <1>7. Room' = Room /\ \A p \in Products : Room[p] \in Nat
    BY <1>1, RoomIs, SameRoom
  <1>8. ASSUME NEW p \in Products
        PROVE  /\ IsFiniteSet(Standing(p))' /\ Live'[p] <= Room[p]
               /\ Fits(Old, p, Live'[p], Room) /\ (~late => Fits(row.products, p, Live'[p], Room))
               /\ \A k \in DOMAIN sent : ~sent[k].old => Fits(sent[k].data.products, p, Live'[p], Room)
    <2>1. /\ IsFiniteSet(Standing(p))' /\ Live'[p] \in Nat /\ Live'[p] <= Live[p] + 1
          /\ Item[o] # p => Live'[p] = Live[p]
      BY <1>1, <1>3, <1>6, LivePlus
    <2>2. Live[p] \in Nat /\ Live[p] + 1 \in Nat /\ Live[p] <= Room[p] /\ Room[p] \in Nat
      BY <1>6, LiveNat
    <2>3. CASE Item[o] # p
      BY <1>3, <1>5, <1>6, <2>1, <2>2, <2>3 DEF VersionInv, Sound
    <2>4. CASE Item[o] = p
      <3>1. Roomy(w, p)
        BY <1>6, <2>4 DEF Reserved, o
      <3>2. /\ Fits(Old, p, Live[p] + 1, Room)
            /\ late \/ Fits(row.products, p, Live[p] + 1, Room)
            /\ AllFit(sent, p, Live[p] + 1, Room)
        BY <1>2, <1>4, <3>1 DEF Roomy
      <3>3. \A k \in DOMAIN sent : ~sent[k].old => Fits(sent[k].data.products, p, Live[p] + 1, Room)
        BY <3>2 DEF AllFit
      <3>4. Fits(Old, p, Live'[p], Room) /\ (~late => Fits(row.products, p, Live'[p], Room))
        BY <1>5, <2>1, <2>2, <3>2, FitsMono
      <3>5. \A k \in DOMAIN sent : ~sent[k].old => Fits(sent[k].data.products, p, Live'[p], Room)
        BY <1>5, <2>1, <2>2, <3>3, FitsMono
      <3>6. Live[p] + 1 <= Room[p]
        BY <1>5, <2>2, <3>2, FitsMono
      <3> QED
        BY <2>1, <2>2, <3>4, <3>5, <3>6
    <2> QED
      BY <2>3, <2>4
  <1>9. VersionInv'
    <2>1. \A p \in Products : IsFiniteSet(Standing(p))' /\ Live'[p] <= Room[p]
      BY <1>8
    <2>2. (~late => Sound(row.products, Live', Room)) /\ Sound(Old, Live', Room)
      BY <1>8 DEF Sound
    <2>3. \A k \in DOMAIN sent : ~sent[k].old => Sound(sent[k].data.products, Live', Room)
      BY <1>8 DEF Sound
    <2>4. Old' = Old
      BY <1>1 DEF Old
    <2> QED
      BY <1>1, <1>3, <1>5, <1>7, <2>1, <2>2, <2>3, <2>4 DEF VersionInv
  <1>10. \A v \in Workers : ~Taken(job'[v]) /\ ~Freed(job'[v])
    <2>1. job'[w] = Idle /\ \A v \in Workers \ {w} : job'[v] = job[v]
      BY <1>1, EndsEffect DEF Effect
    <2>2. ~Taken(Idle) /\ ~Freed(Idle)
      BY IdleJob DEF Taken, Freed
    <2> QED
      BY <1>2, <2>1, <2>2, OnlyHolder
  <1> QED
    BY <1>9, <1>10 DEF StockInv, RoomInv

\* Those who write an order without ending, or a unit: the lock is theirs, and the
\* invariant is about nobody else.
LEMMA SoleRoom ==
    ASSUME ControlInv, ListsInv, NEW w \in Workers, Step(w), lock = w, VersionInv',
           (Taken(job'[w]) => Reserved(w)') /\ (Freed(job'[w]) => Claimed(w)')
    PROVE  StockInv'
  <1>1. \A v \in Workers \ {w} : job'[v] = job[v] /\ ~Taken(job[v]) /\ ~Freed(job[v])
    BY StepEffect, OnlyHolder DEF Effect
  <1> QED
    BY <1>1 DEF StockInv, RoomInv

LEMMA ClaimStep ==
    ASSUME ~ColdStart, ControlInv, ListsInv, StockInv, NEW w \in Workers, Step(w), ClaimRestore(w),
           ~UNCHANGED orders
    PROVE  StockInv'
  <1> DEFINE o == job[w].order
  <1>1. /\ At(w, "claim") /\ orders[o] = "live" /\ orders' = [orders EXCEPT ![o] = "returned"]
        /\ row' = row /\ sent' = sent /\ doc' = doc /\ cached' = cached
        /\ late' = late /\ granted' = granted
    BY Zenon DEF ClaimRestore, store
  <1>2. job[w].op = "cancel" /\ lock = w /\ job[w] # Idle
    BY <1>1, AtHead, IdleJob DEF Of, Sale
  <1>3. cached # None /\ o \in Orders
    BY <1>1, <1>2, AtHead, OnlyBoot DEF Asked
  <1>4. row # None /\ row.products \in Seq(Entries) /\ Old \in Seq(Entries)
        /\ \A k \in DOMAIN sent : sent[k].data.products \in Seq(Entries)
    BY <1>3, ListsTyped, CatalogueConstants DEF ControlInv, TypeInv
  <1>5. VersionInv
    BY DEF StockInv
  <1>6. Old' = Old /\ Room' = Room
    BY <1>1, SameRoom DEF Old
  <1> HIDE DEF o
  <1>7. \A p \in Products :
           /\ IsFiniteSet(Standing(p))' /\ Live'[p] \in Nat /\ Live'[p] <= Live[p]
           /\ Item[o] = p => Live'[p] + 1 = Live[p]
    BY <1>1, <1>3, <1>5, LiveMinus
  <1>8. \A p \in Products : Live[p] \in Nat /\ Live[p] <= Room[p] /\ Room[p] \in Nat
    BY <1>5, LiveNat
  <1>9. VersionInv'
    <2>1. \A p \in Products : IsFiniteSet(Standing(p))' /\ Live'[p] <= Room[p]
      BY <1>7, <1>8
    <2>2. ASSUME NEW list \in Seq(Entries), Sound(list, Live, Room) PROVE Sound(list, Live', Room)
      <3>1. \A p \in Products : Fits(list, p, Live'[p], Room)
        BY <1>7, <1>8, <2>2, FitsMono DEF Sound
      <3> QED
        BY <3>1 DEF Sound
    <2>3. (~late => Sound(row.products, Live', Room)) /\ Sound(Old, Live', Room)
      BY <1>3, <1>4, <1>5, <2>2 DEF VersionInv
    <2>4. \A k \in DOMAIN sent : ~sent[k].old => Sound(sent[k].data.products, Live', Room)
      BY <1>4, <1>5, <2>2 DEF VersionInv
    <2> QED
      BY <1>1, <1>3, <1>4, <1>6, <2>1, <2>3, <2>4 DEF VersionInv
  <1>10. job'[w] = Idle \/ (job'[w].op = "cancel" /\ job'[w].order = job[w].order)
    BY <1>2, StepEffect DEF Effect, Continues, SameRequest
  <1>11. ~Taken(job'[w])
    BY <1>10, IdleJob DEF Taken
  <1>12. Freed(job'[w]) => Claimed(w)'
    <2>1. SUFFICES ASSUME Freed(job'[w]), NEW p \in Products, Item[job'[w].order] = p
                   PROVE  Fits(Old', p, Live'[p] + 1, Room')
      BY DEF Claimed
    <2>2. Item[o] = p
      BY <1>10, <2>1, IdleJob DEF Freed, o
    <2> QED
      BY <1>3, <1>5, <1>6, <1>7, <2>2 DEF VersionInv, Sound
  <1> QED
    BY <1>2, <1>9, <1>11, <1>12, SoleRoom

\* The sale of a unit: the document has one less, and nobody is counted yet.
LEMMA TakeStep ==
    ASSUME ~ColdStart, ControlInv, ListsInv, StockInv, NEW w \in Workers, Step(w), TakeStock(w),
           ~(UNCHANGED doc /\ job'[w] = Idle)
    PROVE  StockInv'
  <1>1. /\ At(w, "take") /\ orders' = orders /\ row' = row /\ sent' = sent /\ cached' = cached
        /\ late' = late /\ granted' = granted
    BY Zenon DEF TakeStock, store
  <1>2. /\ job[w].op = "checkout" /\ lock = w /\ cached # None /\ job[w].todo # <<>>
        /\ Head(job[w].todo) = "take"
    BY <1>1, AtHead DEF Of, Sale, Uses, Edits
  <1>3. ~RestockItems(w)
    BY <1>1 DEF RestockItems, At
  <1>4. /\ Proceeds(w) /\ Old \in Seq(Entries) /\ New \in Seq(Entries)
        /\ \A p : p # Item[job[w].order] => StockOf(New, p) = StockOf(Old, p)
        /\ StockOf(Old, Item[job[w].order]) = StockOf(New, Item[job[w].order]) + 1
    BY <1>2, <1>3, StockMoves
  <1>6. VersionInv
    BY DEF StockInv
  <1>9. ASSUME NEW p \in Products
        PROVE  /\ Fits(New, p, Live[p], Room)
               /\ Item[job[w].order] = p => Fits(New, p, Live[p] + 1, Room)
    <2>1. Fits(Old, p, Live[p], Room) /\ Live[p] \in Nat /\ Room[p] \in Nat
      BY <1>2, <1>6, LiveNat DEF VersionInv, Sound
    <2>2. StockOf(Old, p) + Live[p] <= Room[p] /\ StockOf(Old, p) \in Nat /\ StockOf(New, p) \in Nat
      BY <1>4, <2>1, StockIs DEF Fits
    <2>3. CASE Item[job[w].order] # p
      BY <1>4, <2>1, <2>3 DEF Fits
    <2>4. CASE Item[job[w].order] = p
      <3>1. StockOf(New, p) + Live[p] <= Room[p] /\ StockOf(New, p) + (Live[p] + 1) <= Room[p]
        BY <1>4, <2>1, <2>2, <2>4
      <3> QED
        BY <3>1 DEF Fits
    <2> QED
      BY <2>3, <2>4
  <1>10. Live' = Live /\ Old' = New /\ Room' = Room /\ \A p \in Products : Standing(p)' = Standing(p)
    BY <1>1, SameLive, SameRoom DEF Old, New
  <1>11. VersionInv'
    <2>1. Sound(Old', Live', Room')
      BY <1>9, <1>10 DEF Sound
    <2>2. \A p \in Products : IsFiniteSet(Standing(p)') /\ Live'[p] <= Room'[p]
      BY <1>6, <1>10 DEF VersionInv
    <2> QED
      BY <1>1, <1>2, <1>6, <1>10, <2>1, <2>2 DEF VersionInv
  <1>12. job'[w] = Idle \/ (job'[w].op = "checkout" /\ job'[w].order = job[w].order
                            /\ Doing(job'[w], "save"))
    <2>1. job'[w] = Idle \/ Continues(job[w], job'[w])
      BY StepEffect DEF Effect
    <2>2. job'[w] = Idle \/ job'[w].todo = Rest(w)
      BY <1>1, <1>2, <1>4, ProceedsEffect
    <2>3. Rest(w) # <<>> /\ Head(Rest(w)) = "save"
      BY <1>1, AtHead DEF Edits
    <2> QED
      BY <1>2, <2>1, <2>2, <2>3 DEF Doing, Continues, SameRequest
  <1>13. ~Freed(job'[w])
    BY <1>12, IdleJob DEF Freed
  <1>14. Taken(job'[w]) => Reserved(w)'
    <2>1. SUFFICES ASSUME job'[w] # Idle, NEW p \in Products, Item[job'[w].order] = p
                   PROVE  Roomy(w, p)'
      BY IdleJob DEF Reserved, Taken
    <2>2. Item[job[w].order] = p /\ Doing(job'[w], "save")
      BY <1>12, <2>1
    <2>3. Fits(New, p, Live[p] + 1, Room)
      BY <1>9, <2>2
    <2>4. ~Doing(job'[w], "saved") /\ ~Doing(job'[w], "place")
      BY <2>2 DEF Doing
    <2>5. \A k \in DOMAIN sent : sent[k].by # w
      BY <1>2 DEF ControlInv, SentInv, Doing
    <2>6. Behind(sent', w, p, Live'[p] + 1, Room')
      BY <1>1, <2>5 DEF Behind
    <2> QED
      BY <1>10, <2>3, <2>4, <2>6, Zenon DEF Roomy
  <1> QED
    BY <1>2, <1>11, <1>13, <1>14, SoleRoom

\* The return of a unit, by whoever has claimed the order.
LEMMA RestockStep ==
    ASSUME ~ColdStart, ControlInv, ListsInv, StockInv, NEW w \in Workers, Step(w),
           RestockItems(w), ~(UNCHANGED doc /\ job'[w] = Idle)
    PROVE  StockInv'
  <1>1. /\ At(w, "restock") /\ orders' = orders /\ row' = row /\ sent' = sent /\ cached' = cached
        /\ late' = late /\ granted' = granted
    BY Zenon DEF RestockItems, store
  <1>2. /\ job[w].op = "cancel" /\ lock = w /\ cached # None /\ job[w].todo # <<>>
        /\ Head(job[w].todo) = "restock"
    BY <1>1, AtHead DEF Of, Sale, Uses, Edits
  <1>3. ~TakeStock(w)
    BY <1>1 DEF TakeStock, At
  <1>4. /\ Proceeds(w) /\ Old \in Seq(Entries) /\ New \in Seq(Entries)
        /\ \A p : p # Item[job[w].order] => StockOf(New, p) = StockOf(Old, p)
        /\ StockOf(New, Item[job[w].order]) = StockOf(Old, Item[job[w].order]) + 1
    BY <1>2, <1>3, StockMoves
  <1>6. VersionInv /\ Claimed(w)
    <2>1. Freed(job[w])
      BY <1>2 DEF Freed, Doing
    <2> QED
      BY <2>1 DEF StockInv, RoomInv
  <1>9. ASSUME NEW p \in Products PROVE Fits(New, p, Live[p], Room)
    <2>1. /\ Fits(Old, p, Live[p], Room) /\ Live[p] \in Nat /\ Room[p] \in Nat
          /\ Item[job[w].order] = p => Fits(Old, p, Live[p] + 1, Room)
      BY <1>2, <1>6, LiveNat DEF VersionInv, Sound, Claimed
    <2>2. StockOf(Old, p) \in Nat /\ StockOf(New, p) \in Nat
      BY <1>4, StockIs
    <2>3. CASE Item[job[w].order] # p
      BY <1>4, <2>1, <2>3 DEF Fits
    <2>4. CASE Item[job[w].order] = p
      <3>1. StockOf(Old, p) + (Live[p] + 1) <= Room[p]
        BY <2>1, <2>4 DEF Fits
      <3>2. StockOf(New, p) + Live[p] <= Room[p]
        BY <1>4, <2>1, <2>2, <2>4, <3>1
      <3> QED
        BY <3>2 DEF Fits
    <2> QED
      BY <2>3, <2>4
  <1>10. Live' = Live /\ Old' = New /\ Room' = Room /\ \A p \in Products : Standing(p)' = Standing(p)
    BY <1>1, SameLive, SameRoom DEF Old, New
  <1>11. VersionInv'
    <2>1. Sound(Old', Live', Room')
      BY <1>9, <1>10 DEF Sound
    <2>2. \A p \in Products : IsFiniteSet(Standing(p)') /\ Live'[p] <= Room'[p]
      BY <1>6, <1>10 DEF VersionInv
    <2> QED
      BY <1>1, <1>2, <1>6, <1>10, <2>1, <2>2 DEF VersionInv
  <1>12. job'[w] = Idle \/ (job'[w].op = "cancel" /\ Doing(job'[w], "save"))
    <2>1. job'[w] = Idle \/ Continues(job[w], job'[w])
      BY StepEffect DEF Effect
    <2>2. job'[w] = Idle \/ job'[w].todo = Rest(w)
      BY <1>1, <1>2, <1>4, ProceedsEffect
    <2>3. Rest(w) # <<>> /\ Head(Rest(w)) = "save"
      BY <1>1, AtHead DEF Edits
    <2> QED
      BY <1>2, <2>1, <2>2, <2>3 DEF Doing, Continues, SameRequest
  <1>13. ~Freed(job'[w]) /\ ~Taken(job'[w])
    BY <1>12, IdleJob DEF Freed, Taken, Doing
  <1> QED
    BY <1>2, <1>11, <1>13, SoleRoom

\* A claim that writes nothing ends the handler.
LEMMA ClaimAnew ==
    ASSUME ControlInv, NEW w \in Workers, ClaimRestore(w), UNCHANGED orders
    PROVE  UNCHANGED doc /\ orders[job[w].order] # "live"
  <1>1. At(w, "claim") /\ UNCHANGED doc
    BY DEF ClaimRestore
  <1>2. job[w].order \in Orders
    <2>1. job[w].op = "cancel" /\ Asked(job[w])
      BY <1>1, AtHead DEF Of
    <2> QED
      BY <2>1 DEF Asked
  <1>3. orders[job[w].order] = "live" => orders' = [orders EXCEPT ![job[w].order] = "returned"]
    BY Zenon DEF ClaimRestore
  <1>4. orders \in [Orders -> {"none", "live", "returned"}]
    BY DEF ControlInv, TypeInv
  <1> QED
    BY <1>1, <1>2, <1>3, <1>4

\* PostgreSQL executes a save, of whichever handler: what is old after it was old before
\* or was sent earlier.
LEMMA StockUpsert ==
    ASSUME ControlInv, StockInv, Upsert
    PROVE  StockInv'
  <1>1. /\ cached # None /\ row \in Documents
        /\ UNCHANGED << unsaved, undone, granted, doc, cached, types, known, lock, orders, job,
                        listed >>
    BY UpsertThins, Zenon
  <1>2. PICK x \in DOMAIN sent : /\ row' = sent[x].data /\ late' = sent[x].old
                                 /\ Without(x, x) /\ Thinned(None, x)
    BY UpsertThins
  <1>3. PICK at \in [DOMAIN sent' -> DOMAIN sent] :
           /\ \A i, k \in DOMAIN sent' : i < k => at[i] < at[k]
           /\ \A k \in DOMAIN sent' :
                 /\ sent'[k].data = sent[at[k]].data
                 /\ sent'[k].by = IF sent[at[k]].by = None THEN None ELSE sent[at[k]].by
                 /\ sent'[k].old = (sent[at[k]].old \/ at[k] < x)
    BY <1>2 DEF Thinned
  <1>4. /\ \A k \in DOMAIN sent' : at[k] \in DOMAIN sent /\ at[k] \in Nat /\ k \in Nat
        /\ x \in Nat /\ \A k \in DOMAIN sent : k \in Nat
    <2>1. sent \in Seq(Messages) /\ sent' \in Seq(Messages)
      BY <1>2, ListsTyped DEF Thinned
    <2>2. \A k \in DOMAIN sent' : at[k] \in DOMAIN sent
      OBVIOUS
    <2> QED
      BY <2>1, <2>2
  <1>5. ASSUME NEW k \in DOMAIN sent'
        PROVE  /\ sent'[k].data = sent[at[k]].data
               /\ sent'[k].by = sent[at[k]].by
               /\ ~sent'[k].old => ~sent[at[k]].old /\ x <= at[k]
    <2>1. /\ sent'[k].data = sent[at[k]].data
          /\ sent'[k].by = IF sent[at[k]].by = None THEN None ELSE sent[at[k]].by
          /\ sent'[k].old = (sent[at[k]].old \/ at[k] < x)
      BY <1>3, <1>5, Zenon
    <2>2. sent'[k].by = sent[at[k]].by
      BY <2>1
    <2>3. ~sent'[k].old => ~sent[at[k]].old /\ ~(at[k] < x)
      BY <2>1, Zenon
    <2>4. at[k] \in Nat /\ x \in Nat
      BY <1>4, <1>5
    <2>5. ~(at[k] < x) => x <= at[k]
      BY <2>4
    <2> QED
      BY <2>1, <2>2, <2>3, <2>5, Zenon
  <1>6. /\ Live' = Live /\ Old' = Old /\ Room' = Room
        /\ \A p \in Products : Standing(p)' = Standing(p)
    BY <1>1, SameLive, SameRoom DEF Old
  <1>7. VersionInv'
    <2>1. VersionInv
      BY DEF StockInv
    <2>2. ~late' => Sound(row'.products, Live', Room')
      BY <1>2, <1>6, <2>1 DEF VersionInv
    <2>3. \A k \in DOMAIN sent' : ~sent'[k].old => Sound(sent'[k].data.products, Live', Room')
      BY <1>4, <1>5, <1>6, <2>1 DEF VersionInv
    <2>4. row' # None
      BY <1>2, ListsTyped, CatalogueConstants
    <2>5. \A p \in Products : IsFiniteSet(Standing(p)') /\ Live'[p] <= Room'[p]
      BY <1>6, <2>1 DEF VersionInv
    <2> QED
      BY <1>1, <1>6, <2>1, <2>2, <2>3, <2>4, <2>5 DEF VersionInv
  <1>8. ASSUME NEW v \in Workers, Taken(job[v]), NEW p \in Products, Item[job[v].order] = p
        PROVE  Roomy(v, p)'
    <2>1. PICK m : m = Live[p] + 1
      OBVIOUS
    <2>2. /\ Fits(Old, p, m, Room) /\ Behind(sent, v, p, m, Room)
          /\ (Doing(job[v], "saved") \/ Doing(job[v], "place")) /\ ~Waiting(sent, v)
             => (late \/ Fits(row.products, p, m, Room)) /\ AllFit(sent, p, m, Room)
      BY <1>8, <2>1 DEF StockInv, RoomInv, Reserved, Roomy
    <2>3. Live'[p] + 1 = m /\ job'[v] = job[v]
      BY <1>1, <1>6, <2>1
    <2>4. Behind(sent', v, p, m, Room)
      <3> SUFFICES ASSUME NEW i \in DOMAIN sent', NEW k \in DOMAIN sent', sent'[i].by = v,
                          ~sent'[i].old, i <= k
                   PROVE  Fits(sent'[k].data.products, p, m, Room)
        BY DEF Behind
      <3>1. sent[at[i]].by = v /\ ~sent[at[i]].old
        BY <1>5
      <3>2. at[i] <= at[k]
        BY <1>3, <1>4
      <3> QED
        BY <1>4, <1>5, <2>2, <3>1, <3>2 DEF Behind
    <2>5. ASSUME Doing(job[v], "saved") \/ Doing(job[v], "place"), ~Waiting(sent', v)
          PROVE  (late' \/ Fits(row'.products, p, m, Room)) /\ AllFit(sent', p, m, Room)
      <3>1. CASE ~Waiting(sent, v)
        <4>1. AllFit(sent, p, m, Room)
          BY <2>2, <2>5, <3>1
        <4>2. late' \/ Fits(row'.products, p, m, Room)
          BY <1>2, <4>1 DEF AllFit
        <4>3. AllFit(sent', p, m, Room)
          BY <1>4, <1>5, <4>1 DEF AllFit
        <4> QED
          BY <4>2, <4>3
      <3>2. CASE Waiting(sent, v)
        <4>1. PICK j \in DOMAIN sent : sent[j].by = v /\ ~sent[j].old
          BY <3>2 DEF Waiting
        <4>2. j <= x
          <5> SUFFICES ASSUME x < j PROVE FALSE
            BY <1>4
          <5>1. /\ j - 1 \in 1 .. Len(sent) - 1 /\ ~(j - 1 < x) /\ j - 1 + 1 = j /\ ~(j < x)
                /\ DOMAIN sent' = 1 .. Len(sent) - 1
            BY <1>2, <1>4 DEF Without
          <5>2. sent'[j - 1].by = sent[j].by /\ sent'[j - 1].old = (sent[j].old \/ j < x)
            BY <1>2, <5>1 DEF Without
          <5> QED
            BY <2>5, <4>1, <5>1, <5>2, Zenon DEF Waiting
        <4>3. Fits(row'.products, p, m, Room)
          BY <1>2, <2>2, <4>1, <4>2 DEF Behind
        <4>4. \A k \in DOMAIN sent' : ~sent'[k].old => j <= at[k]
          BY <1>4, <1>5, <4>2
        <4>5. AllFit(sent', p, m, Room)
          BY <1>4, <1>5, <2>2, <4>1, <4>4 DEF AllFit, Behind
        <4> QED
          BY <4>3, <4>5
      <3> QED
        BY <3>1, <3>2
    <2> QED
      BY <1>6, <2>2, <2>3, <2>4, <2>5, Zenon DEF Roomy
  <1>9. \A v \in Workers : Taken(job'[v]) => Reserved(v)'
    BY <1>1, <1>8 DEF Reserved
  <1>10. \A v \in Workers : Freed(job'[v]) => Claimed(v)'
    BY <1>1, <1>6 DEF Claimed, StockInv, RoomInv
  <1> QED
    BY <1>7, <1>9, <1>10 DEF StockInv, RoomInv

\* A restart finds the row, or one of the saves in it; no handler is left.
LEMMA StockRestart ==
    ASSUME ControlInv, StockInv, Restart, ~undone'
    PROVE  StockInv'
  <1>1. /\ \/ row' = row /\ ~late
           \/ \E i \in DOMAIN sent : row' = sent[i].data /\ ~sent[i].old
        /\ sent' = <<>> /\ cached' = None /\ late' = FALSE
        /\ orders' = orders /\ granted' = granted /\ job' = [w \in Workers |-> Idle]
    BY DEF Restart
  <1>2. Live' = Live /\ Room' = Room /\ \A p \in Products : Standing(p)' = Standing(p)
    BY <1>1, SameLive, SameRoom
  <1>3. VersionInv
    BY DEF StockInv
  <1>4. \A k \in DOMAIN sent : sent[k].data # None
    BY ListsTyped, CatalogueConstants
  <1>5. row' # None => Sound(row'.products, Live', Room')
    BY <1>1, <1>2, <1>3 DEF VersionInv
  <1>6. row' = None => \A o \in Orders : orders'[o] = "none"
    BY <1>1, <1>3, <1>4 DEF VersionInv
  <1>7. \A p \in Products : IsFiniteSet(Standing(p)') /\ Live'[p] <= Room'[p]
    BY <1>2, <1>3 DEF VersionInv
  <1>8. DOMAIN sent' = {}
    BY <1>1
  <1>9. VersionInv'
    BY <1>1, <1>5, <1>6, <1>7, <1>8 DEF VersionInv
  <1>10. \A w \in Workers : ~Taken(job'[w]) /\ ~Freed(job'[w])
    BY <1>1, IdleJob DEF Taken, Freed
  <1> QED
    BY <1>9, <1>10 DEF StockInv, RoomInv

\* Nobody has done a thing when the request begins, and it has no unit yet.
LEMMA StockSame ==
    ASSUME StockInv, UNCHANGED << row, sent, doc, cached, orders, late, granted >>,
           \A w \in Workers : job'[w] = job[w] \/ (~Taken(job'[w]) /\ ~Freed(job'[w]))
    PROVE  StockInv'
  <1>1. row' = row /\ sent' = sent /\ cached' = cached /\ orders' = orders /\ Old' = Old
        /\ late' = late
    BY DEF Old
  <1>2. Live' = Live /\ Room' = Room /\ \A p \in Products : Standing(p)' = Standing(p)
    BY SameLive, SameRoom
  <1>3. VersionInv'
    BY <1>1, <1>2 DEF StockInv, VersionInv
  <1>4. ASSUME NEW w \in Workers, Taken(job'[w]), NEW p \in Products, Item[job'[w].order] = p
        PROVE  Roomy(w, p)'
    <2>1. job'[w] = job[w] /\ Roomy(w, p)
      BY <1>4 DEF StockInv, RoomInv, Reserved
    <2>2. PICK m : m = Live[p] + 1
      OBVIOUS
    <2>3. /\ Fits(Old, p, m, Room) /\ Behind(sent, w, p, m, Room)
          /\ (Doing(job[w], "saved") \/ Doing(job[w], "place")) /\ ~Waiting(sent, w)
             => (late \/ Fits(row.products, p, m, Room)) /\ AllFit(sent, p, m, Room)
      BY <2>1, <2>2 DEF Roomy
    <2>4. Live'[p] + 1 = m
      BY <1>2, <2>2
    <2>5. /\ Fits(Old', p, m, Room') /\ Behind(sent', w, p, m, Room')
          /\ (Doing(job'[w], "saved") \/ Doing(job'[w], "place")) /\ ~Waiting(sent', w)
             => (late' \/ Fits(row'.products, p, m, Room')) /\ AllFit(sent', p, m, Room')
      BY <1>1, <1>2, <2>1, <2>3
    <2> QED
      BY <2>4, <2>5 DEF Roomy
  <1>5. ASSUME NEW w \in Workers, Freed(job'[w]), NEW p \in Products, Item[job'[w].order] = p
        PROVE  Fits(Old', p, Live'[p] + 1, Room')
    <2>1. job'[w] = job[w] /\ Fits(Old, p, Live[p] + 1, Room)
      BY <1>5 DEF StockInv, RoomInv, Claimed
    <2> QED
      BY <1>1, <1>2, <2>1
  <1>6. \A w \in Workers : (Taken(job'[w]) => Reserved(w)') /\ (Freed(job'[w]) => Claimed(w)')
    BY <1>4, <1>5 DEF Reserved, Claimed
  <1> QED
    BY <1>3, <1>6 DEF StockInv, RoomInv

LEMMA StockBegun ==
    ASSUME ControlInv, StockInv, NEW w \in Workers, NEW k, Begun(w, k)
    PROVE  StockInv'
  <1>1. /\ job' = [job EXCEPT ![w] = k] /\ job \in [Workers -> Jobs]
        /\ UNCHANGED << row, sent, doc, cached, orders, late, granted >>
        /\ k.op = "checkout" => k.todo = << "lock", "load", "take", "save", "place" >>
        /\ k.op = "cancel" => k.todo = << "lock", "claim", "load", "restock", "save" >>
    BY Zenon DEF Begun, ControlInv, TypeInv, store
  <1>2. ~Taken(k) /\ ~Freed(k)
    BY <1>1 DEF Taken, Freed, Doing
  <1>3. \A v \in Workers : job'[v] = job[v] \/ (~Taken(job'[v]) /\ ~Freed(job'[v]))
    BY <1>1, <1>2
  <1> QED
    BY <1>1, <1>3, StockSame

LEMMA StockStep ==
    ASSUME ~ColdStart, ControlInv, ListsInv, StockInv, NEW w \in Workers, Step(w) \/ Fails(w)
    PROVE  StockInv'
  <1>1. CASE Calm(w)
    BY <1>1, CalmStep
  <1>2. CASE PlaceOrder(w)
    BY <1>2, PlaceStep
  <1>3. CASE Step(w) /\ ClaimRestore(w)
    <2>1. CASE ~UNCHANGED orders
      BY <1>3, <2>1, ClaimStep
    <2>2. CASE UNCHANGED orders
      <3>1. UNCHANGED doc /\ job'[w] = Idle
        <4>1. UNCHANGED doc /\ orders[job[w].order] # "live"
          BY <1>3, <2>2, ClaimAnew
        <4> QED
          BY <1>3, <4>1, EndsEffect DEF ClaimRestore
      <3> QED
        BY <1>1, <2>2, <3>1 DEF Calm
    <2> QED
      BY <2>1, <2>2
  <1>4. CASE Step(w) /\ (TakeStock(w) \/ RestockItems(w))
    <2>1. CASE UNCHANGED doc /\ job'[w] = Idle
      <3>1. UNCHANGED orders
        BY <1>4, Zenon DEF TakeStock, RestockItems
      <3> QED
        BY <1>1, <2>1, <3>1 DEF Calm
    <2> QED
      BY <1>4, <2>1, TakeStep, RestockStep
  <1>5. CASE Step(w) /\ ~(TakeStock(w) \/ RestockItems(w) \/ ClaimRestore(w) \/ PlaceOrder(w))
    BY <1>1, <1>5, OrderCases DEF Calm
  <1>6. CASE Fails(w)
    <2>1. Ends(w) /\ UNCHANGED doc /\ UNCHANGED orders
      BY <1>6 DEF Fails
    <2> QED
      BY <1>1, <2>1, EndsEffect DEF Calm
  <1> QED
    BY <1>2, <1>3, <1>4, <1>5, <1>6

\* Until a restart has read what an overtaken save wrote.
LEMMA AlwaysInStock ==
    ASSUME ~ColdStart
    PROVE  Spec => [](undone \/ StockInv)
  <1>1. Init => StockInv
    <2> SUFFICES ASSUME Init PROVE StockInv
      OBVIOUS
    <2>1. \A p \in Products : Standing(p) = {}
      BY DEF Init, Standing
    <2>2. \A p \in Products : IsFiniteSet(Standing(p)) /\ Live[p] = 0
      BY <2>1, FS_EmptySet DEF Live
    <2>3. \A p \in Products : Live[p] <= Room[p]
      <3>1. ControlInv
        BY ControlInit
      <3> QED
        BY <2>2, <3>1, RoomIs
    <2>4. \A w \in Workers : ~Taken(job[w]) /\ ~Freed(job[w])
      BY IdleJob DEF Init, Taken, Freed
    <2>5. row = None /\ DOMAIN sent = {} /\ cached = None /\ ~late /\ \A o \in Orders : orders[o] = "none"
      BY DEF Init
    <2> QED
      BY <2>2, <2>3, <2>4, <2>5 DEF StockInv, VersionInv, RoomInv
  <1>2. ControlInv /\ ListsInv /\ (undone \/ StockInv) /\ [Next]_vars => (undone \/ StockInv)'
    <2> SUFFICES ASSUME ControlInv, ListsInv, undone \/ StockInv, [Next]_vars, ~undone'
                 PROVE  StockInv'
      OBVIOUS
    <2>1. CASE \E w \in Workers : Turn(w) /\ (Step(w) \/ Fails(w))
      <3>1. undone' = undone
        BY <2>1, HistoryCases
      <3> QED
        BY <2>1, <3>1, StockStep
    <2>2. CASE \E w \in Workers : job[w] = Idle /\ Running = {} /\ (Boot(w) \/ Customer(w) \/ Admin(w))
      <3>1. PICK w \in Workers : \E k : Begun(w, k)
        BY <2>2, BeginEffect
      <3>2. undone' = undone
        BY <3>1 DEF Begun, store
      <3> QED
        BY <3>1, <3>2, StockBegun
    <2>3. CASE Running = {} /\ Upsert
      <3>1. undone' = undone
        BY <2>3 DEF Upsert
      <3> QED
        BY <2>3, <3>1, StockUpsert
    <2>4. CASE Running = {} /\ Restart
      <3>1. undone => undone'
        BY <2>4 DEF Restart
      <3> QED
        BY <2>4, <3>1, StockRestart
    <2>5. CASE UNCHANGED vars
      <3>1. UNCHANGED << row, sent, doc, cached, orders, late, granted, undone >> /\ job' = job
        BY <2>5 DEF vars
      <3> QED
        BY <3>1, StockSame
    <2> QED
      BY <2>1, <2>2, <2>3, <2>4, <2>5, NextCases
  <1> QED
    BY <1>1, <1>2, HandlersInControl, AlwaysListed, PTL DEF Spec

\* No more orders stand than there were units at first and edits have added, whatever
\* fails, restarts or is edited at the same time and whichever saves overtake each other,
\* unless a restart has read what an overtaken save wrote: the order is written when a
\* document without its unit has been stored, and the unit goes back only after the order
\* has been claimed.
THEOREM NothingOversold ==
    ASSUME ~ColdStart
    PROVE  Spec => []NeverOversold
  <1>1. undone \/ StockInv => NeverOversold
    <2> SUFFICES ASSUME StockInv, ~undone, NEW p \in Products
                 PROVE  Cardinality(Standing(p)) <= StockOf(Seed, p) + granted[p]
      BY DEF NeverOversold
    <2>1. Live[p] <= Room[p]
      BY DEF StockInv, VersionInv
    <2> QED
      BY <2>1 DEF Live, Room
  <1> QED
    BY <1>1, AlwaysInStock, PTL
=============================================================================
