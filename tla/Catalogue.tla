----------------------------- MODULE Catalogue -----------------------------
(***************************************************************************)
(* The catalogue document: one JSON row (cms_state), one copy of it in the *)
(* server's memory that every handler edits in place, and saves that send  *)
(* the whole document back.  Beside it, the product_types table and the    *)
(* cache in front of it.  Stock is the document's (INVENTORY_SQL_MODE off).*)
(*                                                                         *)
(* The server is one thread: between two answers of the database only one  *)
(* handler runs.  A handler is the list job[w].todo of what it has still   *)
(* to do; the steps in Waits are begun by somebody else, the others follow *)
(* without a pause (Turn).                                                 *)
(***************************************************************************)
EXTENDS Naturals, SequencesExt

CONSTANTS
    Workers, Orders,
    Item,         \* the product each order buys one unit of
    Seed,         \* getInitialDatabase: the entries of the first document
    Fresh,        \* ids of products an admin may add
    Types, Names, \* ids of product types, and their names
    FirstTypes,   \* the name of each type at the start, None where there is no row
    None,
    Requests,     \* the handlers of this instance
    Entered,      \* the stock numbers an admin's form may send: typed, or shown long ago
    ColdStart,    \* BOOLEAN: the load at boot has failed, and requests are served
    MaxEvents     \* bound: admin requests, failures and restarts, together

Products == {Seed[i].id : i \in DOMAIN Seed} \cup Fresh
Table == [Types -> Names \cup {None}]

Entries == [id : Products, stock : Nat, type : Types \cup {None}, sub : Names \cup {None}]
Documents == [products : Seq(Entries), page : {0, 1}]

ASSUME CatalogueConstants ==
    /\ Item \in [Orders -> Products] /\ FirstTypes \in Table
    /\ Seed \in Seq(Entries)  \* GLAMIRK_PRODUCTS: ids differ
    /\ \A i, k \in DOMAIN Seed : Seed[i].id = Seed[k].id => i = k
    /\ \A i \in DOMAIN Seed : Seed[i].id \notin Fresh
    /\ None \notin Workers \cup Products \cup Types \cup Names
    /\ None \notin Entries /\ None \notin Documents
    /\ Entered \subseteq Nat /\ ColdStart \in BOOLEAN
    /\ MaxEvents \in Nat

VARIABLES
    row,      \* cms_state.data, None before the first boot
    doc,      \* the document object each worker has loaded
    cached,   \* cachedDb: whose object is the shared one
    sent,     \* the upserts on their way to PostgreSQL; old if a later one was quicker
    types,    \* the product_types table
    known,    \* cachedTypes
    lock,     \* the holder of withStockLock
    orders,   \* of each order: none, live, or returned
    job,      \* what each worker is doing
    listed,   \* history: the products that were added and not deleted
    unsaved,  \* history: the last save sent has failed
    late,     \* history: the row was written by an old save
    undone,   \* history: a restart has read what an old save wrote
    granted,  \* history: the units of each product that admin edits have added
    events

vars == << row, doc, cached, sent, types, known, lock, orders, job, listed,
           unsaved, late, undone, granted, events >>
store == << row, sent, unsaved, late, undone, granted >>
typeVars == << types, known >>

Idle == [op |-> "none", todo |-> <<>>, on |-> None, product |-> None, idx |-> 0,
         entry |-> None, type |-> None, to |-> None, order |-> None,
         list |-> None, read |-> None]

Waits == {"lock", "select", "loaded", "seed", "count", "saved", "ask", "told",
          "insert", "update", "delete", "forget", "pin", "claim", "place"}

At(w, step) == job[w].todo # <<>> /\ Head(job[w].todo) = step
Running == {w \in Workers : job[w].todo # <<>> /\ Head(job[w].todo) \notin Waits}
Turn(w) == Running \subseteq {w}
AllIdle == \A w \in Workers : job[w] = Idle

Rest(w) == Tail(job[w].todo)
\* It answers, or throws; withStockLock releases in a finally either way.
Ends(w) ==
    /\ job' = [job EXCEPT ![w] = Idle]
    /\ lock' = IF lock = w THEN None ELSE lock
\* The handler goes on with what is left, or with a longer or shorter list.
Turns(w, todo) == job' = [job EXCEPT ![w].todo = todo] /\ UNCHANGED lock
Proceeds(w) == IF Rest(w) = <<>> THEN Ends(w) ELSE Turns(w, Rest(w))

Mine(w) == doc[job[w].on]
ProductsOf(w) == Mine(w).products
Edit(w, list) == doc' = [doc EXCEPT ![job[w].on].products = list]
Index(list, p) ==
    LET at == {i \in DOMAIN list : list[i].id = p} IN IF at = {} THEN 0 ELSE Min(at)
\* list[i] = e of JavaScript, which extends a list that has become too short.
Assign(list, i, e) ==
    [k \in 1 .. Max({i, Len(list)}) |-> IF k = i THEN e ELSE list[k]]
FirstDocument == [products |-> Seed, page |-> 0]
StockOf(list, p) == LET i == Index(list, p) IN IF i = 0 THEN 0 ELSE list[i].stock
\* The edit of a product puts this list in the place of the worker's.
Puts(w, list) ==
    LET before(p) == StockOf(ProductsOf(w), p)
        after(p) == StockOf(list, p)
    IN  /\ Edit(w, list)
        /\ granted' = [p \in Products |-> IF after(p) > before(p)
                                         THEN granted[p] + after(p) - before(p) ELSE granted[p]]

Init ==
    /\ row = None /\ sent = <<>> /\ unsaved = FALSE /\ late = FALSE /\ undone = FALSE
    /\ granted = [p \in Products |-> 0]
    /\ doc = [w \in Workers |-> None] /\ cached = None
    /\ types = FirstTypes /\ known = None
    /\ lock = None
    /\ orders = [o \in Orders |-> "none"]
    /\ job = [w \in Workers |-> Idle]
    /\ listed = {Seed[i].id : i \in DOMAIN Seed}
    /\ events = 0

----------------------------------------------------------------------------
(* db.ts: loadDatabase, seedInitialDatabase, saveDatabase.                  *)

Audit == << "load", "save" >>  \* logAudit: into the same document

\* Served from memory when there is a copy; the handler goes on at once.
Load(w) ==
    /\ At(w, "load")
    /\ IF cached # None
       THEN job' = [job EXCEPT ![w].todo = Rest(w), ![w].on = cached]
       ELSE job' = [job EXCEPT ![w].todo = << "select", "loaded" >> \o Rest(w)]
    /\ UNCHANGED << store, doc, cached, typeVars, lock, orders, listed, events >>

Select(w) ==
    /\ At(w, "select")
    /\ job' = [job EXCEPT ![w].todo = Rest(w), ![w].read = row]
    /\ UNCHANGED << store, doc, cached, typeVars, lock, orders, listed, events >>

\* The answer becomes the shared copy, unless there was no row: then a seed.
Loaded(w) ==
    /\ At(w, "loaded")
    /\ IF job[w].read = None
       THEN /\ job' = [job EXCEPT ![w].todo = << "seed" >> \o @]
            /\ UNCHANGED << doc, cached >>
       ELSE /\ doc' = [doc EXCEPT ![w] = job[w].read]
            /\ cached' = w
            /\ job' = [job EXCEPT ![w] = IF @.op = "boot" THEN Idle
                                        ELSE [@ EXCEPT !.todo = Rest(w), !.on = w, !.read = None]]
    /\ UNCHANGED << store, typeVars, lock, orders, listed, events >>

\* ON CONFLICT DO NOTHING: whoever comes second reads what the first wrote.
SeedInitial(w) ==
    /\ At(w, "seed")
    /\ IF row = None
       THEN /\ row' = FirstDocument
            /\ job' = [job EXCEPT ![w].todo = Rest(w), ![w].read = FirstDocument]
       ELSE /\ job' = [job EXCEPT ![w].todo = << "select" >> \o Rest(w)]
            /\ UNCHANGED row
    /\ UNCHANGED << doc, cached, sent, unsaved, late, undone, granted, typeVars, lock, orders,
                    listed, events >>

\* The statement carries the whole document as it is now.
Send(w) ==
    /\ cached' = job[w].on /\ unsaved' = FALSE
    /\ sent' = Append(sent, [by |-> w, data |-> Mine(w), old |-> FALSE])
    /\ job' = [job EXCEPT ![w].todo = << "saved" >> \o Rest(w)]

Save(w) ==
    /\ At(w, "save")
    /\ IF ProductsOf(w) # <<>>
       THEN Send(w)
       ELSE /\ job' = [job EXCEPT ![w].todo = << "count" >> \o Rest(w)]
            /\ UNCHANGED << cached, sent, unsaved >>
    /\ UNCHANGED << row, late, undone, granted, doc, typeVars, lock, orders, listed, events >>

\* An empty catalogue never replaces stored products.
CountStored(w) ==
    /\ At(w, "count")
    /\ IF row.products # <<>>
       THEN Ends(w) /\ unsaved' = TRUE /\ UNCHANGED << cached, sent >>
       ELSE Send(w) /\ UNCHANGED lock
    /\ UNCHANGED << row, late, undone, granted, doc, typeVars, orders, listed, events >>

\* PostgreSQL executes one of the upserts that are on their way, on pooled connections.
Upsert ==
    \E i \in DOMAIN sent :
        /\ row' = sent[i].data /\ late' = sent[i].old
        /\ sent' = RemoveAt([k \in DOMAIN sent |-> IF k < i THEN [sent[k] EXCEPT !.old = TRUE]
                                                   ELSE sent[k]], i)
        /\ UNCHANGED << unsaved, undone, granted, doc, cached, typeVars, lock, orders, job, listed,
                        events >>

Saved(w) ==
    /\ At(w, "saved")
    /\ \A i \in DOMAIN sent : sent[i].by # w
    /\ Proceeds(w)
    /\ UNCHANGED << store, doc, cached, typeVars, orders, listed, events >>

----------------------------------------------------------------------------
(* productType.service: the list of types and the cache in front of it.     *)

\* listProductTypes: from the cache, or by a SELECT whose answer becomes it.
ListTypes(w) ==
    /\ At(w, "types")
    /\ IF known = None THEN Turns(w, << "ask", "told" >> \o Rest(w))
       ELSE IF Rest(w) = <<>> THEN Ends(w)
       ELSE job' = [job EXCEPT ![w].todo = Rest(w), ![w].list = known] /\ UNCHANGED lock
    /\ UNCHANGED << store, doc, cached, typeVars, orders, listed, events >>

AskTypes(w) ==
    /\ At(w, "ask")
    /\ job' = [job EXCEPT ![w].todo = Rest(w), ![w].list = types]
    /\ UNCHANGED << store, doc, cached, typeVars, lock, orders, listed, events >>

TypesTold(w) ==
    /\ At(w, "told")
    /\ known' = job[w].list
    /\ Proceeds(w)
    /\ UNCHANGED << store, doc, cached, types, orders, listed, events >>

\* resolveProductType: by id, else by the name in subCategory.
Resolve(e, list) ==
    IF e.type # None /\ list[e.type] # None THEN e.type
    ELSE LET named == {t \in Types : list[t] # None /\ list[t] = e.sub}
         IN  IF named = {} THEN None ELSE CHOOSE t \in named : TRUE

\* The clash check on the list, and the unique index behind it.
NameFree(list, t, n) == \A u \in Types \ {t} : list[u] # n

CheckName(w) ==
    LET t == job[w].type IN
    /\ At(w, "name")
    /\ IF /\ NameFree(job[w].list, t, job[w].to)
          /\ (job[w].op = "rename") = (job[w].list[t] # None)
       THEN Proceeds(w)
       ELSE Ends(w)
    /\ UNCHANGED << store, doc, cached, typeVars, orders, listed, events >>

InsertType(w) ==
    LET t == job[w].type IN
    /\ At(w, "insert")
    /\ IF types[t] = None /\ NameFree(types, t, job[w].to)
       THEN types' = [types EXCEPT ![t] = job[w].to] /\ Proceeds(w)
       ELSE Ends(w) /\ UNCHANGED types
    /\ UNCHANGED << store, doc, cached, known, orders, listed, events >>

\* The UPDATE finds no row if the type was deleted; then the handler throws,
\* after it has dropped the cache.
UpdateType(w) ==
    LET t == job[w].type IN
    /\ At(w, "update")
    /\ IF types[t] = None THEN Turns(w, << "forget" >>) /\ UNCHANGED types
       ELSE IF NameFree(types, t, job[w].to)
       THEN types' = [types EXCEPT ![t] = job[w].to] /\ Proceeds(w)
       ELSE Ends(w) /\ UNCHANGED types
    /\ UNCHANGED << store, doc, cached, known, orders, listed, events >>

\* Its answer: drop the cache, and pin the products that mean this type.
PinProducts(w) ==
    LET t == job[w].type
        old == job[w].list[t]
        n == job[w].to
        Means(e) == e.type = t \/ (e.type = None /\ e.sub = old)
        list == ProductsOf(w)
        touched == old # n /\ \E i \in DOMAIN list : Means(list[i])
    IN
    /\ At(w, "pin")
    /\ known' = None
    /\ IF touched
       THEN /\ Edit(w, [i \in DOMAIN list |->
                          IF Means(list[i]) THEN [list[i] EXCEPT !.type = t, !.sub = n]
                          ELSE list[i]])
            /\ Turns(w, << "save" >> \o Rest(w))
       ELSE Proceeds(w) /\ UNCHANGED doc
    /\ UNCHANGED << store, cached, types, orders, listed, events >>

\* deleteProductType: refused while a product resolves to the type.
CheckUnused(w) ==
    LET t == job[w].type
        list == ProductsOf(w)
        inUse == \E i \in DOMAIN list : Resolve(list[i], job[w].list) = t
    IN
    /\ At(w, "unused")
    /\ IF job[w].list[t] # None /\ ~inUse THEN Proceeds(w)
       ELSE IF job[w].op = "reassign" THEN Turns(w, << "load", "save" >>)
       ELSE Ends(w)
    /\ UNCHANGED << store, doc, cached, typeVars, orders, listed, events >>

DeleteType(w) ==
    /\ At(w, "delete")
    /\ types' = [types EXCEPT ![job[w].type] = None]
    /\ Proceeds(w)
    /\ UNCHANGED << store, doc, cached, known, orders, listed, events >>

\* invalidateProductTypeCache, when the statement has been answered.
ForgetTypes(w) ==
    /\ At(w, "forget")
    /\ known' = None
    /\ Proceeds(w)
    /\ UNCHANGED << store, doc, cached, types, orders, listed, events >>

\* The loop of the reassign route, and its save if anything moved.
MoveProducts(w) ==
    LET t == job[w].type
        u == job[w].to
        names == job[w].list
        list == ProductsOf(w)
        Moves(e) == e.type = t \/ (e.type = None /\ e.sub = names[t])
    IN
    /\ At(w, "move")
    /\ IF names[t] = None \/ names[u] = None
       THEN Ends(w) /\ UNCHANGED doc
       ELSE IF \E i \in DOMAIN list : Moves(list[i])
       THEN /\ Edit(w, [i \in DOMAIN list |->
                          IF Moves(list[i]) THEN [list[i] EXCEPT !.type = u, !.sub = names[u]]
                          ELSE list[i]])
            /\ Turns(w, << "save" >> \o Rest(w))
       ELSE Proceeds(w) /\ UNCHANGED doc
    /\ UNCHANGED << store, cached, typeVars, orders, listed, events >>

----------------------------------------------------------------------------
(* Product routes of the admin.                                             *)

\* The stored entry with the fields of the form, its stock among them if it sends one.
Merged(e, form, n) ==
    [e EXCEPT !.type = IF form.type = None THEN @ ELSE form.type, !.stock = n]

\* The index, and the copy the edit starts from: both are kept across the awaits.
FindProduct(w) ==
    LET list == ProductsOf(w)
        i == Index(list, job[w].product)
    IN
    /\ At(w, "find")
    /\ IF i = 0 THEN Ends(w)
       ELSE \E n \in Entered \cup {list[i].stock} :
            LET e == Merged(list[i], job[w], n) IN
            /\ job' = [job EXCEPT ![w].idx = i, ![w].entry = e,
                         ![w].todo = (IF e.type = None THEN <<>> ELSE << "types", "resolve" >>)
                                     \o Rest(w)]
            /\ UNCHANGED lock
    /\ UNCHANGED << store, doc, cached, typeVars, orders, listed, events >>

\* applyProductType: an unknown type is a 400; else both fields are written.
ApplyType(w) ==
    LET name == job[w].list[job[w].entry.type] IN
    /\ At(w, "resolve")
    /\ IF name = None THEN Ends(w)
       ELSE /\ job' = [job EXCEPT ![w].entry.sub = name, ![w].todo = Rest(w)]
            /\ UNCHANGED lock
    /\ UNCHANGED << store, doc, cached, typeVars, orders, listed, events >>

PutProduct(w) ==
    /\ At(w, "put")
    /\ job[w].idx <= Len(ProductsOf(w)) + 1
    /\ Puts(w, Assign(ProductsOf(w), job[w].idx, job[w].entry))
    /\ Proceeds(w)
    /\ UNCHANGED << row, sent, unsaved, late, undone, cached, typeVars, orders, listed, events >>

PushProduct(w) ==
    /\ At(w, "push")
    /\ Puts(w, Append(ProductsOf(w), job[w].entry))
    /\ listed' = listed \cup {job[w].entry.id}
    /\ Proceeds(w)
    /\ UNCHANGED << row, sent, unsaved, late, undone, cached, typeVars, orders, events >>

CopyProduct(w) ==
    LET i == Index(ProductsOf(w), job[w].product) IN
    /\ At(w, "copy")
    /\ IF i = 0 THEN Ends(w)
       ELSE /\ job' = [job EXCEPT ![w].todo = Rest(w),
                         ![w].entry = [ProductsOf(w)[i] EXCEPT !.id = job[w].to]]
            /\ UNCHANGED lock
    /\ UNCHANGED << store, doc, cached, typeVars, orders, listed, events >>

\* filter: the entries that stay, in the order they had.
DropProduct(w) ==
    LET p == job[w].product
        list == ProductsOf(w)
        stay == {i \in DOMAIN list : list[i].id # p}
    IN
    /\ At(w, "drop")
    /\ IF Index(list, p) = 0
       THEN Ends(w) /\ UNCHANGED << doc, listed >>
       ELSE \E at \in [1 .. Cardinality(stay) -> stay] :
            /\ \A i, j \in DOMAIN at : i < j => at[i] < at[j]
            /\ Edit(w, [i \in DOMAIN at |-> list[at[i]]])
            /\ listed' = listed \ {p}
            /\ Proceeds(w)
    /\ UNCHANGED << store, cached, typeVars, orders, events >>

\* Any other section of the document: banners, navigation, offers, media.
EditPage(w) ==
    /\ At(w, "page")
    /\ doc' = [doc EXCEPT ![job[w].on].page = 1]
    /\ Proceeds(w)
    /\ UNCHANGED << store, cached, typeVars, orders, listed, events >>

----------------------------------------------------------------------------
(* Stock of the document: /checkout, and restoreOrderStock.                 *)

Lock(w) ==
    /\ At(w, "lock")
    /\ lock = None /\ lock' = w
    /\ job' = [job EXCEPT ![w].todo = Rest(w)]
    /\ UNCHANGED << store, doc, cached, typeVars, orders, listed, events >>

\* Mutant: the document is not saved before the order is written.
TakeStockUnsaved(w) ==
    LET list == ProductsOf(w)
        i == Index(list, Item[job[w].order])
    IN
    /\ At(w, "take")
    /\ IF i = 0 \/ list[i].stock = 0
       THEN Ends(w) /\ UNCHANGED doc
       ELSE Edit(w, [list EXCEPT ![i].stock = @ - 1]) /\ Turns(w, << "place" >>)
    /\ UNCHANGED << store, cached, typeVars, orders, listed, events >>

\* The check and the deduction, with no await between them.
TakeStock(w) ==
    LET list == ProductsOf(w)
        i == Index(list, Item[job[w].order])
    IN
    /\ At(w, "take")
    /\ IF i = 0 \/ list[i].stock = 0
       THEN Ends(w) /\ UNCHANGED doc
       ELSE Edit(w, [list EXCEPT ![i].stock = @ - 1]) /\ Proceeds(w)
    /\ UNCHANGED << store, cached, typeVars, orders, listed, events >>

PlaceOrder(w) ==
    /\ At(w, "place")
    /\ orders' = [orders EXCEPT ![job[w].order] = "live"]
    /\ Ends(w)
    /\ UNCHANGED << store, doc, cached, typeVars, listed, events >>

ClaimRestore(w) ==
    LET o == job[w].order IN
    /\ At(w, "claim")
    /\ IF orders[o] = "live"
       THEN orders' = [orders EXCEPT ![o] = "returned"] /\ Proceeds(w)
       ELSE Ends(w) /\ UNCHANGED orders
    /\ UNCHANGED << store, doc, cached, typeVars, listed, events >>

\* Mutant: the returned units stay in memory.
RestockUnsaved(w) ==
    LET list == ProductsOf(w)
        i == Index(list, Item[job[w].order])
    IN
    /\ At(w, "restock")
    /\ IF i = 0 THEN UNCHANGED doc ELSE Edit(w, [list EXCEPT ![i].stock = @ + 1])
    /\ Ends(w)
    /\ UNCHANGED << store, cached, typeVars, orders, listed, events >>

RestockItems(w) ==
    LET list == ProductsOf(w)
        i == Index(list, Item[job[w].order])
    IN
    /\ At(w, "restock")
    /\ IF i = 0
       THEN Ends(w) /\ UNCHANGED doc
       ELSE Edit(w, [list EXCEPT ![i].stock = @ + 1]) /\ Proceeds(w)
    /\ UNCHANGED << store, cached, typeVars, orders, listed, events >>

----------------------------------------------------------------------------
(* What comes from outside.                                                 *)

Begin(w, request) ==
    /\ request.op \in Requests
    /\ cached # None \/ (ColdStart /\ \A v \in Workers : job[v].op # "boot")
    /\ job' = [job EXCEPT ![w] = request]
    /\ UNCHANGED << store, doc, cached, typeVars, lock, orders, listed >>

\* server.ts loads the document before it listens.
Boot(w) ==
    /\ AllIdle /\ cached = None
    /\ job' = [job EXCEPT ![w] = [Idle EXCEPT !.op = "boot", !.todo = << "load" >>]]
    /\ UNCHANGED << store, doc, cached, typeVars, lock, orders, listed, events >>

Customer(w) ==
    /\ UNCHANGED events
    /\ \/ \E o \in Orders :
            /\ orders[o] = "none" /\ \A v \in Workers : job[v].order # o
            /\ Begin(w, [Idle EXCEPT !.op = "checkout", !.order = o,
                 !.todo = << "lock", "load", "take", "save", "place" >>])
       \/ \E o \in Orders :
            /\ orders[o] = "live"
            /\ Begin(w, [Idle EXCEPT !.op = "cancel", !.order = o,
                 !.todo = << "lock", "claim", "load", "restock", "save" >>])
       \/ Begin(w, [Idle EXCEPT !.op = "content", !.todo = << "load", "types" >>])

\* Of the requests that leave the table as it is (an id that is taken, the name a
\* type has already) none is made.
Admin(w) ==
    /\ events < MaxEvents /\ events' = events + 1
    /\ \/ \E p \in Products, t \in Types \cup {None} :
            Begin(w, [Idle EXCEPT !.op = "update", !.product = p, !.type = t,
              !.todo = << "load", "find", "put", "save" >> \o Audit])
       \/ \E p \in Fresh \ listed, t \in Types :
            Begin(w, [Idle EXCEPT !.op = "create",
              !.entry = [id |-> p, stock |-> 1, type |-> t, sub |-> None],
              !.todo = << "types", "resolve", "load", "push", "save" >> \o Audit])
       \/ \E p \in Products, q \in Fresh \ listed :
            Begin(w, [Idle EXCEPT !.op = "duplicate", !.product = p, !.to = q,
              !.todo = << "load", "copy", "push", "save" >> \o Audit])
       \/ \E p \in Products :
            Begin(w, [Idle EXCEPT !.op = "remove", !.product = p,
              !.todo = << "load", "drop", "save" >> \o Audit])
       \/ Begin(w, [Idle EXCEPT !.op = "page", !.todo = << "load", "page", "save" >> \o Audit])
       \/ \E t \in Types, n \in Names :
            /\ types[t] = None
            /\ Begin(w, [Idle EXCEPT !.op = "addType", !.type = t, !.to = n,
                 !.todo = << "types", "name", "insert", "forget" >> \o Audit])
       \/ \E t \in Types, n \in Names :
            /\ types[t] # n
            /\ Begin(w, [Idle EXCEPT !.op = "rename", !.type = t, !.to = n,
                 !.todo = << "load", "types", "name", "update", "pin" >> \o Audit])
       \/ \E t \in Types :
            Begin(w, [Idle EXCEPT !.op = "removeType", !.type = t,
              !.todo = << "load", "types", "unused", "delete", "forget" >> \o Audit])
       \/ \E t, u \in Types, after \in BOOLEAN :
            /\ t # u
            /\ Begin(w, [Idle EXCEPT !.op = "reassign", !.type = t, !.to = u,
              !.todo = << "types", "load", "move" >>
                       \o (IF after THEN << "types", "unused", "delete", "forget" >> ELSE <<>>)
                       \o Audit])

----------------------------------------------------------------------------
(* Failures.                                                                *)

\* A statement fails, or its answer does not come in time: the handler throws.
\* A save that was given up may still be executed, or never.
Fails(w) ==
    /\ job[w].todo # <<>> /\ Head(job[w].todo) \in Waits
    /\ job[w].op = "boot" => ColdStart
    /\ events < MaxEvents /\ events' = events + 1
    /\ Ends(w)
    /\ LET mine == {i \in DOMAIN sent : sent[i].by = w} IN
       \/ mine = {} /\ UNCHANGED sent /\ unsaved' = (unsaved \/ At(w, "count"))
       \/ \E i \in mine : /\ sent' = [sent EXCEPT ![i].by = None]
                          /\ UNCHANGED unsaved
       \/ \E i \in mine : /\ sent' = RemoveAt(sent, i)
                          /\ unsaved' = (unsaved \/ i = Len(sent))
    /\ UNCHANGED << row, late, undone, granted, doc, cached, typeVars, orders, listed >>

\* The process dies; of the saves under way PostgreSQL has executed some.
Restart ==
    /\ \E w \in Workers : job[w] # Idle
    /\ events < MaxEvents /\ events' = events + 1
    /\ \/ row' = row /\ undone' = (undone \/ late)
       \/ \E i \in DOMAIN sent : row' = sent[i].data /\ undone' = (undone \/ sent[i].old)
    /\ sent' = <<>> /\ unsaved' = FALSE /\ late' = FALSE
    /\ doc' = [w \in Workers |-> None] /\ cached' = None /\ known' = None
    /\ lock' = None
    /\ job' = [w \in Workers |-> Idle]
    /\ listed' = IF row' = None THEN listed
                 ELSE {row'.products[i].id : i \in DOMAIN row'.products}
    /\ UNCHANGED << granted, types, orders >>

Step(w) ==
    \/ Load(w) \/ Select(w) \/ Loaded(w) \/ SeedInitial(w)
    \/ Save(w) \/ CountStored(w) \/ Saved(w)
    \/ ListTypes(w) \/ AskTypes(w) \/ TypesTold(w) \/ CheckName(w)
    \/ InsertType(w) \/ UpdateType(w) \/ PinProducts(w)
    \/ CheckUnused(w) \/ DeleteType(w) \/ ForgetTypes(w) \/ MoveProducts(w)
    \/ FindProduct(w) \/ ApplyType(w) \/ PutProduct(w) \/ PushProduct(w)
    \/ CopyProduct(w) \/ DropProduct(w) \/ EditPage(w)
    \/ Lock(w) \/ TakeStock(w) \/ PlaceOrder(w) \/ ClaimRestore(w) \/ RestockItems(w)

Next ==
    \/ \E w \in Workers : Turn(w) /\ (Step(w) \/ Fails(w))
    \/ \E w \in Workers :
          job[w] = Idle /\ Running = {} /\ (Boot(w) \/ Customer(w) \/ Admin(w))
    \/ Running = {} /\ Upsert
    \/ Running = {} /\ Restart

Spec == Init /\ [][Next]_vars
----------------------------------------------------------------------------
(* Properties.                                                              *)

\* The orders of a product that stand.
Standing(p) == {o \in Orders : orders[o] = "live" /\ Item[o] = p}

\* No more orders stand than there were units at first and edits have added, whatever
\* fails or restarts and whichever saves overtake each other, unless a restart reads what
\* an overtaken save wrote: the document is stored before the order that takes from it exists.
NeverOversold ==
    ~undone => \A p \in Products :
                   Cardinality(Standing(p)) <= StockOf(Seed, p) + granted[p]

\* With no save under way, and unless the last one failed or was executed before an older
\* one, a restart would read the document the shop has been showing (saveDatabase "keeps
\* it in sync").
StoredIsShown ==
    (/\ sent = <<>> /\ Running = {} /\ ~unsaved /\ ~late /\ cached # None
     /\ \A w \in Workers : ~At(w, "count"))
    => row = doc[cached]

----------------------------------------------------------------------------
(* What the documentation says and the code does not do.                   *)

\* "a restart would silently undo every checkout's stock deduction": it still may, after
\* two saves have overtaken each other.
SalesSurvive ==
    \A p \in Products : Cardinality(Standing(p)) <= StockOf(Seed, p) + granted[p]

\* An edit that enters no stock adds none: the copy it took before a sale does.
EditsAddNothing == Entered = {} => \A p \in Products \ Fresh : granted[p] = 0

Quiet == AllIdle /\ cached # None

\* Between requests every product belongs to a type that exists: deleting one
\* is refused while in use, and a rename carries its products along.
EveryProductResolves ==
    Quiet => LET list == doc[cached].products
             IN  \A i \in DOMAIN list : Resolve(list[i], types) # None

\* Between requests the catalogue has each product once that was added and
\* not deleted.
NothingVanishes ==
    Quiet => LET list == doc[cached].products
             IN  /\ {list[i].id : i \in DOMAIN list} = listed
                 /\ Len(list) = Cardinality(listed)
============================================================================
