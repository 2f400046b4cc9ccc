--------------------------- MODULE ProductService ---------------------------
(***************************************************************************)
(* The product service of the online store (online_store/product/app.py).  *)
(*                                                                         *)
(* State.  `products' is the table of that name in the SQLite file on the  *)
(* shared volume, `rowSeq' its AUTOINCREMENT counter; both survive crashes.*)
(* Each pod runs one asyncio event loop: `pod' says whether its process is *)
(* down, in init_db or serving, `pos' how far it is in the SQL script.     *)
(* `req' holds, per client, a request that stopped half-way.  `answer' is  *)
(* the last HTTP answer.                                                   *)
(*                                                                         *)
(* The handlers are coroutines, so a handler without an await between two  *)
(* statements keeps the loop of its pod: update_stock is split in its      *)
(* SELECT and its UPDATE, and while a request is between the two no other  *)
(* handler of that pod runs (LoopFree).  update_product awaits             *)
(* asyncio.sleep(5), and everything may run in between.  During a rolling  *)
(* restart the old and the new pod serve the same file side by side; that  *)
(* is the case of two elements in Pods.                                    *)
(***************************************************************************)
EXTENDS Integers, Sequences

CONSTANTS
    Pods,         \* pods of the deployment that overlap in time
    Clients,      \* callers of the API, each with one request at a time
    Ids,          \* product identifiers
    Names,        \* product names
    NameOf,       \* the name each identifier is added under
    Script,       \* the INSERTs of populate_products.sql: <<[id, stock], ...>>
    Changes,      \* values of qty_change in requests
    Levels,       \* values of numberItemsInStock in requests
    Deletable,    \* products that some client asks to delete
    FailDelete,   \* the identifier "FAIL_DELETE"
    NoAnswer,     \* nothing was answered yet
    MaxStock,     \* bound: no client raises a stock level above it
    MaxRows,      \* bound: no client adds a product after that many rows
    MaxCrashes    \* bound on crashes of pods

ASSUME PodsAssumption == Pods # {}
ASSUME NameOfAssumption == NameOf \in [Ids -> Names]
ASSUME ScriptAssumption == Script \in Seq([id : Ids, stock : Int])
ASSUME DeletableAssumption == Deletable \subseteq Ids
ASSUME LevelsAssumption == Levels \subseteq Int /\ Changes \subseteq Int
ASSUME BoundsAssumption ==
    MaxStock \in Nat /\ MaxRows \in Nat /\ MaxCrashes \in Nat

VARIABLES products, rowSeq, pod, pos, req, answer, crashes

vars == <<products, rowSeq, pod, pos, req, answer, crashes>>
-----------------------------------------------------------------------------
Row == [rowid : Nat \ {0}, id : Ids, stock : Int]

Idle == [op |-> "idle"]
\* update_stock between its SELECT and its UPDATE
StockRequest ==
    [op : {"update_stock"}, pod : Pods, name : Names, change : Changes, level : Int]
\* update_product in asyncio.sleep
LevelRequest ==
    [op : {"update_product"}, pod : Pods, id : Ids, level : Levels]

Answer(c, op, subject, amount, status) ==
    [client |-> c, op |-> op, subject |-> subject,
     amount |-> amount, status |-> status]

WithId(i) == {r \in products : r.id = i}
WithName(n) == {r \in products : NameOf[r.id] = n}
\* fetchone() of a SELECT without ORDER BY: the row with the least rowid.
FirstOf(rows) == CHOOSE r \in rows : \A s \in rows : r.rowid <= s.rowid

Inserted(i, v) == products \cup {[rowid |-> rowSeq + 1, id |-> i, stock |-> v]}
\* UPDATE products SET number_items_in_stock = v WHERE the row is in rows.
Updated(rows, v) ==
    {IF r \in rows THEN [r EXCEPT !.stock = v] ELSE r : r \in products}

\* Mutation: update_stock runs in a thread and does not keep the loop.
LoopFreeThreaded(p) == pod[p] = "up"

\* The event loop of pod p can start or resume a handler.
LoopFree(p) ==
    /\ pod[p] = "up"
    /\ \A c \in Clients : req[c].op = "update_stock" => req[c].pod # p

TypeOK ==
    /\ products \subseteq Row
    /\ rowSeq \in Nat
    /\ pod \in [Pods -> {"down", "booting", "up"}]
    /\ pos \in [Pods -> 1 .. Len(Script) + 1]
    /\ req \in [Clients -> {Idle} \cup StockRequest \cup LevelRequest]
    /\ crashes \in 0 .. MaxCrashes

Init ==
    /\ products = {}
    /\ rowSeq = 0
    /\ pod = [p \in Pods |-> "down"]
    /\ pos = [p \in Pods |-> 1]
    /\ req = [c \in Clients |-> Idle]
    /\ answer = NoAnswer
    /\ crashes = 0
-----------------------------------------------------------------------------
(***************************************************************************)
(* init_db: CREATE TABLE IF NOT EXISTS, then executescript, which runs in  *)
(* autocommit mode: every INSERT is a transaction of its own and the first *)
(* one that violates UNIQUE(product_id) ends the script; the error is only *)
(* logged and the service starts.                                          *)
(***************************************************************************)
StartInitDb(p) ==
    /\ pod[p] = "down"
    /\ pod' = [pod EXCEPT ![p] = "booting"]
    /\ pos' = [pos EXCEPT ![p] = 1]
    /\ UNCHANGED <<products, rowSeq, req, answer, crashes>>

\* Mutation: no UNIQUE constraint (the schema of an earlier version).
PopulateRowUnchecked(p) ==
    /\ pod[p] = "booting"
    /\ pos[p] <= Len(Script)
    /\ products' = Inserted(Script[pos[p]].id, Script[pos[p]].stock)
    /\ rowSeq' = rowSeq + 1
    /\ pos' = [pos EXCEPT ![p] = @ + 1]
    /\ UNCHANGED <<pod, req, answer, crashes>>

PopulateRow(p) ==
    /\ pod[p] = "booting"
    /\ pos[p] <= Len(Script)
    /\ WithId(Script[pos[p]].id) = {}
    /\ products' = Inserted(Script[pos[p]].id, Script[pos[p]].stock)
    /\ rowSeq' = rowSeq + 1
    /\ pos' = [pos EXCEPT ![p] = @ + 1]
    /\ UNCHANGED <<pod, req, answer, crashes>>

FinishInitDb(p) ==
    /\ pod[p] = "booting"
    /\ \/ pos[p] = Len(Script) + 1
       \/ pos[p] <= Len(Script) /\ WithId(Script[pos[p]].id) # {}
    /\ pod' = [pod EXCEPT ![p] = "up"]
    /\ UNCHANGED <<products, rowSeq, pos, req, answer, crashes>>

\* The process of a pod dies (or is terminated by the rollout): requests it
\* was serving are dropped with their connections.
Crash(p) ==
    /\ pod[p] # "down"
    /\ crashes < MaxCrashes
    /\ pod' = [pod EXCEPT ![p] = "down"]
    /\ req' = [c \in Clients |->
                 IF req[c] # Idle /\ req[c].pod = p THEN Idle ELSE req[c]]
    /\ crashes' = crashes + 1
    /\ UNCHANGED <<products, rowSeq, pos, answer>>
-----------------------------------------------------------------------------
(***************************************************************************)
(* Handlers that do all their work between two awaits.                     *)
(***************************************************************************)
\* `not all([...])' is true of a stock of 0 as well as of a missing field.
AddProduct(c, p, i, v) ==
    /\ LoopFree(p) /\ req[c] = Idle
    /\ \/ /\ v = 0
          /\ answer' = Answer(c, "add_product", i, v, 400)
          /\ UNCHANGED <<products, rowSeq>>
       \/ /\ v # 0 /\ WithId(i) # {}
          /\ answer' = Answer(c, "add_product", i, v, 500)
          /\ UNCHANGED <<products, rowSeq>>
       \/ /\ v # 0 /\ WithId(i) = {}
          /\ rowSeq < MaxRows
          /\ products' = Inserted(i, v)
          /\ rowSeq' = rowSeq + 1
          /\ answer' = Answer(c, "add_product", i, v, 201)
    /\ UNCHANGED <<pod, pos, req, crashes>>

\* A missing row closes the connection, the commit after it raises, and the
\* client gets 500; "FAIL_DELETE" is refused before the database is opened.
DeleteProduct(c, p, i) ==
    /\ LoopFree(p) /\ req[c] = Idle
    /\ products' = IF i = FailDelete THEN products ELSE products \ WithId(i)
    /\ answer' = Answer(c, "delete_product", i, 0,
                        IF i = FailDelete \/ WithId(i) = {} THEN 500 ELSE 200)
    /\ UNCHANGED <<rowSeq, pod, pos, req, crashes>>
-----------------------------------------------------------------------------
(***************************************************************************)
(* update_stock: SELECT by name, refuse or go on to the UPDATE by name.    *)
(***************************************************************************)
UpdateStockSelect(c, p, n, d) ==
    /\ LoopFree(p) /\ req[c] = Idle
    /\ IF WithName(n) = {}
       THEN /\ answer' = Answer(c, "update_stock", n, d, 404)
            /\ UNCHANGED req
       ELSE LET new == FirstOf(WithName(n)).stock + d IN
            /\ new <= MaxStock
            /\ IF new < 0
               THEN /\ answer' = Answer(c, "update_stock", n, d, 400)
                    /\ UNCHANGED req
               ELSE /\ req' = [req EXCEPT ![c] =
                         [op |-> "update_stock", pod |-> p, name |-> n,
                          change |-> d, level |-> new]]
                    /\ UNCHANGED answer
    /\ UNCHANGED <<products, rowSeq, pod, pos, crashes>>

UpdateStockWrite(c) ==
    /\ req[c].op = "update_stock"
    /\ products' = Updated(WithName(req[c].name), req[c].level)
    /\ answer' = Answer(c, "update_stock", req[c].name, req[c].change, 200)
    /\ req' = [req EXCEPT ![c] = Idle]
    /\ UNCHANGED <<rowSeq, pod, pos, crashes>>

(***************************************************************************)
(* update_product: five seconds of asyncio.sleep, then an absolute write   *)
(* of the level the client sent.  The 404 for a missing row is raised      *)
(* inside the try and comes out as 500.                                    *)
(***************************************************************************)
\* Mutation: a missing numberItemsInStock is not turned down.
UpdateProductStartUnchecked(c, p, i, v) ==
    /\ LoopFree(p) /\ req[c] = Idle
    /\ req' = [req EXCEPT ![c] =
                 [op |-> "update_product", pod |-> p, id |-> i, level |-> NoAnswer]]
    /\ UNCHANGED <<products, rowSeq, pod, pos, answer, crashes>>

UpdateProductStart(c, p, i, v) ==
    /\ LoopFree(p) /\ req[c] = Idle
    /\ req' = [req EXCEPT ![c] =
                 [op |-> "update_product", pod |-> p, id |-> i, level |-> v]]
    /\ UNCHANGED <<products, rowSeq, pod, pos, answer, crashes>>

\* Mutation: a handler that waits for a missing row instead of failing.
UpdateProductWriteWaiting(c) ==
    /\ req[c].op = "update_product"
    /\ LoopFree(req[c].pod)
    /\ WithId(req[c].id) # {}
    /\ products' = Updated(WithId(req[c].id), req[c].level)
    /\ answer' = Answer(c, "update_product", req[c].id, req[c].level, 200)
    /\ req' = [req EXCEPT ![c] = Idle]
    /\ UNCHANGED <<rowSeq, pod, pos, crashes>>

UpdateProductWrite(c) ==
    /\ req[c].op = "update_product"
    /\ LoopFree(req[c].pod)
    /\ products' = Updated(WithId(req[c].id), req[c].level)
    /\ answer' = Answer(c, "update_product", req[c].id, req[c].level,
                        IF WithId(req[c].id) = {} THEN 500 ELSE 200)
    /\ req' = [req EXCEPT ![c] = Idle]
    /\ UNCHANGED <<rowSeq, pod, pos, crashes>>
-----------------------------------------------------------------------------
PodStep(p) == StartInitDb(p) \/ PopulateRow(p) \/ FinishInitDb(p)
Resume(c) == UpdateStockWrite(c) \/ UpdateProductWrite(c)

NewRequest(c, p) ==
    \/ \E i \in Ids, v \in Levels :
          AddProduct(c, p, i, v) \/ UpdateProductStart(c, p, i, v)
    \/ \E i \in Deletable : DeleteProduct(c, p, i)
    \/ \E n \in Names, d \in Changes : UpdateStockSelect(c, p, n, d)

Next ==
    \/ \E p \in Pods : PodStep(p) \/ Crash(p)
    \/ \E c \in Clients : Resume(c)
    \/ \E c \in Clients, p \in Pods : NewRequest(c, p)

Spec == Init /\ [][Next]_vars

\* A started process runs its start-up to the end (the deployment restarts
\* it after a crash), and the event loop resumes every suspended handler.
Fairness ==
    /\ \A p \in Pods : WF_vars(PodStep(p))
    /\ \A c \in Clients : WF_vars(UpdateStockWrite(c)) /\ SF_vars(UpdateProductWrite(c))

FairSpec == Spec /\ Fairness
-----------------------------------------------------------------------------
(***************************************************************************)
(* Properties.                                                             *)
(***************************************************************************)
Stock(i) == (CHOOSE r \in WithId(i) : TRUE).stock

Ledger == INSTANCE StockLedger WITH
    ledger <- [i \in {r.id : r \in products} |-> Stock(i)],
    Seeds <- {Script[k] : k \in DOMAIN Script}

\* One pod implements the ledger: although update_stock reads the level in one
\* statement and writes it in another, and slow updates, crashes, restarts
\* and the population script run around it, each answered request takes effect
\* at once and by exactly what was asked, and a restart resets no level.
ImplementsLedger == Ledger!Spec

\* The UNIQUE constraint on product_id holds whatever pods overlap: handlers
\* that add a product and start-ups that populate the table never leave
\* two rows with one identifier.
UniqueProductId == \A r, s \in products : r.id = s.id => r = s

\* Every suspended update ends, with an answer or by the death of its pod:
\* no handler keeps the event loop for ever, and a sleeping one is resumed.
RequestsEnd == \A c \in Clients : req[c] # Idle ~> req[c] = Idle

\* The docstring of update_stock: a change that is answered 200 moves the stock
\* of every product of that name up if it is positive, down if it is
\* negative.
ChangeMovesStockItsWay ==
    [][\A c \in Clients :
          req[c].op = "update_stock" /\ req'[c] = Idle /\ pod' = pod =>
             \A r \in WithName(req[c].name), s \in products' :
                r.rowid = s.rowid =>
                   /\ req[c].change > 0 => s.stock > r.stock
                   /\ req[c].change < 0 => s.stock < r.stock]_vars

\* The docstring of init_db: a service that started has populated the table
\* from the SQL script (stated where no client deletes a product).
StartedMeansPopulated ==
    (\E p \in Pods : pod[p] = "up") =>
        \A k \in DOMAIN Script : WithId(Script[k].id) # {}
=============================================================================
