------------------------ MODULE ProductServiceProofs ------------------------
(***************************************************************************)
(* Proofs about ProductService.  Type correctness and the uniqueness of    *)
(* product identifiers hold for any number of pods, clients and products;  *)
(* that the service implements StockLedger holds for a single pod that     *)
(* serves products under names of their own.                               *)
(***************************************************************************)
EXTENDS ProductService, WellFoundedInduction, SequenceTheorems, TLAPS

-----------------------------------------------------------------------------
(***************************************************************************)
(* The statements of the handlers.                                         *)
(***************************************************************************)
\* The next entry of the SQL script, while there is one.
LEMMA ScriptEntry ==
  ASSUME NEW k \in 1 .. Len(Script)
  PROVE  Script[k] \in [id : Ids, stock : Int]
  BY ScriptAssumption, ElementOfSeq

\* An INSERT enters a row of the right shape.
LEMMA InsertedTyped ==
  ASSUME TypeOK, NEW i \in Ids, NEW v \in Int
  PROVE  Inserted(i, v) \subseteq Row
  BY DEF TypeOK, Inserted, Row

\* An UPDATE leaves every row with its identifiers.
LEMMA UpdatedTyped ==
  ASSUME TypeOK, NEW rows, NEW v \in Int
  PROVE  Updated(rows, v) \subseteq Row
  BY DEF TypeOK, Updated, Row

\* fetchone() of a SELECT with a result is a row of the result.
LEMMA FirstOfExists ==
  ASSUME TypeOK, NEW rows \in SUBSET products, rows # {}
  PROVE  FirstOf(rows) \in rows
<1> DEFINE numbers == {r.rowid : r \in rows}
           below == {ss \in Nat \X Nat : ss[1] < ss[2]}
<1>1. numbers \subseteq Nat /\ numbers # {}
  BY DEF TypeOK, Row
<1>2. IsWellFoundedOn(below, Nat)
  BY NatLessThanWellFounded DEF OpToRel
<1>3. \A m, n \in Nat : <<m, n>> \notin below => n <= m
  OBVIOUS
<1>4. PICK n \in numbers : \A m \in numbers : <<m, n>> \notin below
  <2> HIDE DEF below, numbers
  <2> QED
    BY <1>1, <1>2, WFMin, Zenon
<1>5. PICK r \in rows : r.rowid = n
  OBVIOUS
<1>6. \A s \in rows : r.rowid <= s.rowid
  <2> HIDE DEF below
  <2> QED
    BY <1>1, <1>3, <1>4, <1>5
<1> QED
  BY <1>6 DEF FirstOf
-----------------------------------------------------------------------------
(***************************************************************************)
(* Safety: the table has the shape of its schema and one row per product,  *)
(* and rows are told apart by their rowid.                                 *)
(***************************************************************************)
RowsNumbered ==
    /\ \A r \in products : r.rowid <= rowSeq
    /\ \A r, s \in products : r.rowid = s.rowid => r = s

TableInv == TypeOK /\ UniqueProductId /\ RowsNumbered

\* The table is empty before the first start.
LEMMA TableInit == Init => TableInv
  BY BoundsAssumption, ScriptAssumption, LenProperties
  DEF Init, TableInv, TypeOK, UniqueProductId, RowsNumbered

\* An INSERT under an identifier that is not in the table keeps rows unique.
LEMMA InsertKeepsTable ==
  ASSUME TableInv, NEW i \in Ids, NEW v \in Int, WithId(i) = {},
         products' = Inserted(i, v), rowSeq' = rowSeq + 1
  PROVE  products' \subseteq Row /\ UniqueProductId' /\ RowsNumbered'
<1>1. products' \subseteq Row
  BY InsertedTyped DEF TableInv
<1> USE DEF TableInv, TypeOK, Row, Inserted, WithId
<1>2. UniqueProductId'
  BY DEF UniqueProductId
<1>3. RowsNumbered'
  BY DEF RowsNumbered
<1> QED
  BY <1>1, <1>2, <1>3

\* So does an UPDATE of the levels of some rows.
LEMMA UpdateKeepsTable ==
  ASSUME TableInv, NEW rows, NEW v \in Int,
         products' = Updated(rows, v), rowSeq' = rowSeq
  PROVE  products' \subseteq Row /\ UniqueProductId' /\ RowsNumbered'
<1>1. products' \subseteq Row
  BY UpdatedTyped DEF TableInv
<1>2. \A s \in products' : \E r \in products : s = IF r \in rows THEN [r EXCEPT !.stock = v] ELSE r
  BY DEF Updated
<1>3. \A s \in products' : \E r \in products :
         s.id = r.id /\ s.rowid = r.rowid /\ s.stock = IF r \in rows THEN v ELSE r.stock
  BY <1>2 DEF TableInv, TypeOK, Row
<1>4. \A s, t \in products' : s.id = t.id /\ s.rowid = t.rowid /\ s.stock = t.stock => s = t
  BY <1>1 DEF Row
<1>5. UniqueProductId'
  BY <1>3, <1>4 DEF TableInv, UniqueProductId
<1>6. RowsNumbered'
  BY <1>3, <1>4 DEF TableInv, RowsNumbered
<1> QED
  BY <1>1, <1>5, <1>6

\* Every step keeps the invariant, whatever pods it interleaves.
LEMMA TableStep == TableInv /\ [Next]_vars => TableInv'
<1> SUFFICES ASSUME TableInv, [Next]_vars PROVE TableInv'
  OBVIOUS
<1>t. TypeOK /\ UniqueProductId /\ RowsNumbered
  BY DEF TableInv
<1>l. Len(Script) \in Nat
  BY ScriptAssumption, LenProperties
\* steps that leave the table alone
<1>k. products' = products /\ rowSeq' = rowSeq => UniqueProductId' /\ RowsNumbered'
  BY <1>t DEF UniqueProductId, RowsNumbered
<1>1. ASSUME NEW p \in Pods, StartInitDb(p) PROVE TableInv'
  BY <1>1, <1>t, <1>l, <1>k DEF StartInitDb, TableInv, TypeOK
<1>2. ASSUME NEW p \in Pods, PopulateRow(p) PROVE TableInv'
  <2>1. pos[p] \in 1 .. Len(Script)
    BY <1>2, <1>t, <1>l DEF PopulateRow, TypeOK
  <2>2. Script[pos[p]].id \in Ids /\ Script[pos[p]].stock \in Int
    BY <2>1, ScriptEntry
  <2>3. products' \subseteq Row /\ UniqueProductId' /\ RowsNumbered'
    BY <1>2, <2>2, InsertKeepsTable DEF PopulateRow
  <2>4. TypeOK'
    BY <1>2, <1>t, <1>l, <2>1, <2>3 DEF PopulateRow, TypeOK
  <2> QED
    BY <2>3, <2>4 DEF TableInv
<1>3. ASSUME NEW p \in Pods, FinishInitDb(p) PROVE TableInv'
  BY <1>3, <1>t, <1>k DEF FinishInitDb, TableInv, TypeOK
<1>4. ASSUME NEW p \in Pods, Crash(p) PROVE TableInv'
  <2>1. TypeOK'
    BY <1>4, <1>t, BoundsAssumption DEF Crash, TypeOK
  <2> QED
    BY <1>4, <1>k, <2>1 DEF Crash, TableInv
<1>5. ASSUME NEW c \in Clients, NEW p \in Pods, NEW i \in Ids, NEW v \in Levels,
             AddProduct(c, p, i, v)
      PROVE  TableInv'
  <2>1. CASE products' = products /\ rowSeq' = rowSeq
    BY <1>5, <1>t, <1>k, <2>1 DEF AddProduct, TableInv, TypeOK
  <2>2. CASE WithId(i) = {} /\ products' = Inserted(i, v) /\ rowSeq' = rowSeq + 1
    <3>1. products' \subseteq Row /\ UniqueProductId' /\ RowsNumbered'
      BY <2>2, InsertKeepsTable, LevelsAssumption
    <3>2. TypeOK'
      BY <1>5, <1>t, <2>2, <3>1 DEF AddProduct, TypeOK
    <3> QED
      BY <3>1, <3>2 DEF TableInv
  <2> QED
    BY <1>5, <2>1, <2>2 DEF AddProduct
<1>6. ASSUME NEW c \in Clients, NEW p \in Pods, NEW i \in Deletable, DeleteProduct(c, p, i)
      PROVE  TableInv'
  <2>1. products' \subseteq products /\ rowSeq' = rowSeq
    BY <1>6 DEF DeleteProduct
  <2>2. TypeOK'
    BY <1>6, <1>t, <2>1 DEF DeleteProduct, TypeOK
  <2> QED
    BY <1>t, <2>1, <2>2 DEF TableInv, UniqueProductId, RowsNumbered
<1>7. ASSUME NEW c \in Clients, NEW p \in Pods, NEW n \in Names, NEW d \in Changes,
             UpdateStockSelect(c, p, n, d)
      PROVE  TableInv'
  <2>1. products' = products /\ rowSeq' = rowSeq
    BY <1>7 DEF UpdateStockSelect
  <2>2. CASE req' = req
    BY <1>7, <1>t, <1>k, <2>1, <2>2 DEF UpdateStockSelect, TableInv, TypeOK
  <2>3. CASE WithName(n) # {} /\ req' = [req EXCEPT ![c] =
               [op |-> "update_stock", pod |-> p, name |-> n, change |-> d,
                level |-> FirstOf(WithName(n)).stock + d]]
    <3>1. FirstOf(WithName(n)) \in products
      BY <1>t, <2>3, FirstOfExists DEF WithName
    <3>2. FirstOf(WithName(n)).stock + d \in Int
      BY <1>t, <3>1, LevelsAssumption DEF TypeOK, Row
    <3>3. req'[c] \in StockRequest
      BY <1>t, <2>3, <3>2 DEF StockRequest, TypeOK
    <3>4. TypeOK'
      BY <1>7, <1>t, <2>1, <2>3, <3>3 DEF UpdateStockSelect, TypeOK
    <3> QED
      BY <1>k, <2>1, <3>4 DEF TableInv
  <2> QED
    BY <1>7, <2>2, <2>3 DEF UpdateStockSelect
<1>8. ASSUME NEW c \in Clients, UpdateStockWrite(c) PROVE TableInv'
  <2>1. req[c].level \in Int
    BY <1>8, <1>t DEF UpdateStockWrite, TypeOK, StockRequest, LevelRequest, Idle
  <2>2. products' \subseteq Row /\ UniqueProductId' /\ RowsNumbered'
    BY <1>8, <2>1, UpdateKeepsTable DEF UpdateStockWrite
  <2>3. TypeOK'
    BY <1>8, <1>t, <2>2 DEF UpdateStockWrite, TypeOK
  <2> QED
    BY <2>2, <2>3 DEF TableInv
<1>9. ASSUME NEW c \in Clients, NEW p \in Pods, NEW i \in Ids, NEW v \in Levels,
             UpdateProductStart(c, p, i, v)
      PROVE  TableInv'
  <2>1. req'[c] \in LevelRequest
    BY <1>9, <1>t DEF UpdateProductStart, TypeOK, LevelRequest
  <2>2. TypeOK'
    BY <1>9, <1>t, <2>1 DEF UpdateProductStart, TypeOK
  <2> QED
    BY <1>9, <1>k, <2>2 DEF UpdateProductStart, TableInv
<1>10. ASSUME NEW c \in Clients, UpdateProductWrite(c) PROVE TableInv'
  <2>1. req[c].level \in Int
    BY <1>10, <1>t, LevelsAssumption
    DEF UpdateProductWrite, TypeOK, StockRequest, LevelRequest, Idle
  <2>2. products' \subseteq Row /\ UniqueProductId' /\ RowsNumbered'
    BY <1>10, <2>1, UpdateKeepsTable DEF UpdateProductWrite
  <2>3. TypeOK'
    BY <1>10, <1>t, <2>2 DEF UpdateProductWrite, TypeOK
  <2> QED
    BY <2>2, <2>3 DEF TableInv
<1>11. CASE UNCHANGED vars
  BY <1>11, <1>t DEF vars, TableInv, TypeOK, UniqueProductId, RowsNumbered
<1> QED
  BY <1>1, <1>2, <1>3, <1>4, <1>5, <1>6, <1>7, <1>8, <1>9, <1>10, <1>11
  DEF Next, PodStep, Resume, NewRequest

\* Type correctness of the product service.
THEOREM ProductTypeCorrect == Spec => []TypeOK
<1>1. TableInv => TypeOK
  BY DEF TableInv
<1> QED
  BY <1>1, TableInit, TableStep, PTL DEF Spec

\* Handlers that add products and start-ups that populate the table never
\* leave two rows with one product_id, whatever pods overlap and whenever
\* they crash (app.py, init_db and add_product).
THEOREM ProductIdsUnique == Spec => []UniqueProductId
<1>1. TableInv => UniqueProductId
  BY DEF TableInv
<1> QED
  BY <1>1, TableInit, TableStep, PTL DEF Spec
-----------------------------------------------------------------------------
(***************************************************************************)
(* Refinement: one pod with products under names of their own implements   *)
(* StockLedger.  A request takes effect in the step that answers it; the   *)
(* SELECT of update_stock, a sleeping update_product, a crash and the      *)
(* start of a pod are invisible to clients.                                *)
(***************************************************************************)
OnePod == \A p, q \in Pods : p = q
OwnNames == \A i, j \in Ids : NameOf[i] = NameOf[j] => i = j

\* While a request is between its SELECT and its UPDATE its pod is up, no other
\* request is, and the level it is going to write is still the level in the
\* table plus the change it was asked for.
Exact(c) ==
    /\ pod[req[c].pod] = "up"
    /\ \A d \in Clients : req[d].op = "update_stock" => d = c
    /\ req[c].level >= 0
    /\ \E r \in products :
          NameOf[r.id] = req[c].name /\ req[c].level = r.stock + req[c].change

PendingInv == \A c \in Clients : req[c].op = "update_stock" => Exact(c)

LedgerInv == TableInv /\ PendingInv

\* The ledger that the table stands for.
Shelf == [i \in {r.id : r \in products} |-> Stock(i)]

\* The one row of a product.
LEMMA StockOfRow ==
  ASSUME TableInv, NEW r \in products
  PROVE  WithId(r.id) = {r} /\ Stock(r.id) = r.stock
  BY DEF TableInv, UniqueProductId, WithId, Stock

\* The ledger as a function, told from the rows.
LEMMA ShelfOfRows ==
  ASSUME TableInv
  PROVE  /\ DOMAIN Shelf = {r.id : r \in products}
         /\ DOMAIN Shelf \subseteq Ids
         /\ \A r \in products : Shelf[r.id] = r.stock
  BY StockOfRow DEF Shelf, TableInv, TypeOK, Row

\* The same for the table after a step.
LEMMA ShelfOfNextRows ==
  ASSUME TableInv'
  PROVE  /\ DOMAIN Shelf' = {r.id : r \in products'}
         /\ \A r \in products' : Shelf'[r.id] = r.stock
<1>1. \A r \in products' : {s \in products' : s.id = r.id} = {r}
  BY DEF TableInv, UniqueProductId
<1>2. \A r \in products' : (Stock(r.id))' = r.stock
  BY <1>1 DEF Stock, WithId
<1> QED
  BY <1>2 DEF Shelf

\* Two ledgers with the same domain and levels are one.
LEMMA ShelfExtensional ==
  ASSUME TableInv', NEW f, f = [i \in DOMAIN f |-> f[i]],
         DOMAIN f = {r.id : r \in products'},
         \A r \in products' : f[r.id] = r.stock
  PROVE  Shelf' = f
<1>1. DOMAIN Shelf' = DOMAIN f /\ \A i \in DOMAIN f : Shelf'[i] = f[i]
  BY ShelfOfNextRows
<1>2. Shelf' = [i \in DOMAIN Shelf' |-> Shelf'[i]]
  BY DEF Shelf
<1> QED
  BY <1>1, <1>2

\* An INSERT enters the product in the ledger.
LEMMA InsertEnters ==
  ASSUME TableInv, TableInv', NEW i \in Ids, NEW v \in Int, WithId(i) = {},
         products' = Inserted(i, v)
  PROVE  i \notin DOMAIN Shelf /\ Shelf' = Ledger!Entered(i, v)
<1> DEFINE f == [j \in DOMAIN Shelf \cup {i} |-> IF j = i THEN v ELSE Shelf[j]]
           new == [rowid |-> rowSeq + 1, id |-> i, stock |-> v]
<1>1. i \notin DOMAIN Shelf
  BY ShelfOfRows DEF WithId
<1>2. products' = products \cup {new} /\ new.id = i /\ new.stock = v
  BY DEF Inserted
<1> HIDE DEF new
<1>3. {r.id : r \in products'} = {r.id : r \in products} \cup {i}
  BY <1>2
<1>4. DOMAIN f = {r.id : r \in products'}
  BY <1>3, ShelfOfRows
<1>5. \A r \in products' : f[r.id] = r.stock
  BY <1>1, <1>2, ShelfOfRows
<1>6. Shelf' = f
  <2> HIDE DEF f
  <2>1. f = [j \in DOMAIN f |-> f[j]]
    BY DEF f
  <2> QED
    BY <1>4, <1>5, <2>1, ShelfExtensional
<1>7. f = Ledger!Entered(i, v)
  BY DEF Ledger!Entered, Ledger!OnSale, Shelf
<1> QED
  BY <1>1, <1>6, <1>7

\* An UPDATE of the row of a product enters its new level.
LEMMA UpdateEnters ==
  ASSUME TableInv, TableInv', NEW r \in products, NEW v \in Int,
         products' = Updated({r}, v)
  PROVE  r.id \in DOMAIN Shelf /\ Shelf' = Ledger!Entered(r.id, v)
<1> DEFINE f == [j \in DOMAIN Shelf \cup {r.id} |-> IF j = r.id THEN v ELSE Shelf[j]]
           new == [r EXCEPT !.stock = v]
<1>1. r.id \in DOMAIN Shelf
  BY ShelfOfRows
<1>2. new.id = r.id /\ new.stock = v
  BY DEF TableInv, TypeOK, Row
<1>3. products' = (products \ {r}) \cup {new}
  BY DEF Updated
<1> HIDE DEF new
<1>4. {s.id : s \in products'} = {s.id : s \in products}
  BY <1>2, <1>3
<1>5. DOMAIN f = {s.id : s \in products'}
  BY <1>1, <1>4, ShelfOfRows
<1>6. \A s \in products' : f[s.id] = s.stock
  <2>1. \A s \in products \ {r} : s.id # r.id
    BY DEF TableInv, UniqueProductId
  <2>2. \A s \in products : s.id \in DOMAIN Shelf /\ Shelf[s.id] = s.stock
    BY ShelfOfRows
  <2> QED
    BY <1>2, <1>3, <2>1, <2>2
<1>7. Shelf' = f
  <2> HIDE DEF f
  <2>1. f = [j \in DOMAIN f |-> f[j]]
    BY DEF f
  <2> QED
    BY <1>5, <1>6, <2>1, ShelfExtensional
<1>8. f = Ledger!Entered(r.id, v)
  BY DEF Ledger!Entered, Ledger!OnSale, Shelf
<1> QED
  BY <1>1, <1>7, <1>8

\* A DELETE takes the product off the ledger.
LEMMA DeleteTakesOff ==
  ASSUME TableInv, TableInv', NEW i, products' = products \ WithId(i)
  PROVE  Shelf' = [j \in DOMAIN Shelf \ {i} |-> Shelf[j]]
<1> DEFINE f == [j \in DOMAIN Shelf \ {i} |-> Shelf[j]]
<1>1. DOMAIN f = {r.id : r \in products'}
  BY ShelfOfRows DEF WithId
<1>2. \A r \in products' : f[r.id] = r.stock
  BY ShelfOfRows DEF WithId
<1> HIDE DEF f
<1>3. f = [j \in DOMAIN f |-> f[j]]
  BY DEF f
<1>4. Shelf' = f
  BY <1>1, <1>2, <1>3, ShelfExtensional
<1> QED
  BY <1>4 DEF f

\* The ledger depends on the table alone.
LEMMA ShelfKept ==
  ASSUME products' = products
  PROVE  Shelf' = Shelf
  BY DEF Shelf, Stock, WithId

\* With names of their own, products are told apart by name.
LEMMA RowOfName ==
  ASSUME TableInv, OwnNames, NEW r \in products
  PROVE  WithName(NameOf[r.id]) = {r}
<1>1. \A s \in products : s.id \in Ids
  BY DEF TableInv, TypeOK, Row
<1> QED
  BY <1>1 DEF TableInv, UniqueProductId, WithName, OwnNames

-----------------------------------------------------------------------------
\* No request is suspended in the beginning.
LEMMA LedgerInit == Init => LedgerInv
  BY TableInit DEF Init, LedgerInv, PendingInv, Idle

\* Nothing comes between the SELECT and the UPDATE of update_stock.
LEMMA PendingStep ==
  ASSUME OnePod, LedgerInv, [Next]_vars
  PROVE  PendingInv'
<1>t. TypeOK /\ PendingInv
  BY DEF LedgerInv, TableInv
\* a step of a pod's loop or of its start-up finds no request between the two
<1>n. ASSUME NEW p \in Pods, LoopFree(p) \/ pod[p] # "up", NEW c \in Clients
      PROVE  req[c].op # "update_stock"
  <2>1. ASSUME req[c].op = "update_stock" PROVE FALSE
    <3>1. req[c].pod \in Pods
      BY <1>t, <2>1 DEF TypeOK, StockRequest, LevelRequest, Idle
    <3>2. req[c].pod = p
      BY <3>1 DEF OnePod
    <3> QED
      BY <1>n, <1>t, <2>1, <3>2 DEF PendingInv, Exact, LoopFree
  <2> QED
    BY <2>1
\* a step after which no request is between the two
<1>v. (\A c \in Clients : req'[c].op # "update_stock") => PendingInv'
  BY DEF PendingInv
<1>1. ASSUME NEW p \in Pods, PodStep(p) PROVE PendingInv'
  <2>1. pod[p] # "up" /\ req' = req
    BY <1>1 DEF PodStep, StartInitDb, PopulateRow, FinishInitDb
  <2> QED
    BY <1>n, <1>v, <2>1
<1>2. ASSUME NEW p \in Pods, Crash(p) PROVE PendingInv'
  <2>1. ASSUME NEW c \in Clients PROVE req'[c].op # "update_stock"
    <3>1. CASE req[c] = Idle
      BY <1>2, <3>1 DEF Crash, Idle
    <3>2. CASE req[c] # Idle
      <4>1. req[c].pod = p
        BY <1>t, <3>2 DEF TypeOK, StockRequest, LevelRequest, OnePod
      <4> QED
        BY <1>2, <3>2, <4>1 DEF Crash, Idle
    <3> QED
      BY <3>1, <3>2
  <2> QED
    BY <1>v, <2>1
<1>3. ASSUME NEW c \in Clients, NEW p \in Pods, NEW i \in Ids, NEW v \in Levels,
             AddProduct(c, p, i, v) \/ UpdateProductStart(c, p, i, v)
      PROVE  PendingInv'
  <2>1. LoopFree(p)
    BY <1>3 DEF AddProduct, UpdateProductStart
  <2>2. \A d \in Clients : req'[d].op # "update_stock"
    BY <1>3, <1>n, <1>t, <2>1 DEF AddProduct, UpdateProductStart, TypeOK
  <2> QED
    BY <1>v, <2>2
<1>4. ASSUME NEW c \in Clients, NEW p \in Pods, NEW i \in Deletable, DeleteProduct(c, p, i)
      PROVE  PendingInv'
  <2>1. LoopFree(p) /\ req' = req
    BY <1>4 DEF DeleteProduct
  <2> QED
    BY <1>n, <1>v, <2>1
<1>5. ASSUME NEW c \in Clients, NEW p \in Pods, NEW n \in Names, NEW d \in Changes,
             UpdateStockSelect(c, p, n, d)
      PROVE  PendingInv'
  <2>1. LoopFree(p) /\ pod' = pod /\ products' = products
    BY <1>5 DEF UpdateStockSelect
  <2>2. CASE req' = req
    BY <1>n, <1>v, <2>1, <2>2
  <2>3. CASE /\ WithName(n) # {} /\ FirstOf(WithName(n)).stock + d >= 0
             /\ req' = [req EXCEPT ![c] =
                  [op |-> "update_stock", pod |-> p, name |-> n, change |-> d,
                   level |-> FirstOf(WithName(n)).stock + d]]
    <3>1. FirstOf(WithName(n)) \in WithName(n)
      BY <1>t, <2>3, FirstOfExists DEF WithName
    <3>2. /\ req'[c].pod = p /\ req'[c].name = n /\ req'[c].change = d
          /\ req'[c].level = FirstOf(WithName(n)).stock + d
      BY <1>t, <2>3 DEF TypeOK
    <3>3. \A e \in Clients : req'[e].op = "update_stock" => e = c
      BY <1>n, <1>t, <2>1, <2>3 DEF TypeOK
    <3>4. Exact(c)'
      BY <2>1, <2>3, <3>1, <3>2, <3>3 DEF Exact, WithName, LoopFree
    <3> QED
      BY <3>3, <3>4 DEF PendingInv
  <2>4. ASSUME WithName(n) # {} PROVE FirstOf(WithName(n)).stock + d \in Int
    <3>1. FirstOf(WithName(n)) \in products
      BY <1>t, <2>4, FirstOfExists DEF WithName
    <3> QED
      BY <1>t, <3>1, LevelsAssumption DEF TypeOK, Row
  <2> QED
    BY <1>5, <2>2, <2>3, <2>4 DEF UpdateStockSelect
<1>6. ASSUME NEW c \in Clients, UpdateStockWrite(c) PROVE PendingInv'
  <2>1. \A d \in Clients : req'[d].op # "update_stock"
    BY <1>6, <1>t DEF UpdateStockWrite, PendingInv, Exact, Idle, TypeOK
  <2> QED
    BY <1>v, <2>1
<1>7. ASSUME NEW c \in Clients, UpdateProductWrite(c) PROVE PendingInv'
  <2>1. LoopFree(req[c].pod) /\ req[c].pod \in Pods
    BY <1>7, <1>t DEF UpdateProductWrite, TypeOK, StockRequest, LevelRequest, Idle
  <2>2. \A d \in Clients : req'[d].op # "update_stock"
    BY <1>7, <1>n, <1>t, <2>1 DEF UpdateProductWrite, Idle, TypeOK
  <2> QED
    BY <1>v, <2>2
<1>8. CASE UNCHANGED vars
  BY <1>8, <1>t DEF vars, PendingInv, Exact
<1> QED
  BY <1>1, <1>2, <1>3, <1>4, <1>5, <1>6, <1>7, <1>8 DEF Next, Resume, NewRequest

-----------------------------------------------------------------------------
\* Every step of the service is a step of the ledger or leaves it alone.
LEMMA LedgerStep ==
  ASSUME OnePod, OwnNames, LedgerInv, LedgerInv', [Next]_vars
  PROVE  [Ledger!Next]_(Ledger!vars)
<1>t. TableInv /\ TableInv' /\ TypeOK /\ PendingInv
  BY DEF LedgerInv, TableInv
<1>d. /\ Ledger!OnSale = DOMAIN Shelf
      /\ \A i \in DOMAIN Shelf : Shelf[i] = Stock(i)
  BY DEF Ledger!OnSale, Shelf
\* a step that no client sees
<1>u. products' = products /\ answer' = answer => UNCHANGED Ledger!vars
  BY ShelfKept DEF Ledger!vars, Shelf
<1>1. ASSUME NEW p \in Pods, PopulateRow(p) PROVE Ledger!Next
  <2>1. pos[p] \in 1 .. Len(Script)
    BY <1>1, <1>t, ScriptAssumption, LenProperties DEF PopulateRow, TypeOK
  <2>2. PICK s \in {Script[k] : k \in DOMAIN Script} : s = Script[pos[p]]
    BY <2>1, ScriptAssumption, LenProperties
  <2>3. s.id \in Ids /\ s.stock \in Int
    BY <2>1, <2>2, ScriptEntry
  <2>4. s.id \notin DOMAIN Shelf /\ Shelf' = Ledger!Entered(s.id, s.stock)
    BY <1>1, <1>t, <2>2, <2>3, InsertEnters DEF PopulateRow
  <2>5. Ledger!Seed(s)
    BY <1>1, <1>d, <2>4 DEF PopulateRow, Ledger!Seed, Shelf
  <2> QED
    BY <2>5 DEF Ledger!Next
<1>2. ASSUME NEW c \in Clients, NEW p \in Pods, NEW i \in Ids, NEW v \in Levels,
             AddProduct(c, p, i, v)
      PROVE  Ledger!Next
  <2>1. CASE v = 0
    <3>1. Ledger!RefuseAdd(c, i, v, 400)
      BY <1>2, <2>1, ShelfKept DEF AddProduct, Ledger!RefuseAdd, Answer, Ledger!Answer, Shelf
    <3> QED
      BY <3>1 DEF Ledger!Next
  <2>2. CASE v # 0 /\ WithId(i) # {}
    <3>1. i \in Ledger!OnSale
      BY <1>d, <1>t, <2>2, ShelfOfRows DEF WithId
    <3>2. Ledger!RefuseAdd(c, i, v, 500)
      BY <1>2, <2>2, <3>1, ShelfKept
      DEF AddProduct, Ledger!RefuseAdd, Answer, Ledger!Answer, Shelf
    <3> QED
      BY <3>2 DEF Ledger!Next
  <2>3. CASE v # 0 /\ WithId(i) = {}
    <3>1. i \notin DOMAIN Shelf /\ Shelf' = Ledger!Entered(i, v)
      BY <1>2, <1>t, <2>3, InsertEnters, LevelsAssumption DEF AddProduct
    <3>2. Ledger!Add(c, i, v)
      BY <1>2, <1>d, <2>3, <3>1 DEF AddProduct, Ledger!Add, Answer, Ledger!Answer, Shelf
    <3> QED
      BY <3>2 DEF Ledger!Next
  <2> QED
    BY <2>1, <2>2, <2>3
<1>3. ASSUME NEW c \in Clients, NEW p \in Pods, NEW i \in Deletable, DeleteProduct(c, p, i)
      PROVE  Ledger!Next
  <2>i. i \in Ids
    BY DeletableAssumption
  <2>1. CASE i = FailDelete \/ WithId(i) = {}
    <3>1. products' = products
      BY <1>3, <2>1 DEF DeleteProduct
    <3>2. i \notin Ledger!OnSale \/ i = FailDelete
      BY <1>d, <1>t, <2>1, ShelfOfRows DEF WithId
    <3>3. Ledger!RefuseWithdraw(c, i)
      BY <1>3, <2>1, <3>1, <3>2, ShelfKept
      DEF DeleteProduct, Ledger!RefuseWithdraw, Answer, Ledger!Answer, Shelf
    <3> QED
      BY <2>i, <3>3 DEF Ledger!Next
  <2>2. CASE i # FailDelete /\ WithId(i) # {}
    <3>1. i \in Ledger!OnSale
      BY <1>d, <1>t, <2>2, ShelfOfRows DEF WithId
    <3>2. Shelf' = [j \in DOMAIN Shelf \ {i} |-> Shelf[j]]
      BY <1>3, <1>t, <2>2, DeleteTakesOff DEF DeleteProduct
    <3>3. Ledger!Withdraw(c, i)
      BY <1>3, <1>d, <2>2, <3>1, <3>2
      DEF DeleteProduct, Ledger!Withdraw, Answer, Ledger!Answer, Shelf
    <3> QED
      BY <2>i, <3>3 DEF Ledger!Next
  <2> QED
    BY <2>1, <2>2
<1>4. ASSUME NEW c \in Clients, NEW p \in Pods, NEW n \in Names, NEW d \in Changes,
             UpdateStockSelect(c, p, n, d)
      PROVE  Ledger!Next \/ UNCHANGED Ledger!vars
  <2>n. Ledger!Named(n) = {r.id : r \in WithName(n)}
    BY <1>d, <1>t, ShelfOfRows DEF Ledger!Named, WithName
  <2>1. CASE WithName(n) = {}
    <3>1. Ledger!RefuseChange(c, n, d, 404)
      BY <1>4, <2>n, <2>1, ShelfKept
      DEF UpdateStockSelect, Ledger!RefuseChange, Answer, Ledger!Answer, Shelf
    <3> QED
      BY <3>1 DEF Ledger!Next
  <2>2. CASE WithName(n) # {} /\ FirstOf(WithName(n)).stock + d < 0
    <3> DEFINE r == FirstOf(WithName(n))
    <3>1. r \in WithName(n)
      BY <1>t, <2>2, FirstOfExists DEF WithName
    <3>2. r.id \in Ledger!Named(n) /\ Stock(r.id) = r.stock
      BY <1>t, <2>n, <3>1, StockOfRow DEF WithName
    <3>3. Shelf[r.id] + d < 0
      BY <1>t, <2>2, <3>1, ShelfOfRows DEF WithName
    <3> HIDE DEF r
    <3>4. \E i \in Ledger!Named(n) : Shelf[i] + d < 0
      BY <3>2, <3>3
    <3>5. answer' = Answer(c, "update_stock", n, d, 400) /\ products' = products
      BY <1>4, <2>2 DEF UpdateStockSelect
    <3>6. Ledger!RefuseChange(c, n, d, 400)
      BY <3>4, <3>5, ShelfKept DEF Ledger!RefuseChange, Answer, Ledger!Answer, Shelf
    <3> QED
      BY <3>6 DEF Ledger!Next
  <2>3. CASE WithName(n) # {} /\ ~(FirstOf(WithName(n)).stock + d < 0)
    BY <1>4, <1>u, <2>3 DEF UpdateStockSelect
  <2> QED
    BY <2>1, <2>2, <2>3
<1>5. ASSUME NEW c \in Clients, UpdateStockWrite(c) PROVE Ledger!Next
  <2>1. /\ req[c].name \in Names /\ req[c].change \in Changes /\ req[c].level \in Int
        /\ Exact(c)
    BY <1>5, <1>t DEF UpdateStockWrite, TypeOK, StockRequest, LevelRequest, Idle, PendingInv
  <2>2. PICK n \in Names, d \in Changes, v \in Int :
           n = req[c].name /\ d = req[c].change /\ v = req[c].level
    BY <2>1
  <2>3. PICK r \in products : NameOf[r.id] = n /\ v = r.stock + d
    BY <2>1, <2>2 DEF Exact
  <2>4. WithName(n) = {r}
    BY <1>t, <2>3, RowOfName
  <2>5. r.id \in DOMAIN Shelf /\ Shelf' = Ledger!Entered(r.id, v)
    BY <1>5, <1>t, <2>2, <2>4, UpdateEnters DEF UpdateStockWrite
  <2>6. Shelf[r.id] + d = v /\ v >= 0
    BY <1>t, <2>1, <2>2, <2>3, ShelfOfRows DEF Exact
  <2>7. Ledger!Change(c, n, d)
    <3>1. r.id \in Ledger!Named(n)
      BY <1>d, <2>3, <2>5 DEF Ledger!Named
    <3>2. answer' = Answer(c, "update_stock", n, d, 200)
      BY <1>5, <2>2 DEF UpdateStockWrite
    <3> QED
      BY <2>5, <2>6, <3>1, <3>2 DEF Ledger!Change, Answer, Ledger!Answer, Shelf
  <2> QED
    BY <2>7 DEF Ledger!Next
<1>6. ASSUME NEW c \in Clients, UpdateProductWrite(c) PROVE Ledger!Next
  <2>1. req[c] \in LevelRequest
    <3>1. req[c] \in {Idle} \cup StockRequest \cup LevelRequest /\ req[c].op = "update_product"
      BY <1>6, <1>t DEF UpdateProductWrite, TypeOK
    <3> QED
      BY <3>1 DEF StockRequest, LevelRequest, Idle
  <2>2. PICK i \in Ids, v \in Levels : i = req[c].id /\ v = req[c].level
    BY <2>1 DEF LevelRequest
  <2>3. CASE WithId(i) = {}
    <3>1. products' = products
      BY <1>6, <2>2, <2>3 DEF UpdateProductWrite, Updated
    <3>2. i \notin Ledger!OnSale
      BY <1>d, <1>t, <2>3, ShelfOfRows DEF WithId
    <3>3. Ledger!RefuseSet(c, i, v)
      BY <1>6, <2>2, <2>3, <3>1, <3>2, ShelfKept
      DEF UpdateProductWrite, Ledger!RefuseSet, Answer, Ledger!Answer, Shelf
    <3> QED
      BY <3>3 DEF Ledger!Next
  <2>4. CASE WithId(i) # {}
    <3>1. PICK r \in products : r.id = i
      BY <2>4 DEF WithId
    <3>2. WithId(i) = {r}
      BY <1>t, <3>1, StockOfRow
    <3>3. i \in DOMAIN Shelf /\ Shelf' = Ledger!Entered(i, v)
      BY <1>6, <1>t, <2>2, <3>1, <3>2, LevelsAssumption, UpdateEnters DEF UpdateProductWrite
    <3>4. answer' = Answer(c, "update_product", i, v, 200)
      BY <1>6, <2>2, <2>4 DEF UpdateProductWrite
    <3>5. Ledger!Set(c, i, v)
      BY <1>d, <3>3, <3>4 DEF Ledger!Set, Answer, Ledger!Answer, Shelf
    <3> QED
      BY <3>5 DEF Ledger!Next
  <2> QED
    BY <2>3, <2>4
<1>7. ASSUME NEW p \in Pods, StartInitDb(p) \/ FinishInitDb(p) \/ Crash(p)
      PROVE  UNCHANGED Ledger!vars
  BY <1>7, <1>u DEF StartInitDb, FinishInitDb, Crash
<1>8. ASSUME NEW c \in Clients, NEW p \in Pods, NEW i \in Ids, NEW v \in Levels,
             UpdateProductStart(c, p, i, v)
      PROVE  UNCHANGED Ledger!vars
  BY <1>8, <1>u DEF UpdateProductStart
<1>9. CASE UNCHANGED vars
  BY <1>9, <1>u DEF vars
<1> QED
  BY <1>1, <1>2, <1>3, <1>4, <1>5, <1>6, <1>7, <1>8, <1>9
  DEF Next, PodStep, Resume, NewRequest

\* A single pod that serves products under names of their own implements the
\* ledger: every answered request takes effect at once and by exactly what
\* was asked, around slow updates, crashes, restarts and the population
\* script (app.py, every route that changes the table).
THEOREM OnePodImplementsLedger ==
  ASSUME OnePod, OwnNames
  PROVE  Spec => ImplementsLedger
<1>1. Init => Ledger!Init
  <2> SUFFICES ASSUME Init PROVE Ledger!Init
    OBVIOUS
  <2>1. {r.id : r \in products} = {}
    BY DEF Init
  <2>2. Shelf = [i \in {} |-> 0]
    BY <2>1 DEF Shelf
  <2> QED
    BY <2>2 DEF Init, Ledger!Init, Shelf
<1>2. LedgerInv /\ [Next]_vars => LedgerInv'
  BY TableStep, PendingStep DEF LedgerInv
<1>3. LedgerInv /\ LedgerInv' /\ [Next]_vars => [Ledger!Next]_(Ledger!vars)
  BY LedgerStep
<1> QED
  BY <1>1, <1>2, <1>3, LedgerInit, PTL DEF Spec, ImplementsLedger, Ledger!Spec
-----------------------------------------------------------------------------
\* Only the UPDATE of update_stock answers the request of a client that is
\* between the two statements.
LEMMA OnlyWriteAnswers ==
  ASSUME TypeOK, Next, pod' = pod,
         NEW c \in Clients, req[c].op = "update_stock", req'[c] = Idle
  PROVE  UpdateStockWrite(c)
<1>i. req[c] # Idle /\ Idle.op = "idle"
  BY DEF Idle
<1>1. ASSUME NEW p \in Pods, PodStep(p) PROVE FALSE
  BY <1>1, <1>i DEF PodStep, StartInitDb, PopulateRow, FinishInitDb
<1>2. ASSUME NEW p \in Pods, Crash(p) PROVE FALSE
  BY <1>2 DEF Crash, TypeOK
<1>3. ASSUME NEW d \in Clients, NEW p \in Pods, NewRequest(d, p) PROVE FALSE
  BY <1>3, <1>i
  DEF NewRequest, AddProduct, UpdateProductStart, DeleteProduct, UpdateStockSelect, TypeOK
<1>4. ASSUME NEW d \in Clients, UpdateProductWrite(d) PROVE FALSE
  BY <1>4, <1>i DEF UpdateProductWrite, TypeOK
<1>5. ASSUME NEW d \in Clients, UpdateStockWrite(d) PROVE d = c
  BY <1>5, <1>i DEF UpdateStockWrite, TypeOK
<1> QED
  BY <1>1, <1>2, <1>3, <1>4, <1>5 DEF Next, Resume

\* With one pod and names of their own, update_stock moves the stock the way
\* its docstring says (app.py:152): the level it writes is that of the row as
\* it is now, and the change.
THEOREM OnePodMovesStockItsWay ==
  ASSUME OnePod, OwnNames
  PROVE  Spec => ChangeMovesStockItsWay
<1>1. LedgerInv /\ [Next]_vars => LedgerInv'
  BY TableStep, PendingStep DEF LedgerInv
<1>2. ASSUME LedgerInv, LedgerInv', Next, pod' = pod,
             NEW c \in Clients, req[c].op = "update_stock", req'[c] = Idle,
             NEW r \in WithName(req[c].name), NEW s \in products', r.rowid = s.rowid
      PROVE  /\ req[c].change > 0 => s.stock > r.stock
             /\ req[c].change < 0 => s.stock < r.stock
  <2>t. TableInv /\ TypeOK /\ Exact(c)
    BY <1>2 DEF LedgerInv, TableInv, PendingInv
  <2>1. products' = Updated(WithName(req[c].name), req[c].level)
    BY <1>2, <2>t, OnlyWriteAnswers DEF UpdateStockWrite
  <2>2. PICK x \in products :
           NameOf[x.id] = req[c].name /\ req[c].level = x.stock + req[c].change
    BY <2>t DEF Exact
  <2>3. WithName(req[c].name) = {x} /\ r = x
    BY <1>2, <2>t, <2>2, RowOfName
  <2>4. s.stock = req[c].level
    <3>1. \A y \in products : y.rowid = r.rowid => y = r
      BY <2>t, <2>2, <2>3 DEF TableInv, RowsNumbered
    <3>2. PICK y \in products :
             s = IF y \in WithName(req[c].name) THEN [y EXCEPT !.stock = req[c].level] ELSE y
      BY <2>1 DEF Updated
    <3>3. s.rowid = y.rowid /\ (y \in WithName(req[c].name) => s.stock = req[c].level)
      BY <2>t, <3>2 DEF TypeOK, Row
    <3> QED
      BY <1>2, <2>3, <3>1, <3>3
  <2>5. x.stock \in Int /\ req[c].change \in Int
    <3>1. x.stock \in Int
      BY <2>t, <2>2 DEF TypeOK, Row
    <3>2. req[c] \in {Idle} \cup StockRequest \cup LevelRequest
      BY <2>t DEF TypeOK
    <3>3. req[c].change \in Changes
      BY <1>2, <3>2 DEF StockRequest, LevelRequest, Idle
    <3> QED
      BY <3>1, <3>3, LevelsAssumption
  <2> QED
    BY <2>2, <2>3, <2>4, <2>5
<1>3. LedgerInv /\ LedgerInv' /\ [Next]_vars =>
        [\A c \in Clients :
            req[c].op = "update_stock" /\ req'[c] = Idle /\ pod' = pod =>
               \A r \in WithName(req[c].name), s \in products' :
                  r.rowid = s.rowid =>
                     /\ req[c].change > 0 => s.stock > r.stock
                     /\ req[c].change < 0 => s.stock < r.stock]_vars
  BY <1>2
<1> QED
  BY <1>1, <1>3, LedgerInit, PTL DEF Spec, ChangeMovesStockItsWay
=============================================================================
