---------------------------- MODULE StockLedger ----------------------------
(***************************************************************************)
(* What the product service promises to the clients of its API: a ledger  *)
(* with one stock level per product, in which every answered request took  *)
(* effect at one instant.  `ledger' maps the identifier of each product    *)
(* that is on sale to its stock level; `answer' is the last HTTP answer a  *)
(* client received.  An answer with status 200 or 201 is given in the very *)
(* step that changes the ledger by exactly what was asked, any other answer*)
(* changes nothing and is given only when its reason holds.                *)
(*                                                                         *)
(* There are no pods, no requests in progress, no database rows and no     *)
(* crashes here: ProductService implements this with all of them.          *)
(***************************************************************************)
EXTENDS Integers

CONSTANTS
    Ids,        \* product identifiers (products.product_id)
    Names,      \* product names (products.name)
    NameOf,     \* the name under which each identifier is on sale
    Clients,    \* callers of the API
    Changes,    \* values of qty_change
    Levels,     \* stock levels that clients write
    Seeds,      \* the [id, stock] pairs of the SQL script
    FailDelete, \* the identifier whose deletion always fails
    NoAnswer    \* nothing was answered yet

VARIABLES ledger, answer

vars == <<ledger, answer>>

Answer(c, op, subject, amount, status) ==
    [client |-> c, op |-> op, subject |-> subject,
     amount |-> amount, status |-> status]

OnSale == DOMAIN ledger
Named(n) == {i \in OnSale : NameOf[i] = n}

\* The ledger with product i (new or old) at level v.
Entered(i, v) ==
    [j \in OnSale \cup {i} |-> IF j = i THEN v ELSE ledger[j]]

Init ==
    /\ ledger = [i \in {} |-> 0]
    /\ answer = NoAnswer

\* A restart may put a product of the SQL script on sale (again), and
\* never touches one that is already there.
Seed(s) ==
    /\ s.id \notin OnSale
    /\ ledger' = Entered(s.id, s.stock)
    /\ UNCHANGED answer

Add(c, i, v) ==
    /\ i \notin OnSale
    /\ ledger' = Entered(i, v)
    /\ answer' = Answer(c, "add_product", i, v, 201)

\* A change moves the level of the product with that name by exactly d,
\* and no other level.
Change(c, n, d) ==
    \E i \in Named(n) :
        /\ ledger[i] + d >= 0
        /\ ledger' = Entered(i, ledger[i] + d)
        /\ answer' = Answer(c, "update_stock", n, d, 200)

Set(c, i, v) ==
    /\ i \in OnSale
    /\ ledger' = Entered(i, v)
    /\ answer' = Answer(c, "update_product", i, v, 200)

Withdraw(c, i) ==
    /\ i \in OnSale \ {FailDelete}
    /\ ledger' = [j \in OnSale \ {i} |-> ledger[j]]
    /\ answer' = Answer(c, "delete_product", i, 0, 200)

\* An answer that is not 200 or 201 is given for a reason.
RefuseAdd(c, i, v, status) ==
    /\ \/ status = 400 /\ v = 0
       \/ status = 500 /\ i \in OnSale
    /\ answer' = Answer(c, "add_product", i, v, status)
    /\ UNCHANGED ledger

RefuseChange(c, n, d, status) ==
    /\ \/ status = 404 /\ Named(n) = {}
       \/ status = 400 /\ \E i \in Named(n) : ledger[i] + d < 0
    /\ answer' = Answer(c, "update_stock", n, d, status)
    /\ UNCHANGED ledger

RefuseSet(c, i, v) ==
    /\ i \notin OnSale
    /\ answer' = Answer(c, "update_product", i, v, 500)
    /\ UNCHANGED ledger

\* delete_product answers 500 for an absent product and for the one
\* identifier whose deletion is made to fail.
RefuseWithdraw(c, i) ==
    /\ i \notin OnSale \/ i = FailDelete
    /\ answer' = Answer(c, "delete_product", i, 0, 500)
    /\ UNCHANGED ledger

Next ==
    \/ \E s \in Seeds : Seed(s)
    \/ \E c \in Clients, i \in Ids, v \in Levels :
          \/ Add(c, i, v) \/ Set(c, i, v) \/ RefuseSet(c, i, v)
          \/ \E status \in {400, 500} : RefuseAdd(c, i, v, status)
    \/ \E c \in Clients, i \in Ids : Withdraw(c, i) \/ RefuseWithdraw(c, i)
    \/ \E c \in Clients, n \in Names, d \in Changes :
          \/ Change(c, n, d)
          \/ \E status \in {400, 404} : RefuseChange(c, n, d, status)

Spec == Init /\ [][Next]_vars
=============================================================================
