----------------------------- MODULE OnlineStore -----------------------------
(***************************************************************************)
(* The shopping flows of the online store: browser sessions of the         *)
(* Streamlit UI (ui/product_ui.py, ui/cart_ui.py) that call the cart, order*)
(* and product services, and the tables these keep in the shared database. *)
(*                                                                         *)
(* No flow is a transaction.  A session performs one HTTP call after the   *)
(* other; other sessions run in between, a call can be refused, and a      *)
(* session that times out goes on while its call is still being served.    *)
(*                                                                         *)
(* Services.  A handler commits one database transaction, so serving a call*)
(* is one step; only create_order takes two, the GET of the cart and the   *)
(* INSERT of what it got.  The product service is reduced to the promise of*)
(* StockLedger: a change of stock is applied at once or refused.           *)
(*                                                                         *)
(* Sessions.  `pc' is where the script of a session is, `call' the HTTP    *)
(* call it waits for and `reply' what came back.  `userId' and `shown' are *)
(* st.session_state["cart_user_id"] and ["cart_df_full"], which survive    *)
(* from one run of the script to the next.                                 *)
(***************************************************************************)
EXTENDS Integers, FiniteSets, FiniteSetsExt

CONSTANTS
    Users,        \* customers
    Products,     \* products, each under a name of its own
    Sessions,     \* browser sessions of the UI
    UsersOf,      \* the customers each session selects in the UI
    InitialStock, \* units of each product on sale at the beginning
    Quantities,   \* quantities a user types into the grid; the cells have no
                  \* lower limit, negative ones are left out
    Events,       \* what may happen beside clicks and answers, see below
    NoUser,       \* no "cart_user_id" in the session state
    MaxStock,     \* bound: no grid is saved while a level is above it
    MaxRows,      \* bound on rows ever added to carts
    MaxOrders,    \* bound on orders ever created
    MaxFaults     \* bound on refused and timed-out calls and abandoned runs

(***************************************************************************)
(* Events: "refuse": a service answers 500 and does nothing; "timeout": the*)
(* session stops waiting; "rerun": the user touches a widget while the     *)
(* script runs and Streamlit abandons it at its next st.* call or access to*)
(* the session state; "withdraw": the product is deleted; "edit_deleted":  *)
(* the user edits a row's quantity and marks the row for deletion as well. *)
(***************************************************************************)
ASSUME UsersOfAssumption == UsersOf \in [Sessions -> SUBSET Users]
ASSUME QuantitiesAssumption == Quantities \subseteq Nat /\ InitialStock \in [Products -> Nat]
ASSUME EventsAssumption ==
    Events \subseteq {"refuse", "timeout", "rerun", "withdraw", "edit_deleted"}
ASSUME BoundsAssumption ==
    /\ MaxStock \in Nat /\ MaxRows \in Nat
    /\ MaxOrders \in Nat /\ MaxFaults \in Nat

VARIABLES
    onSale, stock,     \* the product service: names it has, their levels
    cart, cartSeq,     \* cart_items and its AUTOINCREMENT counter
    orders, orderSeq,  \* orders with their order_items, AUTOINCREMENT counter
    pc, userId, shown, todo, call, reply,   \* the sessions
    late,              \* calls that are still served though nobody waits
    faults,            \* refused and timed-out calls, abandoned runs so far
    supply             \* history: units brought in and not withdrawn

db == <<onSale, stock, cart, cartSeq, orders, orderSeq>>
ui == <<pc, userId, shown, todo, call, reply>>
vars == <<db, ui, late, faults, supply>>
-----------------------------------------------------------------------------
Row == [id : Nat \ {0}, user : Users, product : Products, qty : Nat]
\* order_items does not store the id of the cart row; it is kept here to say
\* which row was ordered, no action reads it.
Order == [id : Nat \ {0}, user : Users, items : SUBSET Row]
\* One edited line of the grid (or one line that the order flow cleans up).
Edit == [row : Row, delete : BOOLEAN, qty : Nat]

AddCall(u, p, q) == [op |-> "add_cart_item", user |-> u, product |-> p, qty |-> q]
StockCall(p, d) == [op |-> "update_stock", product |-> p, change |-> d]
DeleteCall(i) == [op |-> "delete_cart_item", id |-> i]
PutCall(i, q) == [op |-> "update_cart_item", id |-> i, qty |-> q]
OrderCall(u) == [op |-> "create_order", user |-> u]
\* create_order after its GET of the cart
InsertCall(u, rows) == [op |-> "insert_order", user |-> u, items |-> rows]
NoCall == [op |-> "none"]

Call ==
    [op : {"add_cart_item"}, user : Users, product : Products, qty : Nat]
    \cup [op : {"update_stock"}, product : Products, change : Int]
    \cup [op : {"delete_cart_item"}, id : Nat]
    \cup [op : {"update_cart_item"}, id : Nat, qty : Nat]
    \cup [op : {"create_order"}, user : Users]
    \cup [op : {"insert_order"}, user : Users, items : SUBSET Row]

Pc == {"idle", "add_cart", "add_stock", "save_next", "save_stock", "save_cart",
       "order", "cleanup_next", "cleanup"}

CartOf(u) == {r \in cart : r.user = u}
Pending(op) == {s \in Sessions : call[s].op = op /\ reply[s] = "none"}
LatePending(op) == {l \in late : l.call.op = op}

Init ==
    /\ onSale = Products
    /\ stock = InitialStock
    /\ cart = {} /\ cartSeq = 0
    /\ orders = {} /\ orderSeq = 0
    /\ pc = [s \in Sessions |-> "idle"]
    /\ userId = [s \in Sessions |-> NoUser]
    /\ shown = [s \in Sessions |-> {}]
    /\ todo = [s \in Sessions |-> {}]
    /\ call = [s \in Sessions |-> NoCall]
    /\ reply = [s \in Sessions |-> "none"]
    /\ late = {}
    /\ faults = 0
    /\ supply = InitialStock
-----------------------------------------------------------------------------
(***************************************************************************)
(* The handlers of the services.  Each serves call c and says whether its  *)
(* answer is a success.                                                    *)
(***************************************************************************)
\* Mutation: a plain INTEGER PRIMARY KEY, which takes the largest id in use
\* plus one.
AddCartItemReusingIds(c, ok) ==
    /\ c.op = "add_cart_item" /\ ok
    /\ cart' = cart \cup {[id |-> 1 + Max({0} \cup {r.id : r \in cart}), user |-> c.user,
                           product |-> c.product, qty |-> c.qty]}
    /\ cartSeq' = cartSeq + 1
    /\ UNCHANGED <<onSale, stock, orders, orderSeq>>

\* The cart service does not look at the stock.
AddCartItem(c, ok) ==
    /\ c.op = "add_cart_item" /\ ok
    /\ cart' = cart \cup {[id |-> cartSeq + 1, user |-> c.user,
                           product |-> c.product, qty |-> c.qty]}
    /\ cartSeq' = cartSeq + 1
    /\ UNCHANGED <<onSale, stock, orders, orderSeq>>

\* A row that is not there (any more) is updated with success.
UpdateCartItem(c, ok) ==
    /\ c.op = "update_cart_item" /\ ok
    /\ cart' = {IF r.id = c.id THEN [r EXCEPT !.qty = c.qty] ELSE r : r \in cart}
    /\ UNCHANGED <<onSale, stock, cartSeq, orders, orderSeq>>

\* A row that is not there (any more) is deleted with success.
DeleteCartItem(c, ok) ==
    /\ c.op = "delete_cart_item" /\ ok
    /\ cart' = {r \in cart : r.id # c.id}
    /\ UNCHANGED <<onSale, stock, cartSeq, orders, orderSeq>>

\* Mutation: no check of the new level.
UpdateStockUnchecked(c, ok) ==
    /\ c.op = "update_stock"
    /\ ok <=> c.product \in onSale
    /\ stock' = IF ok THEN [stock EXCEPT ![c.product] = @ + c.change] ELSE stock
    /\ UNCHANGED <<onSale, cart, cartSeq, orders, orderSeq>>

UpdateStock(c, ok) ==
    /\ c.op = "update_stock"
    /\ ok <=> c.product \in onSale /\ stock[c.product] + c.change >= 0
    /\ stock' = IF ok THEN [stock EXCEPT ![c.product] = @ + c.change] ELSE stock
    /\ UNCHANGED <<onSale, cart, cartSeq, orders, orderSeq>>

\* The second half of create_order: one transaction that inserts the order
\* and an order item for every row its GET returned.
InsertOrder(c, ok) ==
    /\ c.op = "insert_order" /\ ok
    /\ orders' = orders \cup {[id |-> orderSeq + 1, user |-> c.user, items |-> c.items]}
    /\ orderSeq' = orderSeq + 1
    /\ UNCHANGED <<onSale, stock, cart, cartSeq>>

Handle(c, ok) ==
    \/ AddCartItem(c, ok) \/ UpdateCartItem(c, ok) \/ DeleteCartItem(c, ok)
    \/ UpdateStock(c, ok) \/ InsertOrder(c, ok)

Serve(s) ==
    /\ reply[s] = "none"
    /\ \E ok \in BOOLEAN :
          /\ Handle(call[s], ok)
          /\ reply' = [reply EXCEPT ![s] = IF ok THEN "ok" ELSE "refused"]
    /\ UNCHANGED <<pc, userId, shown, todo, call, late, faults, supply>>

\* The first half of create_order: GET /cart; an empty cart is refused.
ServeCreateOrder(s) ==
    /\ reply[s] = "none" /\ call[s].op = "create_order"
    /\ LET u == call[s].user IN
       IF CartOf(u) = {}
       THEN reply' = [reply EXCEPT ![s] = "refused"] /\ UNCHANGED call
       ELSE call' = [call EXCEPT ![s] = InsertCall(u, CartOf(u))] /\ UNCHANGED reply
    /\ UNCHANGED <<db, pc, userId, shown, todo, late, faults, supply>>

\* The same for a call whose session has given up.
ServeLate(l) ==
    /\ \E ok \in BOOLEAN : Handle(l.call, ok)
    /\ late' = late \ {l}
    /\ UNCHANGED <<ui, faults, supply>>

ServeCreateOrderLate(l) ==
    /\ l.call.op = "create_order"
    /\ LET u == l.call.user IN
       late' = (late \ {l}) \cup
               IF CartOf(u) = {} THEN {}
               ELSE {[l EXCEPT !.call = InsertCall(u, CartOf(u))]}
    /\ UNCHANGED <<db, ui, faults, supply>>

\* The call of a session that gave up never reached the service.
Lose(l) ==
    /\ late' = late \ {l}
    /\ UNCHANGED <<db, ui, faults, supply>>

Refuse(s) ==
    /\ "refuse" \in Events /\ faults < MaxFaults
    /\ call[s] # NoCall /\ reply[s] = "none"
    /\ reply' = [reply EXCEPT ![s] = "refused"]
    /\ faults' = faults + 1
    /\ UNCHANGED <<db, pc, userId, shown, todo, call, late, supply>>

Timeout(s) ==
    /\ "timeout" \in Events /\ faults < MaxFaults
    /\ call[s] # NoCall /\ reply[s] = "none"
    /\ reply' = [reply EXCEPT ![s] = "exception"]
    /\ faults' = faults + 1
    /\ late' = late \cup {[nr |-> faults, call |-> call[s]]}
    /\ UNCHANGED <<db, pc, userId, shown, todo, call, supply>>

WithdrawProduct(p) ==
    /\ "withdraw" \in Events /\ p \in onSale
    /\ onSale' = onSale \ {p}
    /\ stock' = [stock EXCEPT ![p] = 0]
    /\ supply' = [supply EXCEPT ![p] = @ - stock[p]]
    /\ UNCHANGED <<cart, cartSeq, orders, orderSeq, ui, late, faults>>
-----------------------------------------------------------------------------
(***************************************************************************)
(* The scripts of the sessions.                                            *)
(***************************************************************************)
Send(s, c, at) ==
    /\ call' = [call EXCEPT ![s] = c]
    /\ reply' = [reply EXCEPT ![s] = "none"]
    /\ pc' = [pc EXCEPT ![s] = at]

Goto(s, at) ==
    /\ call' = [call EXCEPT ![s] = NoCall]
    /\ reply' = [reply EXCEPT ![s] = "none"]
    /\ pc' = [pc EXCEPT ![s] = at]

\* The script ends; an exception ends it without any clean-up.
Stop(s) ==
    /\ Goto(s, "idle")
    /\ todo' = [todo EXCEPT ![s] = {}]
    /\ UNCHANGED <<userId, shown>>

\* The script deletes every key "cart_..." of the session state and ends.
ClearAndStop(s) ==
    /\ Goto(s, "idle")
    /\ todo' = [todo EXCEPT ![s] = {}]
    /\ userId' = [userId EXCEPT ![s] = NoUser]
    /\ shown' = [shown EXCEPT ![s] = {}]

\* The line the loops over the grid are at: they go by row index, which
\* is the order of the ids.
Current(s) == CHOOSE e \in todo[s] : \A f \in todo[s] : e.row.id <= f.row.id

(***************************************************************************)
(* product_ui "Add to Cart": POST /cart, and only then the stock is asked  *)
(* for; when the stock refuses, the row stays in the cart.                 *)
(***************************************************************************)
ClickAddToCart(s, u, p, q) ==
    /\ pc[s] = "idle" /\ p \in onSale /\ q > 0
    /\ cartSeq + Cardinality(Pending("add_cart_item"))
               + Cardinality(LatePending("add_cart_item")) < MaxRows
    /\ Send(s, AddCall(u, p, q), "add_cart")
    /\ UNCHANGED <<db, userId, shown, todo, late, faults, supply>>

AfterAddCart(s) ==
    /\ pc[s] = "add_cart"
    /\ \/ /\ reply[s] = "ok"
          /\ Send(s, StockCall(call[s].product, 0 - call[s].qty), "add_stock")
          /\ UNCHANGED <<userId, shown, todo>>
       \/ reply[s] \in {"refused", "exception"} /\ Stop(s)
    /\ UNCHANGED <<db, late, faults, supply>>

AfterAddStock(s) ==
    /\ pc[s] = "add_stock" /\ reply[s] # "none"
    /\ Stop(s)
    /\ UNCHANGED <<db, late, faults, supply>>

(***************************************************************************)
(* cart_ui "List Cart Items".  The user is stored before the cart is asked *)
(* for, and an error or an empty cart returns before the grid is replaced: *)
(* userId can be one customer while shown holds the rows of another.       *)
(* The grid and its buttons stay in use after the user leaves the page or  *)
(* selects no action, so a click may follow at any later time; a click     *)
(* while "List Cart Items" is selected runs this action first.             *)
(***************************************************************************)
ListCartItems(s, u) ==
    /\ pc[s] = "idle"
    /\ userId' = [userId EXCEPT ![s] = u]
    /\ \/ /\ CartOf(u) # {}
          /\ shown' = [shown EXCEPT ![s] = CartOf(u)]
          /\ UNCHANGED faults
       \/ /\ CartOf(u) = {}
          /\ UNCHANGED <<shown, faults>>
       \/ /\ Events \cap {"refuse", "timeout", "rerun"} # {} /\ faults < MaxFaults
          /\ faults' = faults + 1
          /\ UNCHANGED shown
    /\ UNCHANGED <<db, pc, todo, call, reply, late, supply>>

(***************************************************************************)
(* cart_ui "Save Changes": for each edited line, correct the stock, then   *)
(* the cart row.                                                           *)
(***************************************************************************)
\* The lines of the grid that the user changed before clicking.
Edits(s) ==
    {edits \in SUBSET [row : shown[s], delete : BOOLEAN, qty : Quantities] :
        /\ \A e, f \in edits : e.row = f.row => e = f
        /\ \A e \in edits :
              /\ ~e.delete => e.qty # e.row.qty
              /\ e.delete /\ "edit_deleted" \notin Events => e.qty = e.row.qty}

ClickSaveChanges(s) ==
    /\ pc[s] = "idle" /\ shown[s] # {}
    /\ \A p \in Products : stock[p] <= MaxStock
    /\ \E edits \in Edits(s) : todo' = [todo EXCEPT ![s] = edits]
    /\ Goto(s, "save_next")
    /\ UNCHANGED <<db, userId, shown, late, faults, supply>>

\* A deleted line gives back the quantity in the grid, an edited one asks
\* for the difference to the quantity that was loaded.
SaveNextLine(s) ==
    /\ pc[s] = "save_next"
    /\ \/ todo[s] = {} /\ ClearAndStop(s)
       \/ /\ todo[s] # {}
          /\ LET e == Current(s) IN
             Send(s, StockCall(e.row.product,
                               IF e.delete THEN e.qty ELSE e.row.qty - e.qty),
                  "save_stock")
          /\ UNCHANGED <<userId, shown, todo>>
    /\ UNCHANGED <<db, late, faults, supply>>

\* Mutation: a deleted line goes on although the stock refused to take the units
\* back.
AfterSaveStockRegardless(s) ==
    /\ pc[s] = "save_stock"
    /\ LET e == Current(s) IN
       \/ /\ reply[s] = "ok" \/ (e.delete /\ reply[s] = "refused")
          /\ Send(s, IF e.delete THEN DeleteCall(e.row.id)
                                 ELSE PutCall(e.row.id, e.qty), "save_cart")
          /\ UNCHANGED <<userId, shown, todo>>
       \/ reply[s] = "refused" /\ ~e.delete /\ ClearAndStop(s)
    /\ UNCHANGED <<db, late, faults, supply>>

\* Mutation: the loop over the lines goes on without leaving the one behind that
\* the stock refused.
AfterSaveStockAgain(s) ==
    /\ pc[s] = "save_stock"
    /\ LET e == Current(s) IN
       \/ /\ reply[s] = "ok"
          /\ Send(s, IF e.delete THEN DeleteCall(e.row.id)
                                 ELSE PutCall(e.row.id, e.qty), "save_cart")
          /\ UNCHANGED <<userId, shown, todo>>
       \/ reply[s] = "refused" /\ Goto(s, "save_next") /\ UNCHANGED <<userId, shown, todo>>
       \/ reply[s] = "exception" /\ Stop(s)
    /\ UNCHANGED <<db, late, faults, supply>>

AfterSaveStock(s) ==
    /\ pc[s] = "save_stock"
    /\ LET e == Current(s) IN
       \/ /\ reply[s] = "ok"
          /\ Send(s, IF e.delete THEN DeleteCall(e.row.id)
                                 ELSE PutCall(e.row.id, e.qty), "save_cart")
          /\ UNCHANGED <<userId, shown, todo>>
       \/ /\ reply[s] = "refused" /\ e.delete          \* continue
          /\ Goto(s, "save_next")
          /\ todo' = [todo EXCEPT ![s] = @ \ {e}]
          /\ UNCHANGED <<userId, shown>>
       \/ reply[s] = "refused" /\ ~e.delete /\ ClearAndStop(s)   \* break
       \/ reply[s] = "exception" /\ Stop(s)
    /\ UNCHANGED <<db, late, faults, supply>>

AfterSaveCart(s) ==
    /\ pc[s] = "save_cart"
    /\ \/ /\ reply[s] = "ok"
          /\ Goto(s, "save_next")
          /\ todo' = [todo EXCEPT ![s] = @ \ {Current(s)}]
          /\ UNCHANGED <<userId, shown>>
       \/ reply[s] = "refused" /\ ClearAndStop(s)
       \/ reply[s] = "exception" /\ Stop(s)
    /\ UNCHANGED <<db, late, faults, supply>>

(***************************************************************************)
(* cart_ui "Create Order": POST /orders for the stored user, then DELETE   *)
(* every row of the stored grid.                                           *)
(***************************************************************************)
ClickCreateOrder(s) ==
    /\ pc[s] = "idle" /\ shown[s] # {} /\ userId[s] # NoUser
    /\ orderSeq + Cardinality(Pending("create_order") \cup Pending("insert_order"))
                + Cardinality(LatePending("create_order") \cup LatePending("insert_order"))
          < MaxOrders
    /\ Send(s, OrderCall(userId[s]), "order")
    /\ UNCHANGED <<db, userId, shown, todo, late, faults, supply>>

\* Mutation: the clean-up does not look at the answer.
AfterCreateOrderRegardless(s) ==
    /\ pc[s] = "order" /\ reply[s] # "none"
    /\ Goto(s, "cleanup_next")
    /\ todo' = [todo EXCEPT ![s] =
                  {[row |-> r, delete |-> TRUE, qty |-> r.qty] : r \in shown[s]}]
    /\ UNCHANGED <<db, userId, shown, late, faults, supply>>

AfterCreateOrder(s) ==
    /\ pc[s] = "order"
    /\ \/ /\ reply[s] = "ok"
          /\ Goto(s, "cleanup_next")
          /\ todo' = [todo EXCEPT ![s] =
                        {[row |-> r, delete |-> TRUE, qty |-> r.qty] : r \in shown[s]}]
          /\ UNCHANGED <<userId, shown>>
       \/ reply[s] \in {"refused", "exception"} /\ Stop(s)
    /\ UNCHANGED <<db, late, faults, supply>>

CleanupNextRow(s) ==
    /\ pc[s] = "cleanup_next"
    /\ IF todo[s] = {}
       THEN ClearAndStop(s)
       ELSE /\ Send(s, DeleteCall(Current(s).row.id), "cleanup")
            /\ UNCHANGED <<userId, shown, todo>>
    /\ UNCHANGED <<db, late, faults, supply>>

\* Mutation: the loop repeats a DELETE until the service refuses it as gone.
AfterCleanupRepeating(s) ==
    /\ pc[s] = "cleanup"
    /\ \/ /\ reply[s] \in {"ok", "refused"}
          /\ Goto(s, "cleanup_next")
          /\ todo' = [todo EXCEPT ![s] = IF reply[s] = "ok" THEN @ ELSE @ \ {Current(s)}]
          /\ UNCHANGED <<userId, shown>>
       \/ reply[s] = "exception" /\ Stop(s)
    /\ UNCHANGED <<db, late, faults, supply>>

\* A failed DELETE is reported and the loop goes on.
AfterCleanup(s) ==
    /\ pc[s] = "cleanup"
    /\ \/ /\ reply[s] \in {"ok", "refused"}
          /\ Goto(s, "cleanup_next")
          /\ todo' = [todo EXCEPT ![s] = @ \ {Current(s)}]
          /\ UNCHANGED <<userId, shown>>
       \/ reply[s] = "exception" /\ Stop(s)
    /\ UNCHANGED <<db, late, faults, supply>>

(***************************************************************************)
(* Streamlit abandons the script, at a message about an answer or at an    *)
(* access to the session state.  What the script did until then stays.     *)
(***************************************************************************)
ShowsMessage(s) ==
    \/ pc[s] \in {"save_stock", "save_cart", "cleanup"} /\ reply[s] = "refused"
    \/ pc[s] = "order" /\ reply[s] = "ok"

ClearsKeys(s) ==
    \/ pc[s] \in {"save_next", "cleanup_next"} /\ todo[s] = {}
    \/ pc[s] = "save_stock" /\ reply[s] = "refused" /\ ~Current(s).delete
    \/ pc[s] = "save_cart" /\ reply[s] = "refused"

\* The keys are deleted in no certain order; a run that is abandoned after it
\* deleted the grid has cleared all that matters.
Abandon(s) ==
    /\ "rerun" \in Events /\ faults < MaxFaults
    /\ \/ ShowsMessage(s) /\ UNCHANGED userId
       \/ ClearsKeys(s) /\ userId' \in {userId, [userId EXCEPT ![s] = NoUser]}
    /\ Goto(s, "idle")
    /\ todo' = [todo EXCEPT ![s] = {}]
    /\ faults' = faults + 1
    /\ UNCHANGED <<db, shown, late, supply>>
-----------------------------------------------------------------------------
Script(s) ==
    \/ AfterAddCart(s) \/ AfterAddStock(s)
    \/ SaveNextLine(s) \/ AfterSaveStock(s) \/ AfterSaveCart(s)
    \/ AfterCreateOrder(s) \/ CleanupNextRow(s) \/ AfterCleanup(s)

Click(s) ==
    \/ \E u \in UsersOf[s] :
          \/ ListCartItems(s, u)
          \/ \E p \in Products, q \in Quantities : ClickAddToCart(s, u, p, q)
    \/ ClickSaveChanges(s)
    \/ ClickCreateOrder(s)

Service(s) == Serve(s) \/ ServeCreateOrder(s)
LateService(l) == ServeLate(l) \/ ServeCreateOrderLate(l) \/ Lose(l)

Next ==
    \/ \E s \in Sessions : Script(s) \/ Abandon(s) \/ Click(s)
    \/ \E s \in Sessions : Service(s) \/ Refuse(s) \/ Timeout(s)
    \/ \E l \in late : LateService(l)
    \/ \E p \in Products : WithdrawProduct(p)

Spec == Init /\ [][Next]_vars

\* Every call that a session waits for is answered (the UI sets a timeout on
\* each), and the script of a session runs on.
Fairness == \A s \in Sessions : WF_vars(Script(s)) /\ WF_vars(Service(s))

FairSpec == Spec /\ Fairness
-----------------------------------------------------------------------------
(***************************************************************************)
(* Properties.                                                             *)
(***************************************************************************)
TypeOK ==
    /\ onSale \subseteq Products
    /\ stock \in [Products -> Nat]
    /\ cart \subseteq Row /\ cartSeq \in Nat
    /\ orders \subseteq Order /\ orderSeq \in Nat
    /\ pc \in [Sessions -> Pc]
    /\ userId \in [Sessions -> Users \cup {NoUser}]
    /\ shown \in [Sessions -> SUBSET Row]
    /\ todo \in [Sessions -> SUBSET Edit]
    /\ call \in [Sessions -> Call \cup {NoCall}]
    /\ reply \in [Sessions -> {"none", "ok", "refused", "exception"}]
    /\ late \subseteq [nr : Nat, call : Call]
    /\ faults \in 0 .. MaxFaults
    /\ supply \in [Products -> Int]

\* Row identifiers mean one row for ever: wherever a row is remembered (a
\* grid on screen, the rest of a loop over it, an order), a cart row with
\* the same id belongs to the same customer and product.  The cart service
\* deletes and updates by bare id, so a stale grid is harmless to other
\* customers only because ids are not used again.
Remembered ==
    (UNION {shown[s] : s \in Sessions})
    \cup {e.row : e \in UNION {todo[s] : s \in Sessions}}
    \cup (UNION {o.items : o \in orders})

SameRow(r, t) == r.id = t.id => r.user = t.user /\ r.product = t.product

RowIdentity == \A r \in Remembered, t \in cart : SameRow(r, t)

\* The clean-up after an order deletes only what was ordered: a row of the
\* customer that it is about to delete is part of an order of this customer,
\* whatever other sessions did to the cart since the grid was loaded, and
\* whatever failed, timed out or was abandoned.
Cleaning(s) == pc[s] \in {"cleanup_next", "cleanup"}

CleanupOnlyOrdered ==
    \A s \in Sessions : Cleaning(s) =>
        \A e \in todo[s], t \in cart : t.id = e.row.id /\ t.user = userId[s] =>
            \E o \in orders : o.user = userId[s] /\ \E i \in o.items : i.id = t.id

\* "cleanup cart items post-order": the clean-up deletes rows of the customer
\* the order was created for, and of nobody else.
CleanupSparesOthers ==
    \A s \in Sessions : Cleaning(s) =>
        \A e \in todo[s], t \in cart : t.id = e.row.id => t.user = userId[s]

\* Units of product p: in rows, in all carts, in all orders.
Qty == [r \in Row |-> r.qty]
UnitsIn(rows, p) == SumFunctionOnSet(Qty, {r \in rows : r.product = p})
Ordered(p) == SumFunction([o \in orders |-> UnitsIn(o.items, p)])

\* Units that "Save Changes" took out of the stock and did not put into the
\* cart row yet.
TakenOut(s, p) ==
    /\ \/ pc[s] = "save_stock" /\ reply[s] = "ok"
       \/ pc[s] = "save_cart" /\ reply[s] = "none"
    /\ ~Current(s).delete /\ Current(s).qty > Current(s).row.qty
    /\ Current(s).row.product = p

OnTheWay(p) ==
    SumFunction([s \in Sessions |->
                   IF TakenOut(s, p) THEN Current(s).qty - Current(s).row.qty ELSE 0])

\* No unit disappears: whatever the flows of several sessions move, a unit
\* brought in is in stock, in a cart, in an order or on its way between the two
\* calls of a save.  (Units can appear: add_cart_item does not check the stock.)
\* Holds without faults and reruns when each session serves one customer, no
\* two sessions the same one, and no row is both edited and marked for deletion.
NoUnitsLost ==
    \A p \in Products :
        stock[p] + UnitsIn(cart, p) + Ordered(p) + OnTheWay(p) >= supply[p]

\* create_order commits what it read in an earlier call.  While it waits for
\* that, what it read is the cart of its customer, and the one thing that makes
\* it out of date is a call about a cart of another session that serves this
\* customer, or of a session that gave up: never a call by bare id of a session
\* that serves others only, however old the grid the id comes from.
Inserting(s) == call[s].op = "insert_order" /\ reply[s] = "none"
UpToDate(s) == call[s].items = CartOf(call[s].user)

CartCalls == {"add_cart_item", "update_cart_item", "delete_cart_item"}
AnsweredNow(s) == call[s].op \in CartCalls /\ reply[s] = "none" /\ reply'[s] # "none"

OutdatedBySharers ==
    [][\A s \in Sessions :
          Inserting(s)' /\ (Inserting(s) => UpToDate(s)) =>
             \/ UpToDate(s)'
             \/ \E t \in Sessions \ {s} : call'[s].user \in UsersOf[t] /\ AnsweredNow(t)
             \/ \E l \in late \ late' : l.call.op \in CartCalls]_vars

\* Every flow comes to its end and the session takes clicks again.
FlowsEnd == \A s \in Sessions : pc[s] # "idle" ~> pc[s] = "idle"

\* A bound on the steps that are left of a flow: five for each line of a grid
\* that is saved, three for each row that is cleaned up after an order.
StepsLeft(s) ==
    LET lines == Cardinality(todo[s])
        rows == Cardinality(shown[s])
        waits == IF reply[s] = "none" THEN 1 ELSE 0
    IN CASE pc[s] = "idle" -> 0
         [] pc[s] = "add_cart" -> 3 + waits
         [] pc[s] = "add_stock" -> 1 + waits
         [] pc[s] = "save_next" -> 5 * lines + 1
         [] pc[s] = "save_stock" -> 5 * lines - 1 + waits
         [] pc[s] = "save_cart" -> 5 * lines - 3 + waits
         [] pc[s] = "order" ->
               3 * rows + 2 + waits + (IF call[s].op = "create_order" THEN waits ELSE 0)
         [] pc[s] = "cleanup_next" -> 3 * lines + 1
         [] pc[s] = "cleanup" -> 3 * lines - 1 + waits

\* Every flow gets nearer to its end with each of its steps and each answer,
\* whatever other sessions do to the rows it is about and whatever is refused
\* or times out: no loop over a grid does a line twice or waits for another
\* session, and no step of another session makes a flow longer.
FlowsGetOn ==
    [][\A s \in Sessions : pc[s] # "idle" =>
          \/ StepsLeft(s)' < StepsLeft(s)
          \/ UNCHANGED <<pc[s], call[s], reply[s], shown[s], todo[s]>>]_vars

\* The message "Cart cleared successfully." of the order flow: when the flow
\* ends, nothing that was ordered is still in the cart of the customer.
ClearedMeansCleared ==
    [][\A s \in Sessions :
          pc[s] = "cleanup_next" /\ pc'[s] = "idle" =>
             \A o \in orders : o.user = userId[s] =>
                \A i \in o.items, t \in cart : t.id # i.id]_vars
=============================================================================
